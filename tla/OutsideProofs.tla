---------------------------- MODULE OutsideProofs ----------------------------
(***************************************************************************)
(* Proofs that the safety properties of HostedImport, CoverStore and       *)
(* DraftApply, the components that write outside the database, and of      *)
(* BookCopies and SourceRefresh, the circulation of literature and the     *)
(* source it is refreshed from, hold for every value of their constants.   *)
(* Each has an inductive invariant, lemmas about its handlers and, at the  *)
(* end of its part, its theorems.                                          *)
(***************************************************************************)
EXTENDS HostedImport, CoverStore, DraftApply, SourceRefresh, SumTheorems, TLAPS

-----------------------------------------------------------------------------
(* The import of the spreadsheet: the inductive invariant, what every call *)
(* under way may rely on                                                   *)

Busy(w) == importer[w] # Calm
(* Nobody can go on with the run s any more. *)
RunGone(s) == attempt.id # s \/ attempt.status = "cleaned"
(* An upload whose row was not tried yet is alone with its run. *)
Unshared(w) ==
    /\ attempt.id # importer[w].id
    /\ \A v \in Importers : v # w /\ Busy(v) => importer[v].id # importer[w].id
UploadFine(w) ==
    /\ importer[w].at \in {"put", "insert", "settle", "remove"}
    /\ importer[w].at \in {"put", "insert"} => Unshared(w)
    /\ importer[w].at = "insert" => importer[w].id \in stored
    /\ importer[w].at = "remove" => attempt.id # importer[w].id
(* Any other call began with the row of its run; only a reset took it away. *)
CallFine(w) ==
    /\ importer[w].at \notin {"put", "insert", "settle"}
    /\ attempt.id = importer[w].id \/ importer[w].id \in stray
    /\ importer[w].at \in {"repair", "deadline", "sweep", "remove"} => RunGone(importer[w].id)
    /\ importer[w].at = "claim" => importer[w].status \notin {"committed", "cleaned"}
HandlerFine(w) ==
    Busy(w) =>
      /\ importer[w].id \in minted
      /\ IF importer[w].call = "upload" THEN UploadFine(w) ELSE CallFine(w)
HandlersFine == \A w \in Importers : HandlerFine(w)
IdsMinted == attempt.id # NoImport => attempt.id \in minted

(* A call that will look at the object of s before it answers. *)
OwesObject(w, s) ==
    /\ Busy(w) /\ importer[w].id = s /\ importer[w].at \in Owing
    /\ importer[w].at = "settle" => attempt.id # s
Claimed(s) == attempt.id = s /\ attempt.status # "cleaned"
ObjectsOwed == \A s \in stored \ stray : Claimed(s) \/ \E w \in Importers : OwesObject(w, s)

ImportInv ==
    /\ ImportTypeOK /\ HandlersFine /\ IdsMinted
    /\ LoadedByItsRun /\ PlanKept /\ ObjectsOwed

-----------------------------------------------------------------------------
(* Types *)

LEMMA Proceeds ==
    ASSUME ImportTypeOK, NEW w \in Importers, NEW p \in ImportPoints, Busy(w), Proceed(w, p)
    PROVE  /\ importer' \in [Importers -> ImportPlan \cup {Calm}]
           /\ \A v \in Importers : v # w => importer'[v] = importer[v]
           /\ importer'[w] # Calm
           /\ importer'[w].at = p /\ importer'[w].id = importer[w].id
           /\ importer'[w].call = importer[w].call /\ importer'[w].status = importer[w].status
<1>1. importer[w] \in ImportPlan
  BY DEF ImportTypeOK, Busy
<1>2. [importer[w] EXCEPT !.at = p] \in ImportPlan
  BY <1>1 DEF ImportPlan
<1>3. importer' = [importer EXCEPT ![w] = [importer[w] EXCEPT !.at = p]]
  BY DEF Proceed
<1>4. importer'[w] = [importer[w] EXCEPT !.at = p]
  BY <1>3 DEF ImportTypeOK
<1>5. importer'[w] # Calm
  BY <1>2, <1>4, CalmAssumption
<1>6. importer'[w].at = p /\ importer'[w].id = importer[w].id
      /\ importer'[w].call = importer[w].call /\ importer'[w].status = importer[w].status
  BY <1>1, <1>4 DEF ImportPlan
<1>7. importer' \in [Importers -> ImportPlan \cup {Calm}]
      /\ \A v \in Importers : v # w => importer'[v] = importer[v]
  BY <1>2, <1>3 DEF ImportTypeOK
<1> QED BY <1>5, <1>6, <1>7

LEMMA AnswerMoves ==
    ASSUME ImportTypeOK, NEW w \in Importers, Answer(w)
    PROVE  /\ importer' \in [Importers -> ImportPlan \cup {Calm}]
           /\ \A v \in Importers : v # w => importer'[v] = importer[v]
           /\ importer'[w] = Calm
BY DEF ImportTypeOK, Answer

LEMMA Begins ==
    ASSUME ImportTypeOK, NEW w \in Importers, NEW r \in ImportPlan,
           importer' = [importer EXCEPT ![w] = r]
    PROVE  /\ importer' \in [Importers -> ImportPlan \cup {Calm}]
           /\ \A v \in Importers : v # w => importer'[v] = importer[v]
           /\ importer'[w] = r
BY DEF ImportTypeOK

LEMMA RowTypes ==
    ASSUME ImportTypeOK
    PROVE  /\ NoRunRow \in ImportRow
           /\ \A s \in ImportRuns : [NoRunRow EXCEPT !.id = s] \in ImportRow
           /\ \A t \in RunStages : [attempt EXCEPT !.status = t] \in ImportRow
           /\ \A a \in BOOLEAN : [attempt EXCEPT !.status = "cleaned", !.abandoned = a] \in ImportRow
           /\ attempt \in ImportRow
BY DEF ImportTypeOK, NoRunRow, ImportRow, RunStages

-----------------------------------------------------------------------------
(* The steps of one call *)

CallStep(w) ==
    \/ PutPlan(w) \/ InsertRun(w) \/ SettleUpload(w)
    \/ HeadReplay(w) \/ RepairPlan(w) \/ MeetDeadline(w) \/ ReloadRun(w)
    \/ LoadPlan(w) \/ Inspect(w)
    \/ MarkPreflighted(w) \/ CommitPlan(w) \/ MarkVerified(w)
    \/ ClaimCleanup(w) \/ HeadCleanup(w) \/ RemovePlan(w)
    \/ Break(w)

LEMMA StepCases ==
    ASSUME [ImportNext]_importVars
    PROVE  \/ \E w \in Importers, s \in ImportRuns : Mint(w, s)
           \/ \E w \in Importers, c \in ImportCalls : Require(w, c)
           \/ \E w \in Importers : CallStep(w)
           \/ ResetTarget \/ Expire \/ UNCHANGED importVars
BY DEF ImportNext, CallStep

(* A call that goes on keeps its run, its kind and the row it read. *)
Steady(w) == Busy(w) /\ Busy(w)' => /\ importer'[w].id = importer[w].id
                                   /\ importer'[w].call = importer[w].call
                                   /\ importer'[w].status = importer[w].status

LEMMA CallTypes ==
    ASSUME ImportTypeOK, NEW w \in Importers, CallStep(w)
    PROVE  /\ importer' \in [Importers -> ImportPlan \cup {Calm}]
           /\ \A v \in Importers : v # w => importer'[v] = importer[v]
           /\ Busy(w) /\ Steady(w)
<1>1. Busy(w)
  BY DEF CallStep, Busy, AtPoint, PutPlan, InsertRun, SettleUpload, HeadReplay, RepairPlan,
         MeetDeadline, ReloadRun, LoadPlan, Inspect, MarkPreflighted, CommitPlan, MarkVerified,
         ClaimCleanup, HeadCleanup, RemovePlan, Break
<1>2. Answer(w) \/ \E p \in ImportPoints : Proceed(w, p)
  BY DEF CallStep, PutPlan, InsertRun, SettleUpload, HeadReplay, RepairPlan, MeetDeadline,
         ReloadRun, LoadPlan, Inspect, MarkPreflighted, CommitPlan, MarkVerified, ClaimCleanup,
         HeadCleanup, RemovePlan, Break, ImportPoints
<1>3. CASE Answer(w)
  BY <1>1, <1>3, AnswerMoves DEF Steady, Busy
<1>4. CASE \E p \in ImportPoints : Proceed(w, p)
  <2>1. PICK p \in ImportPoints : Proceed(w, p)
    BY <1>4
  <2> QED BY <1>1, <2>1, Proceeds DEF Steady
<1> QED BY <1>2, <1>3, <1>4

LEMMA TypesKept == ASSUME ImportTypeOK, [ImportNext]_importVars PROVE ImportTypeOK'
<1>1. CASE \E w \in Importers, s \in ImportRuns : Mint(w, s)
  <2>1. PICK w \in Importers, s \in ImportRuns : Mint(w, s)
    BY <1>1
  <2>2. [call |-> "upload", at |-> "put", id |-> s, status |-> "uploaded"] \in ImportPlan
    BY DEF ImportPlan, ImportCalls, ImportPoints, RunStages
  <2> QED BY <2>1, <2>2, Begins DEF Mint, ImportTypeOK
<1>2. CASE \E w \in Importers, c \in ImportCalls : Require(w, c)
  <2>1. PICK w \in Importers, c \in ImportCalls : Require(w, c)
    BY <1>2
  <2>2. /\ StartsAt(c, attempt.status) \in ImportPoints
        /\ attempt.id \in ImportRuns /\ attempt.status \in RunStages
    BY <2>1 DEF StartsAt, ImportPoints, Require, ImportTypeOK, ImportRow
  <2>3. [call |-> c, at |-> StartsAt(c, attempt.status), id |-> attempt.id,
         status |-> attempt.status] \in ImportPlan
    BY <2>2 DEF ImportPlan
  <2> QED BY <2>1, <2>3, Begins DEF Require, ImportTypeOK
<1>3. CASE \E w \in Importers : CallStep(w)
  <2>1. PICK w \in Importers : CallStep(w)
    BY <1>3
  <2>2. importer' \in [Importers -> ImportPlan \cup {Calm}] /\ importer[w].id \in ImportRuns
    BY <2>1, CallTypes DEF ImportTypeOK, ImportPlan, Busy
  <2>3. attempt' \in ImportRow
    BY <2>1, <2>2, RowTypes
       DEF CallStep, PutPlan, InsertRun, SettleUpload, HeadReplay, RepairPlan, MeetDeadline,
           ReloadRun, LoadPlan, Inspect, MarkPreflighted, CommitPlan, MarkVerified, ClaimCleanup,
           HeadCleanup, RemovePlan, Break, Accepted, MarkStage, RunStages
  <2>4. /\ active' \in BOOLEAN /\ minted' \subseteq ImportRuns
        /\ loaded' \in ImportRuns \cup {NoImport}
    BY <2>1, <2>2
       DEF CallStep, PutPlan, InsertRun, SettleUpload, HeadReplay, RepairPlan, MeetDeadline,
           ReloadRun, LoadPlan, Inspect, MarkPreflighted, CommitPlan, MarkVerified, ClaimCleanup,
           HeadCleanup, RemovePlan, Break, ImportTypeOK
  <2>5. stored' \subseteq ImportRuns /\ stray' \subseteq ImportRuns
    BY <2>1, <2>2
       DEF CallStep, PutPlan, InsertRun, SettleUpload, HeadReplay, RepairPlan, MeetDeadline,
           ReloadRun, LoadPlan, Inspect, MarkPreflighted, CommitPlan, MarkVerified, ClaimCleanup,
           HeadCleanup, RemovePlan, Break, ImportTypeOK
  <2> QED BY <2>2, <2>3, <2>4, <2>5 DEF ImportTypeOK
<1>4. CASE ResetTarget
  BY <1>4, RowTypes DEF ResetTarget, ImportTypeOK
<1>5. CASE Expire \/ UNCHANGED importVars
  BY <1>5 DEF Expire, importVars, ImportTypeOK
<1> QED BY <1>1, <1>2, <1>3, <1>4, <1>5, StepCases

-----------------------------------------------------------------------------
(* The row and the database *)

LEMMA RowFields ==
    ASSUME ImportTypeOK
    PROVE  /\ NoRunRow.id = NoImport /\ NoRunRow.status = "uploaded"
           /\ \A s \in ImportRuns : /\ [NoRunRow EXCEPT !.id = s].id = s
                                   /\ [NoRunRow EXCEPT !.id = s].status = "uploaded"
           /\ \A t \in RunStages : /\ [attempt EXCEPT !.status = t].id = attempt.id
                                  /\ [attempt EXCEPT !.status = t].status = t
           /\ \A a \in BOOLEAN :
                 /\ [attempt EXCEPT !.status = "cleaned", !.abandoned = a].id = attempt.id
                 /\ [attempt EXCEPT !.status = "cleaned", !.abandoned = a].status = "cleaned"
                 /\ [attempt EXCEPT !.status = "cleaned", !.abandoned = a].abandoned = a
BY DEF ImportTypeOK, NoRunRow, ImportRow

LEMMA Marked ==
    ASSUME ImportTypeOK, NEW t \in {"preflighted", "committed", "verified"}, MarkStage(t)
    PROVE  attempt'.id = attempt.id /\ attempt'.status = t
<1>1. t \in RunStages
  BY DEF RunStages
<1> QED BY <1>1, RowFields DEF MarkStage

(* How a step of a call may change the row. *)
RowStays == attempt' = attempt
RowAppears(w) ==
    /\ attempt.id = NoImport /\ importer[w].at = "insert"
    /\ attempt'.id = importer[w].id /\ attempt'.status = "uploaded"
RowAdvances(w) ==
    /\ attempt'.id = attempt.id /\ attempt.status # "cleaned" /\ attempt'.status # "cleaned"
    /\ importer[w].at = "write"
RowCleaned(w) ==
    /\ attempt'.id = attempt.id /\ attempt'.status = "cleaned"
    /\ importer[w].at = "claim" /\ attempt.id = importer[w].id
RowStep(w) == RowStays \/ RowAppears(w) \/ RowAdvances(w) \/ RowCleaned(w)

LEMMA RowSteps ==
    ASSUME ImportTypeOK, NEW w \in Importers, CallStep(w)
    PROVE  RowStep(w)
<1>1. importer[w] \in ImportPlan
  BY CallTypes DEF ImportTypeOK, Busy
<1>2. CASE InsertRun(w)
  <2>1. importer[w].id \in ImportRuns /\ importer[w].at = "insert"
    BY <1>1, <1>2 DEF ImportPlan, InsertRun, AtPoint
  <2>2. attempt' = attempt \/ (Accepted(importer[w].id) /\ attempt.id = NoImport)
    BY <1>2 DEF InsertRun
  <2> QED BY <2>1, <2>2, RowFields DEF Accepted, RowStep, RowStays, RowAppears
<1>3. CASE MarkPreflighted(w)
  BY <1>3, Marked DEF MarkPreflighted, Still, RowStep, RowStays, RowAdvances, AtPoint
<1>4. CASE CommitPlan(w)
  BY <1>4, Marked DEF CommitPlan, Still, RowStep, RowStays, RowAdvances, AtPoint
<1>5. CASE MarkVerified(w)
  BY <1>5, Marked DEF MarkVerified, Still, RowStep, RowStays, RowAdvances, AtPoint
<1>6. CASE ClaimCleanup(w)
  BY <1>6, RowFields DEF ClaimCleanup, Still, RowStep, RowStays, RowCleaned, AtPoint
<1>7. CASE \/ PutPlan(w) \/ SettleUpload(w) \/ HeadReplay(w) \/ RepairPlan(w) \/ MeetDeadline(w)
           \/ ReloadRun(w) \/ LoadPlan(w) \/ Inspect(w) \/ HeadCleanup(w) \/ RemovePlan(w)
           \/ Break(w)
  BY <1>7 DEF PutPlan, SettleUpload, HeadReplay, RepairPlan, MeetDeadline, ReloadRun, LoadPlan,
              Inspect, HeadCleanup, RemovePlan, Break, RowStep, RowStays
<1> QED BY <1>2, <1>3, <1>4, <1>5, <1>6, <1>7 DEF CallStep

LEMMA LoadedKept ==
    ASSUME ImportInv, [ImportNext]_importVars
    PROVE  LoadedByItsRun'
<1> USE DEF ImportInv
<1>1. CASE \E w \in Importers : CallStep(w)
  <2>1. PICK w \in Importers : CallStep(w)
    BY <1>1
  <2>2. importer[w] \in ImportPlan /\ HandlerFine(w) /\ Busy(w)
    BY <2>1, CallTypes DEF ImportTypeOK, Busy, HandlersFine
  <2>3. CASE InsertRun(w)
    <3>1. importer[w].id \in ImportRuns
      BY <2>2 DEF ImportPlan
    <3>2. loaded' = loaded /\ (attempt' = attempt \/ (Accepted(importer[w].id) /\ attempt.id = NoImport))
      BY <2>3 DEF InsertRun
    <3> QED BY <3>1, <3>2, RowFields DEF Accepted, LoadedByItsRun, Wrote
  <2>4. CASE MarkPreflighted(w)
    BY <2>4, Marked DEF MarkPreflighted, Still, LoadedByItsRun, Wrote
  <2>5. CASE CommitPlan(w)
    BY <2>5, Marked DEF CommitPlan, Still, LoadedByItsRun, Wrote
  <2>6. CASE MarkVerified(w)
    BY <2>6, Marked DEF MarkVerified, Still, LoadedByItsRun, Wrote
  <2>7. CASE ClaimCleanup(w)
    <3>1. importer[w].status \notin {"committed", "cleaned"}
      BY <2>2, <2>7 DEF HandlerFine, UploadFine, CallFine, ClaimCleanup, AtPoint
    <3>2. loaded' = loaded /\ (attempt' = attempt \/
             (/\ attempt.status = importer[w].status
              /\ attempt' = [attempt EXCEPT !.status = "cleaned",
                                !.abandoned = (importer[w].status # "verified")]))
      BY <2>7 DEF ClaimCleanup, Still
    <3>3. CASE attempt' = attempt
      BY <3>2, <3>3 DEF LoadedByItsRun, Wrote
    <3>4. CASE attempt' # attempt
      <4>1. /\ attempt'.id = attempt.id /\ attempt'.status = "cleaned"
            /\ attempt'.abandoned = (importer[w].status # "verified")
            /\ attempt.status = importer[w].status
        BY <3>2, <3>4, RowFields
      <4> QED BY <3>1, <3>2, <4>1 DEF LoadedByItsRun, Wrote
    <3> QED BY <3>3, <3>4
  <2>8. CASE \/ PutPlan(w) \/ SettleUpload(w) \/ HeadReplay(w) \/ RepairPlan(w)
             \/ MeetDeadline(w) \/ ReloadRun(w) \/ LoadPlan(w) \/ Inspect(w)
             \/ HeadCleanup(w) \/ RemovePlan(w) \/ Break(w)
    BY <2>8 DEF PutPlan, SettleUpload, HeadReplay, RepairPlan, MeetDeadline, ReloadRun, LoadPlan,
                Inspect, HeadCleanup, RemovePlan, Break, LoadedByItsRun, Wrote
  <2> QED BY <2>1, <2>3, <2>4, <2>5, <2>6, <2>7, <2>8 DEF CallStep
<1>2. CASE ResetTarget
  BY <1>2, RowFields DEF ResetTarget, LoadedByItsRun, Wrote
<1>3. CASE (\E w \in Importers, s \in ImportRuns : Mint(w, s))
           \/ (\E w \in Importers, c \in ImportCalls : Require(w, c)) \/ Expire \/ UNCHANGED importVars
  BY <1>3 DEF Mint, Require, Expire, importVars, LoadedByItsRun, Wrote
<1> QED BY <1>1, <1>2, <1>3, StepCases

-----------------------------------------------------------------------------
(* The calls under way *)

LEMMA CallEffects ==
    ASSUME ImportTypeOK, NEW w \in Importers, CallStep(w)
    PROVE  /\ minted' = minted
           /\ \A s \in stored : s # importer[w].id => s \in stored'
           /\ importer[w].at # "remove" => stored \subseteq stored'
           /\ \/ stored' \subseteq stored
              \/ /\ stored' = stored \cup {importer[w].id}
                 /\ PutPlan(w) \/ RepairPlan(w)
           /\ \A s \in stray : s # attempt.id => s \in stray'
           /\ importer[w].at # "remove" => stray \subseteq stray'
           /\ \A s \in stray : s # importer[w].id => s \in stray'
<1>1. CASE RemovePlan(w)
  <2>1. \A t \in {u \in {attempt.id} : u = importer[w].id} : t = attempt.id /\ t = importer[w].id
    OBVIOUS
  <2> QED BY <1>1, <2>1 DEF RemovePlan, AtPoint
<1>2. CASE PutPlan(w) \/ RepairPlan(w)
  BY <1>2 DEF PutPlan, RepairPlan, AtPoint
<1>3. CASE Break(w)
  BY <1>3 DEF Break
<1>4. CASE \/ InsertRun(w) \/ SettleUpload(w) \/ HeadReplay(w) \/ MeetDeadline(w) \/ ReloadRun(w)
           \/ LoadPlan(w) \/ Inspect(w) \/ MarkPreflighted(w) \/ CommitPlan(w)
           \/ MarkVerified(w) \/ ClaimCleanup(w) \/ HeadCleanup(w)
  <2>1. minted' = minted /\ stored' = stored /\ stray' = stray
    BY <1>4 DEF InsertRun, SettleUpload, HeadReplay, MeetDeadline, ReloadRun, LoadPlan, Inspect,
                MarkPreflighted, CommitPlan, MarkVerified, ClaimCleanup, HeadCleanup
  <2> QED BY <2>1
<1> QED BY <1>1, <1>2, <1>3, <1>4 DEF CallStep

LEMMA OtherCalls ==
    ASSUME ImportInv, NEW w \in Importers, CallStep(w), NEW v \in Importers, v # w, Busy(v)
    PROVE  HandlerFine(v)'
<1> USE DEF ImportInv
<1>1. /\ importer'[v] = importer[v] /\ Busy(w) /\ Busy(v)'
      /\ \A u \in Importers : Busy(u)' => Busy(u) /\ importer'[u].id = importer[u].id
  BY CallTypes DEF Busy, Steady
<1>2. /\ importer[v] \in ImportPlan /\ importer[w] \in ImportPlan
      /\ importer[v].id \in ImportRuns /\ importer[w].id \in ImportRuns
  BY <1>1 DEF ImportTypeOK, Busy, ImportPlan
<1>3. HandlerFine(v) /\ HandlerFine(w) /\ RowStep(w)
  BY RowSteps DEF HandlersFine
<1>4. RowAppears(w) => Unshared(w) /\ importer[v].id # importer[w].id
  BY <1>1, <1>3 DEF RowAppears, HandlerFine, UploadFine, CallFine, Unshared
<1>5. importer[v].id \in minted'
  BY <1>1, <1>3, CallEffects DEF HandlerFine
<1>6. CASE importer[v].call = "upload"
  <2>1. UploadFine(v)
    BY <1>1, <1>3, <1>6 DEF HandlerFine, Busy
  <2>2. attempt.id # importer[v].id => attempt'.id # importer[v].id
    BY <1>3, <1>4 DEF RowStep, RowStays, RowAppears, RowAdvances, RowCleaned
  <2>3. Unshared(v) => Unshared(v)'
    BY <1>1, <2>2 DEF Unshared
  <2>4. importer[v].at = "insert" => importer[v].id \in stored'
    <3>1. importer[v].at = "insert" => importer[v].id \in stored /\ importer[v].id # importer[w].id
      BY <1>1, <2>1 DEF UploadFine, Unshared
    <3> QED BY <3>1, CallEffects
  <2>5. UploadFine(v)'
    BY <1>1, <2>1, <2>2, <2>3, <2>4 DEF UploadFine
  <2> QED BY <1>1, <1>5, <1>6, <2>5 DEF HandlerFine
<1>7. CASE importer[v].call # "upload"
  <2>1. CallFine(v)
    BY <1>1, <1>3, <1>7 DEF HandlerFine, Busy
  <2>2. attempt'.id = importer[v].id \/ importer[v].id \in stray'
    <3>1. CASE attempt.id = importer[v].id
      BY <1>2, <1>3, <3>1, ImportAssumption
         DEF RowStep, RowStays, RowAppears, RowAdvances, RowCleaned
    <3>2. CASE attempt.id # importer[v].id
      BY <2>1, <3>2, CallEffects DEF CallFine
    <3> QED BY <3>1, <3>2
  <2>3. RunGone(importer[v].id) => RunGone(importer[v].id)'
    BY <1>1, <1>3, <1>4 DEF RunGone, RowStep, RowStays, RowAppears, RowAdvances, RowCleaned
  <2>4. CallFine(v)'
    BY <1>1, <2>1, <2>2, <2>3 DEF CallFine, RunGone
  <2> QED BY <1>1, <1>5, <1>7, <2>4 DEF HandlerFine
<1> QED BY <1>6, <1>7

LEMMA OwnCall ==
    ASSUME ImportInv, NEW w \in Importers, CallStep(w), Busy(w)'
    PROVE  HandlerFine(w)'
<1> USE DEF ImportInv
<1>1. /\ Busy(w) /\ \A v \in Importers : v # w => importer'[v] = importer[v]
      /\ importer'[w].id = importer[w].id /\ importer'[w].call = importer[w].call
      /\ importer'[w].status = importer[w].status
  BY CallTypes DEF Steady
<1>2. importer[w] \in ImportPlan /\ importer[w].id \in ImportRuns /\ importer[w].id # NoImport
  BY <1>1, ImportAssumption DEF ImportTypeOK, Busy, ImportPlan
<1>3. /\ importer[w].id \in minted'
      /\ IF importer[w].call = "upload" THEN UploadFine(w) ELSE CallFine(w)
  BY <1>1, CallEffects DEF HandlersFine, HandlerFine
<1>4. ~Answer(w)
  BY AnswerMoves DEF Busy
<1>5. \A p \in ImportPoints : Proceed(w, p) => importer'[w].at = p
  BY <1>1, Proceeds
<1>6. \A p \in {"insert", "settle", "remove", "repair", "reload", "deadline", "write", "inspect", "sweep"} :
         p \in ImportPoints
  BY DEF ImportPoints
<1>7. CASE PutPlan(w)
  <2>1. importer[w].call = "upload" /\ Unshared(w)
    BY <1>3, <1>7 DEF PutPlan, AtPoint, CallFine, UploadFine
  <2>2. importer'[w].at = "insert" /\ importer[w].id \in stored' /\ attempt' = attempt
    BY <1>4, <1>5, <1>6, <1>7 DEF PutPlan
  <2>3. Unshared(w)'
    BY <1>1, <2>1, <2>2 DEF Unshared, Busy
  <2> QED BY <1>1, <1>3, <2>1, <2>2, <2>3 DEF HandlerFine, UploadFine
<1>8. CASE InsertRun(w)
  <2>1. importer[w].call = "upload" /\ importer'[w].at = "settle"
    BY <1>3, <1>4, <1>5, <1>6, <1>8 DEF InsertRun, AtPoint, CallFine
  <2> QED BY <1>1, <1>3, <2>1 DEF HandlerFine, UploadFine
<1>9. CASE SettleUpload(w)
  <2>1. importer[w].call = "upload" /\ importer'[w].at = "remove" /\ attempt'.id # importer[w].id
    BY <1>3, <1>4, <1>5, <1>6, <1>9 DEF SettleUpload, AtPoint, CallFine
  <2> QED BY <1>1, <1>3, <2>1 DEF HandlerFine, UploadFine
<1>10. CASE HeadReplay(w)
  <2>1. /\ importer[w].call # "upload" /\ CallFine(w) /\ attempt' = attempt /\ stray' = stray
        /\ importer'[w].at = IF importer[w].id \in stored THEN "reload" ELSE "repair"
    BY <1>3, <1>5, <1>6, <1>10 DEF HeadReplay, AtPoint, UploadFine
  <2>2. importer[w].id \notin stored => RunGone(importer[w].id)
    BY <1>2 DEF PlanKept, RunGone
  <2> QED BY <1>1, <1>3, <2>1, <2>2 DEF HandlerFine, CallFine, RunGone
<1>11. CASE RepairPlan(w)
  <2>1. /\ importer[w].call # "upload" /\ CallFine(w) /\ attempt' = attempt /\ stray' = stray
        /\ importer'[w].at = "deadline" /\ importer[w].at = "repair"
    BY <1>3, <1>4, <1>5, <1>6, <1>11 DEF RepairPlan, AtPoint, UploadFine
  <2> QED BY <1>1, <1>3, <2>1 DEF HandlerFine, CallFine, RunGone
<1>12. CASE MeetDeadline(w)
  <2>1. /\ importer[w].call # "upload" /\ CallFine(w) /\ attempt' = attempt /\ stray' = stray
        /\ importer'[w].at \in {"reload", "remove"} /\ importer[w].at = "deadline"
    BY <1>3, <1>5, <1>6, <1>12 DEF MeetDeadline, AtPoint, UploadFine
  <2> QED BY <1>1, <1>3, <2>1 DEF HandlerFine, CallFine, RunGone
<1>13. CASE ReloadRun(w)
  <2>1. /\ importer[w].call # "upload" /\ CallFine(w) /\ attempt' = attempt /\ stray' = stray
        /\ importer'[w].at = "remove" /\ RunGone(importer[w].id)
    BY <1>3, <1>4, <1>5, <1>6, <1>13 DEF ReloadRun, AtPoint, UploadFine, RunGone
  <2> QED BY <1>1, <1>3, <2>1 DEF HandlerFine, CallFine, RunGone
<1>14. CASE LoadPlan(w) \/ Inspect(w)
  <2>1. /\ importer[w].call # "upload" /\ CallFine(w) /\ attempt' = attempt /\ stray' = stray
        /\ importer'[w].at \in {"write", "inspect"}
    BY <1>3, <1>4, <1>5, <1>6, <1>14 DEF LoadPlan, Inspect, AtPoint, UploadFine
  <2> QED BY <1>1, <1>3, <2>1 DEF HandlerFine, CallFine, RunGone
<1>15. CASE ClaimCleanup(w)
  <2>1. /\ importer[w].call # "upload" /\ CallFine(w) /\ stray' = stray
        /\ importer'[w].at = "sweep" /\ attempt.id = importer[w].id
        /\ attempt' = [attempt EXCEPT !.status = "cleaned",
                          !.abandoned = (importer[w].status # "verified")]
    BY <1>3, <1>4, <1>5, <1>6, <1>15 DEF ClaimCleanup, AtPoint, UploadFine, Still
  <2>2. attempt'.id = attempt.id /\ attempt'.status = "cleaned"
    BY <2>1, RowFields
  <2> QED BY <1>1, <1>3, <2>1, <2>2 DEF HandlerFine, CallFine, RunGone
<1>16. CASE HeadCleanup(w)
  <2>1. /\ importer[w].call # "upload" /\ CallFine(w) /\ attempt' = attempt /\ stray' = stray
        /\ importer'[w].at = "remove" /\ importer[w].at = "sweep"
    BY <1>3, <1>4, <1>5, <1>6, <1>16 DEF HeadCleanup, AtPoint, UploadFine
  <2> QED BY <1>1, <1>3, <2>1 DEF HandlerFine, CallFine, RunGone
<1>17. CASE MarkPreflighted(w) \/ CommitPlan(w) \/ MarkVerified(w) \/ RemovePlan(w) \/ Break(w)
  BY <1>4, <1>17 DEF MarkPreflighted, CommitPlan, MarkVerified, RemovePlan, Break
<1> QED BY <1>7, <1>8, <1>9, <1>10, <1>11, <1>12, <1>13, <1>14, <1>15, <1>16, <1>17 DEF CallStep

LEMMA HandlersKept ==
    ASSUME ImportInv, [ImportNext]_importVars
    PROVE  HandlersFine'
<1> USE DEF ImportInv
<1>1. SUFFICES ASSUME NEW v \in Importers, Busy(v)' PROVE HandlerFine(v)'
  BY DEF HandlersFine, HandlerFine
<1>2. CASE \E w \in Importers, s \in ImportRuns : Mint(w, s)
  <2>1. PICK w \in Importers, s \in ImportRuns : Mint(w, s)
    BY <1>2
  <2> DEFINE r == [call |-> "upload", at |-> "put", id |-> s, status |-> "uploaded"]
  <2>2. r \in ImportPlan /\ importer' = [importer EXCEPT ![w] = r]
    BY <2>1 DEF Mint, ImportPlan, ImportCalls, ImportPoints, RunStages
  <2>3. importer'[w] = r /\ \A u \in Importers : u # w => importer'[u] = importer[u]
    BY <2>2, Begins
  <2>4. /\ s \notin minted /\ minted' = minted \cup {s} /\ ~Busy(w) /\ attempt.id = NoImport
        /\ attempt' = attempt /\ stored' = stored /\ stray' = stray
    BY <2>1 DEF Mint, Busy
  <2>5. \A u \in Importers : Busy(u) => importer[u].id \in minted
    BY DEF HandlersFine, HandlerFine
  <2>6. CASE v = w
    <3>1. Unshared(v)'
      BY <2>1, <2>3, <2>4, <2>5, <2>6, ImportAssumption DEF Unshared, Busy
    <3> QED BY <2>3, <2>4, <2>6, <3>1 DEF HandlerFine, UploadFine
  <2>7. CASE v # w
    <3>1. Busy(v) /\ importer'[v] = importer[v] /\ HandlerFine(v) /\ importer[v].id # s
      BY <1>1, <2>3, <2>4, <2>5, <2>7 DEF Busy, HandlersFine
    <3>2. Unshared(v) => Unshared(v)'
      BY <2>3, <2>4, <3>1 DEF Unshared, Busy
    <3> QED BY <2>4, <3>1, <3>2 DEF HandlerFine, UploadFine, CallFine, RunGone, Busy
  <2> QED BY <2>6, <2>7
<1>3. CASE \E w \in Importers, c \in ImportCalls : Require(w, c)
  <2>1. PICK w \in Importers, c \in ImportCalls : Require(w, c)
    BY <1>3
  <2> DEFINE r == [call |-> c, at |-> StartsAt(c, attempt.status), id |-> attempt.id,
                   status |-> attempt.status]
  <2>2. /\ StartsAt(c, attempt.status) \in ImportPoints
        /\ attempt.id \in ImportRuns /\ attempt.status \in RunStages
    BY <2>1 DEF StartsAt, ImportPoints, Require, ImportTypeOK, ImportRow
  <2>3. r \in ImportPlan /\ importer' = [importer EXCEPT ![w] = r]
    BY <2>1, <2>2 DEF Require, ImportPlan
  <2>4. importer'[w] = r /\ \A u \in Importers : u # w => importer'[u] = importer[u]
    BY <2>3, Begins
  <2>5. /\ minted' = minted /\ attempt' = attempt /\ stored' = stored /\ stray' = stray
        /\ ~Busy(w) /\ attempt.id \in minted /\ ServesCall(c, attempt.status)
    BY <2>1 DEF Require, IdsMinted, Busy
  <2>6. CASE v = w
    <3>1. c # "upload" /\ StartsAt(c, attempt.status) \in {"head", "sweep", "claim", "load"}
      BY <2>5 DEF ServesCall, StartsAt
    <3>2. StartsAt(c, attempt.status) = "sweep" => attempt.status = "cleaned"
      BY DEF StartsAt
    <3>3. StartsAt(c, attempt.status) = "claim" => attempt.status \notin {"committed", "cleaned"}
      BY <2>5 DEF StartsAt, ServesCall
    <3> QED BY <2>4, <2>5, <2>6, <3>1, <3>2, <3>3 DEF HandlerFine, CallFine, RunGone
  <2>7. CASE v # w
    <3>1. Busy(v) /\ importer'[v] = importer[v] /\ HandlerFine(v)
      BY <1>1, <2>4, <2>7 DEF Busy, HandlersFine
    <3>2. Unshared(v) => Unshared(v)'
      BY <2>4, <2>5, <3>1 DEF Unshared, Busy
    <3> QED BY <2>5, <3>1, <3>2 DEF HandlerFine, UploadFine, CallFine, RunGone, Busy
  <2> QED BY <2>6, <2>7
<1>4. CASE \E w \in Importers : CallStep(w)
  <2>1. PICK w \in Importers : CallStep(w)
    BY <1>4
  <2>2. v # w => Busy(v)
    BY <1>1, <2>1, CallTypes DEF Busy
  <2> QED BY <1>1, <2>1, <2>2, OtherCalls, OwnCall
<1>5. CASE ResetTarget
  <2>1. /\ attempt'.id = NoImport /\ importer' = importer /\ stored' = stored /\ minted' = minted
        /\ stray' = stray \cup ({attempt.id} \cap ImportRuns)
    BY <1>5, RowFields DEF ResetTarget
  <2>2. Busy(v) /\ HandlerFine(v) /\ importer[v].id \in ImportRuns
    BY <1>1, <2>1 DEF HandlersFine, Busy, ImportTypeOK, ImportPlan
  <2>3. importer[v].id # NoImport
    BY <2>2, ImportAssumption
  <2>4. Unshared(v) => Unshared(v)'
    BY <2>1, <2>3 DEF Unshared, Busy
  <2>5. CallFine(v) => CallFine(v)'
    BY <2>1, <2>2, <2>3 DEF CallFine, RunGone
  <2> QED BY <2>1, <2>2, <2>3, <2>4, <2>5 DEF HandlerFine, UploadFine
<1>6. CASE Expire \/ UNCHANGED importVars
  <2>1. /\ attempt' = attempt /\ importer' = importer /\ stored' = stored /\ minted' = minted
        /\ stray' = stray
    BY <1>6 DEF Expire, importVars
  <2>2. HandlerFine(v)
    BY DEF HandlersFine
  <2> QED BY <2>1, <2>2 DEF HandlerFine, UploadFine, CallFine, RunGone, Busy, Unshared
<1> QED BY <1>2, <1>3, <1>4, <1>5, <1>6, StepCases

LEMMA MintedKept == ASSUME ImportInv, [ImportNext]_importVars PROVE IdsMinted'
<1> USE DEF ImportInv
<1>1. CASE \E w \in Importers : CallStep(w)
  <2>1. PICK w \in Importers : CallStep(w)
    BY <1>1
  <2>2. HandlerFine(w) /\ Busy(w) /\ RowStep(w) /\ minted' = minted
    BY <2>1, CallTypes, RowSteps, CallEffects DEF HandlersFine
  <2> QED BY <2>2 DEF IdsMinted, HandlerFine, RowStep, RowStays, RowAppears, RowAdvances, RowCleaned
<1>2. CASE ResetTarget
  BY <1>2, RowFields DEF ResetTarget, IdsMinted
<1>3. CASE (\E w \in Importers, s \in ImportRuns : Mint(w, s))
           \/ (\E w \in Importers, c \in ImportCalls : Require(w, c)) \/ Expire \/ UNCHANGED importVars
  BY <1>3 DEF Mint, Require, Expire, importVars, IdsMinted
<1> QED BY <1>1, <1>2, <1>3, StepCases

-----------------------------------------------------------------------------
(* The objects in the bucket *)

LEMMA PlanStays == ASSUME ImportInv, [ImportNext]_importVars PROVE PlanKept'
<1> USE DEF ImportInv
<1>1. CASE \E w \in Importers : CallStep(w)
  <2>1. PICK w \in Importers : CallStep(w)
    BY <1>1
  <2>2. HandlerFine(w) /\ Busy(w) /\ RowStep(w)
    BY <2>1, CallTypes, RowSteps DEF HandlersFine
  <2>3. SUFFICES ASSUME attempt'.id # NoImport, attempt'.status # "cleaned"
                 PROVE  attempt'.id \in stored'
    BY DEF PlanKept
  <2>4. attempt'.id \in stored
    BY <2>2, <2>3 DEF RowStep, RowStays, RowAppears, RowAdvances, RowCleaned, PlanKept,
                      HandlerFine, UploadFine, CallFine
  <2>5. CASE importer[w].at = "remove"
    <3>1. attempt' = attempt
      BY <2>1, <2>2, <2>5 DEF CallStep, RowStep, RowStays, RowAppears, RowAdvances, RowCleaned,
            RemovePlan, Break, AtPoint, PutPlan, InsertRun, SettleUpload, HeadReplay, RepairPlan,
            MeetDeadline, ReloadRun, LoadPlan, Inspect, MarkPreflighted, CommitPlan, MarkVerified,
            ClaimCleanup, HeadCleanup
    <3>2. attempt.id # importer[w].id
      BY <2>2, <2>3, <2>5, <3>1 DEF HandlerFine, UploadFine, CallFine, RunGone
    <3> QED BY <2>1, <2>4, <3>1, <3>2, CallEffects
  <2>6. CASE importer[w].at # "remove"
    BY <2>1, <2>4, <2>6, CallEffects
  <2> QED BY <2>5, <2>6
<1>2. CASE ResetTarget
  BY <1>2, RowFields DEF ResetTarget, PlanKept
<1>3. CASE (\E w \in Importers, s \in ImportRuns : Mint(w, s))
           \/ (\E w \in Importers, c \in ImportCalls : Require(w, c)) \/ Expire \/ UNCHANGED importVars
  BY <1>3 DEF Mint, Require, Expire, importVars, PlanKept
<1> QED BY <1>1, <1>2, <1>3, StepCases

(* What a call owed before its step, it still owes, or it is settled. *)
LEMMA OwnDebt ==
    ASSUME ImportInv, NEW w \in Importers, CallStep(w), NEW s \in ImportRuns, OwesObject(w, s)
    PROVE  OwesObject(w, s)' \/ Claimed(s)' \/ s \notin stored' \/ s \in stray'
<1> USE DEF ImportInv
<1>1. /\ Busy(w) /\ importer[w].id = s /\ importer[w].at \in Owing /\ HandlerFine(w)
      /\ importer[w].at = "settle" => attempt.id # s
      /\ Steady(w)
  BY CallTypes DEF OwesObject, HandlersFine
<1>2. \A p \in ImportPoints : Proceed(w, p) => Busy(w)' /\ importer'[w].at = p
                                              /\ importer'[w].id = s
  BY <1>1, Proceeds DEF Busy
<1>3. \A p \in {"settle", "remove", "reload"} : p \in ImportPoints /\ p \in Owing
  BY DEF ImportPoints, Owing
<1>4. CASE InsertRun(w)
  <2>1. CASE Accepted(importer[w].id)
    BY <1>1, <2>1, RowFields DEF Accepted, Claimed
  <2>2. CASE attempt' = attempt /\ Proceed(w, "settle")
    <3>1. attempt.id # s
      BY <1>1, <1>4 DEF InsertRun, AtPoint, HandlerFine, UploadFine, CallFine, Unshared
    <3> QED BY <1>2, <1>3, <2>2, <3>1 DEF OwesObject
  <2> QED BY <1>4, <2>1, <2>2 DEF InsertRun
<1>5. CASE SettleUpload(w)
  <2>1. Proceed(w, "remove")
    BY <1>1, <1>5 DEF SettleUpload, AtPoint
  <2> QED BY <1>2, <1>3, <2>1 DEF OwesObject
<1>6. CASE MeetDeadline(w)
  <2>1. Proceed(w, "reload") \/ Proceed(w, "remove")
    BY <1>6 DEF MeetDeadline
  <2> QED BY <1>2, <1>3, <2>1 DEF OwesObject
<1>7. CASE ReloadRun(w)
  <2>1. CallFine(w)
    BY <1>1, <1>7 DEF HandlerFine, ReloadRun, AtPoint, UploadFine
  <2>2. CASE attempt.id = s /\ attempt.status = "cleaned"
    <3>1. Proceed(w, "remove")
      BY <1>1, <1>7, <2>2 DEF ReloadRun
    <3> QED BY <1>2, <1>3, <3>1 DEF OwesObject
  <2>3. CASE ~(attempt.id = s /\ attempt.status = "cleaned")
    BY <1>1, <1>7, <2>1, <2>3 DEF ReloadRun, CallFine, Claimed
  <2> QED BY <2>2, <2>3
<1>8. CASE HeadCleanup(w)
  <2>1. CASE s \in stored
    <3>1. Proceed(w, "remove")
      BY <1>1, <1>8, <2>1 DEF HeadCleanup
    <3> QED BY <1>2, <1>3, <3>1 DEF OwesObject
  <2>2. CASE s \notin stored
    BY <1>8, <2>2 DEF HeadCleanup
  <2> QED BY <2>1, <2>2
<1>9. CASE RemovePlan(w) \/ Break(w)
  BY <1>1, <1>9 DEF RemovePlan, Break
<1>10. CASE \/ PutPlan(w) \/ HeadReplay(w) \/ RepairPlan(w) \/ LoadPlan(w) \/ Inspect(w)
            \/ MarkPreflighted(w) \/ CommitPlan(w) \/ MarkVerified(w) \/ ClaimCleanup(w)
  BY <1>1, <1>10 DEF Owing, AtPoint, PutPlan, HeadReplay, RepairPlan, LoadPlan, Inspect,
                     MarkPreflighted, CommitPlan, MarkVerified, ClaimCleanup
<1> QED BY <1>4, <1>5, <1>6, <1>7, <1>8, <1>9, <1>10 DEF CallStep

LEMMA ClaimedDebt ==
    ASSUME ImportInv, NEW w \in Importers, CallStep(w), NEW s \in ImportRuns, Claimed(s)
    PROVE  OwesObject(w, s)' \/ Claimed(s)'
<1> USE DEF ImportInv
<1>1. Busy(w) /\ RowStep(w) /\ s # NoImport
  BY CallTypes, RowSteps, ImportAssumption
<1>2. CASE ClaimCleanup(w)
  <2>1. CASE Still(w, importer[w].status)
    <3>1. Proceed(w, "sweep") /\ importer[w].id = s /\ "sweep" \in ImportPoints
      BY <1>2, <2>1 DEF ClaimCleanup, Still, Claimed, ImportPoints
    <3> QED BY <1>1, <3>1, Proceeds DEF OwesObject, Owing, Busy
  <2>2. CASE ~Still(w, importer[w].status)
    BY <1>2, <2>2 DEF ClaimCleanup, Claimed
  <2> QED BY <2>1, <2>2
<1>3. CASE ~ClaimCleanup(w)
  <2>1. ~RowCleaned(w)
    BY <1>3 DEF CallStep, RowCleaned, AtPoint, PutPlan, InsertRun, SettleUpload, HeadReplay,
          RepairPlan, MeetDeadline, ReloadRun, LoadPlan, Inspect, MarkPreflighted, CommitPlan,
          MarkVerified, HeadCleanup, RemovePlan, Break, Claimed
  <2> QED BY <1>1, <2>1 DEF RowStep, RowStays, RowAppears, RowAdvances, Claimed
<1> QED BY <1>2, <1>3

LEMMA OthersDebt ==
    ASSUME ImportInv, NEW w \in Importers, CallStep(w), NEW s \in ImportRuns,
           NEW u \in Importers, u # w, OwesObject(u, s)
    PROVE  OwesObject(u, s)' \/ Claimed(s)'
<1>1. importer'[u] = importer[u] /\ RowStep(w)
  BY CallTypes, RowSteps DEF ImportInv
<1>2. attempt.id # s => attempt'.id # s \/ Claimed(s)'
  BY <1>1 DEF RowStep, RowStays, RowAppears, RowAdvances, RowCleaned, Claimed
<1> QED BY <1>1, <1>2 DEF OwesObject, Busy

LEMMA DebtsKept == ASSUME ImportInv, [ImportNext]_importVars PROVE ObjectsOwed'
<1> USE DEF ImportInv
<1>1. SUFFICES ASSUME NEW s \in stored' \ stray'
               PROVE  Claimed(s)' \/ \E u \in Importers : OwesObject(u, s)'
  BY DEF ObjectsOwed
<1>2. s \in ImportRuns /\ s # NoImport
  BY TypesKept, ImportAssumption DEF ImportTypeOK
<1>3. CASE \E w \in Importers : CallStep(w)
  <2>1. PICK w \in Importers : CallStep(w)
    BY <1>3
  <2>2. CASE s \notin stored
    <3>1. s = importer[w].id /\ (PutPlan(w) \/ RepairPlan(w))
      BY <1>1, <2>1, <2>2, CallEffects
    <3>2. Proceed(w, "insert") \/ Proceed(w, "deadline")
      BY <1>1, <2>2, <3>1 DEF PutPlan, RepairPlan
    <3>3. OwesObject(w, s)'
      BY <2>1, <3>1, <3>2, CallTypes, Proceeds DEF OwesObject, Owing, Busy, ImportPoints
    <3> QED BY <3>3
  <2>3. CASE s \in stray
    <3>1. CASE RemovePlan(w)
      <4>1. s # importer[w].id
        BY <1>1, <3>1 DEF RemovePlan
      <4> QED BY <1>1, <2>1, <2>3, <4>1, CallEffects
    <3>2. CASE ~RemovePlan(w)
      <4>1. stray \subseteq stray'
        BY <2>1, <3>2 DEF CallStep, PutPlan, InsertRun, SettleUpload, HeadReplay, RepairPlan,
              MeetDeadline, ReloadRun, LoadPlan, Inspect, MarkPreflighted, CommitPlan,
              MarkVerified, ClaimCleanup, HeadCleanup, Break
      <4> QED BY <1>1, <2>3, <4>1
    <3> QED BY <3>1, <3>2
  <2>4. CASE s \in stored /\ s \notin stray
    <3>1. CASE Claimed(s)
      BY <1>2, <2>1, <3>1, ClaimedDebt
    <3>2. CASE OwesObject(w, s)
      BY <1>1, <1>2, <2>1, <3>2, OwnDebt
    <3>3. CASE \E u \in Importers : u # w /\ OwesObject(u, s)
      BY <1>2, <2>1, <3>3, OthersDebt
    <3> QED BY <2>4, <3>1, <3>2, <3>3 DEF ObjectsOwed
  <2> QED BY <2>2, <2>3, <2>4
<1>4. CASE ResetTarget
  <2>1. /\ attempt'.id = NoImport /\ importer' = importer /\ stored' = stored
        /\ stray' = stray \cup ({attempt.id} \cap ImportRuns)
    BY <1>4, RowFields DEF ResetTarget
  <2>2. s \in stored \ stray /\ ~Claimed(s)
    BY <1>1, <1>2, <2>1 DEF Claimed
  <2>3. PICK u \in Importers : OwesObject(u, s)
    BY <2>2 DEF ObjectsOwed
  <2>4. OwesObject(u, s)'
    BY <1>2, <2>1, <2>3 DEF OwesObject, Busy
  <2> QED BY <2>4
<1>5. CASE \/ \E w \in Importers, t \in ImportRuns : Mint(w, t)
           \/ \E w \in Importers, c \in ImportCalls : Require(w, c)
  <2>1. PICK w \in Importers :
           /\ importer[w] = Calm
           /\ \A u \in Importers : u # w => importer'[u] = importer[u]
    BY <1>5 DEF Mint, Require, ImportTypeOK
  <2>2. attempt' = attempt /\ stored' = stored /\ stray' = stray
    BY <1>5 DEF Mint, Require
  <2>3. \A u \in Importers : OwesObject(u, s) => OwesObject(u, s)'
    BY <2>1, <2>2 DEF OwesObject, Busy
  <2> QED BY <1>1, <2>2, <2>3 DEF ObjectsOwed, Claimed
<1>6. CASE Expire \/ UNCHANGED importVars
  BY <1>1, <1>6 DEF Expire, importVars, ObjectsOwed, OwesObject, Claimed, Busy
<1> QED BY <1>3, <1>4, <1>5, <1>6, StepCases

-----------------------------------------------------------------------------
(* The theorems *)

LEMMA Starts == ImportInit => ImportInv
<1> SUFFICES ASSUME ImportInit PROVE ImportInv
  OBVIOUS
<1>1. NoRunRow \in ImportRow /\ NoRunRow.id = NoImport /\ NoRunRow.status = "uploaded"
  BY DEF NoRunRow, ImportRow, RunStages
<1> QED BY <1>1 DEF ImportInit, ImportInv, ImportTypeOK, HandlersFine, HandlerFine, Busy, IdsMinted,
                    LoadedByItsRun, Wrote, PlanKept, ObjectsOwed

LEMMA Preserved == ImportInv /\ [ImportNext]_importVars => ImportInv'
<1> SUFFICES ASSUME ImportInv, [ImportNext]_importVars PROVE ImportInv'
  OBVIOUS
<1>1. ImportTypeOK' /\ HandlersFine' /\ IdsMinted'
  BY TypesKept, HandlersKept, MintedKept DEF ImportInv
<1>2. LoadedByItsRun' /\ PlanKept' /\ ObjectsOwed'
  BY LoadedKept, PlanStays, DebtsKept
<1> QED BY <1>1, <1>2 DEF ImportInv

LEMMA Reachable == ImportSpec => []ImportInv
BY Starts, Preserved, PTL DEF ImportSpec

(* The row of the run, the plans of the calls and the sets of objects have their
   shape in every reachable state (d1-import-runtime.ts).                       *)
THEOREM ImportTypes == ImportSpec => []ImportTypeOK
<1>1. ImportInv => ImportTypeOK
  BY DEF ImportInv
<1> QED BY <1>1, Reachable, PTL

(* The database holds the rows of a plan exactly when the run that wrote them says
   so, the plan of a run that can go on is never removed, and any other object is
   some call's to remove or was given up by a call that died or by a reset
   (d1-import-runtime.ts, internal/library-import).                              *)
THEOREM ImportSafe == ImportSpec => []ImportSound
<1>1. ObjectsOwed => NothingLeft
  BY DEF ObjectsOwed, NothingLeft, OwesObject, Claimed, Busy
<1>2. ImportInv => ImportSound
  BY <1>1 DEF ImportInv, ImportSound
<1> QED BY <1>2, Reachable, PTL

-----------------------------------------------------------------------------
(* The cover of a title: the inductive invariant                           *)

Distinct == \A r, q \in Changes : r # q => PictureOf[r] # PictureOf[q]

(* A change that read the version v cannot be the next one any more; one   *)
(* that is lost has no part in the cover, and with pictures that differ it *)
(* never has.                                                              *)
TooLate(v) == title # "active" \/ v < cover.ver
Lost(r) ==
    title # "active" \/ (change[r].ver < cover.ver /\ (Distinct => cover.key # PictureOf[r]))

ChangeFine(r) ==
    /\ change[r].status # "none" => change[r].ver <= cover.ver
    /\ change[r].status = "failed" => TooLate(change[r].ver)
ChangesFine == \A r \in Changes : ChangeFine(r)
Countable == IsFiniteSet(Completed) /\ ChangesCounted

(* What a handler carries: the version its command has, and a picture that *)
(* is stored unless the command comes too late.                            *)
PlanFine(p) ==
    /\ p.at = "insert" => p.ver <= cover.ver
    /\ p.at # "insert" => change[p.change].status # "none"
    /\ p.at \in {"look", "put", "commit", "refused", "judge", "fail"}
           => p.ver = change[p.change].ver
    /\ p.at = "commit" /\ Distinct => object[PictureOf[p.change]] # NoChange \/ TooLate(p.ver)
    /\ p.at = "fail" => TooLate(p.ver)
    /\ p.at \in {"fail", "clean"} /\ Unused(p) => Lost(p.change)
    /\ p.at = "delete" => Lost(p.change)
UploadersFine == \A w \in Uploaders : uploader[w] # Off => PlanFine(uploader[w])

CoverInv ==
    /\ CoverTypeOK /\ ObjectsKnown /\ Countable /\ ChangesFine /\ UploadersFine
    /\ StoredUnlessShared

-----------------------------------------------------------------------------
(* What every step leaves true *)

LEMMA PlanOf ==
    ASSUME NEW p \in UploaderPlan
    PROVE  /\ p.at \in Phases /\ p.change \in Changes /\ p.ver \in Nat
           /\ p.seen \in Images \cup {NoImage} /\ p.code \in Codes
           /\ PictureOf[p.change] \in Images
BY CoverAssumption DEF UploaderPlan

LEMMA VisitIs ==
    ASSUME NEW phase \in Phases, NEW r \in Changes, NEW v \in Nat,
           NEW seen \in Images \cup {NoImage}, NEW code \in Codes
    PROVE  /\ Visit(phase, r, v, seen, code) \in UploaderPlan
           /\ Visit(phase, r, v, seen, code).at = phase
           /\ Visit(phase, r, v, seen, code).change = r
           /\ Visit(phase, r, v, seen, code).ver = v
           /\ Visit(phase, r, v, seen, code).seen = seen
           /\ Visit(phase, r, v, seen, code).code = code
BY DEF Visit, UploaderPlan

LEMMA RowIs ==
    ASSUME NEW s \in {"none", "processing", "completed", "failed"}, NEW v \in Nat,
           NEW code \in Codes
    PROVE  /\ Row(s, v, code) \in ChangeType /\ Row(s, v, code).status = s
           /\ Row(s, v, code).ver = v
BY DEF Row, ChangeType

LEMMA CoverParts ==
    ASSUME CoverTypeOK
    PROVE  /\ cover.ver \in Nat /\ cover.key \in Images \cup {NoImage}
           /\ CurrentKey \in Images \cup {NoImage}
           /\ \A r \in Changes : change[r] \in ChangeType /\ change[r].ver \in Nat
BY DEF CoverTypeOK, ChangeType, CurrentKey

CoverOnward ==
    /\ title # "active" => title' # "active"
    /\ cover'.ver >= cover.ver
    /\ \A r \in Changes : change[r].status # "none" =>
        change'[r].status # "none" /\ change'[r].ver = change[r].ver
LostOnward == \A r \in Changes : change[r].status # "none" /\ Lost(r) => Lost(r)'
StoredOnward ==
    \A r \in Changes : /\ Distinct /\ change[r].status # "none"
                       /\ object[PictureOf[r]] # NoChange \/ TooLate(change[r].ver)
                       => object'[PictureOf[r]] # NoChange \/ TooLate(change[r].ver)'

LEMMA TooLateStays ==
    ASSUME CoverTypeOK, CoverTypeOK', CoverOnward, NEW v \in Nat, TooLate(v)
    PROVE  TooLate(v)'
<1>1. cover.ver \in Nat /\ cover'.ver \in Nat
  BY DEF CoverTypeOK
<1> QED BY <1>1 DEF CoverOnward, TooLate

LEMMA CarriedKept ==
    ASSUME CoverInv, CoverTypeOK', CoverOnward, LostOnward, StoredOnward,
           NEW p \in UploaderPlan, PlanFine(p)
    PROVE  PlanFine(p)'
<1>0. CoverTypeOK
  BY DEF CoverInv
<1>1. p.change \in Changes /\ p.ver \in Nat
  BY PlanOf
<1>2. cover.ver \in Nat /\ cover'.ver \in Nat
  BY <1>0 DEF CoverTypeOK
<1>3. p.at = "insert" => p.ver <= cover'.ver
  BY <1>1, <1>2 DEF PlanFine, CoverOnward
<1>4. p.at # "insert" => change'[p.change].status # "none"
  BY <1>1 DEF PlanFine, CoverOnward
<1>5. p.at \in {"look", "put", "commit", "refused", "judge", "fail"}
        => p.ver = change'[p.change].ver
  BY <1>1 DEF PlanFine, CoverOnward
<1>6. p.at = "commit" /\ Distinct => object'[PictureOf[p.change]] # NoChange \/ TooLate(p.ver)'
  <2> SUFFICES ASSUME p.at = "commit", Distinct
               PROVE  object'[PictureOf[p.change]] # NoChange \/ TooLate(p.ver)'
    OBVIOUS
  <2>1. /\ change[p.change].status # "none" /\ p.ver = change[p.change].ver
        /\ object[PictureOf[p.change]] # NoChange \/ TooLate(p.ver)
    BY DEF PlanFine
  <2>2. PICK r \in Changes : r = p.change
    BY <1>1
  <2>3. CASE object[PictureOf[r]] # NoChange
    <3>1. object'[PictureOf[r]] # NoChange \/ TooLate(change[r].ver)'
      BY <2>1, <2>2, <2>3 DEF StoredOnward
    <3>2. change'[r].ver = p.ver
      BY <2>1, <2>2 DEF CoverOnward
    <3> QED BY <2>2, <3>1, <3>2 DEF TooLate
  <2>4. CASE TooLate(p.ver)
    BY <1>0, <1>1, <2>4, TooLateStays
  <2> QED BY <2>1, <2>2, <2>3, <2>4
<1>7. p.at = "fail" => TooLate(p.ver)'
  BY <1>0, <1>1, TooLateStays DEF PlanFine
<1>8. /\ p.at \in {"fail", "clean"} /\ Unused(p) => Lost(p.change)'
      /\ p.at = "delete" => Lost(p.change)'
  <2> SUFFICES ASSUME Lost(p.change), p.at # "insert" PROVE Lost(p.change)'
    BY DEF PlanFine
  <2>1. PICK r \in Changes : r = p.change
    BY <1>1
  <2> QED BY <2>1 DEF PlanFine, LostOnward
<1> QED BY <1>3, <1>4, <1>5, <1>6, <1>7, <1>8 DEF PlanFine, Unused

LEMMA UploadersKept ==
    ASSUME CoverInv, CoverTypeOK', CoverOnward, LostOnward, StoredOnward, NEW w \in Uploaders,
           NEW q \in UploaderPlan \cup {Off}, uploader' = [uploader EXCEPT ![w] = q],
           q # Off => PlanFine(q)'
    PROVE  UploadersFine'
<1>1. uploader \in [Uploaders -> UploaderPlan \cup {Off}]
  BY DEF CoverInv, CoverTypeOK
<1> SUFFICES ASSUME NEW x \in Uploaders, uploader'[x] # Off PROVE PlanFine(uploader[x])'
  BY DEF UploadersFine
<1>2. CASE x = w
  BY <1>1, <1>2
<1>3. CASE x # w
  <2>1. uploader'[x] = uploader[x]
    BY <1>1, <1>3
  <2>2. PICK p \in UploaderPlan : p = uploader[x]
    BY <1>1, <2>1
  <2>3. PlanFine(p)
    BY <2>1, <2>2 DEF CoverInv, UploadersFine
  <2>4. PlanFine(p)'
    BY <2>3, CarriedKept
  <2> QED BY <2>1, <2>2, <2>4
<1> QED BY <1>2, <1>3

(* A step that only moves a handler on. *)
LEMMA OnlyMoves ==
    ASSUME CoverInv, UNCHANGED <<title, cover, object, change>>, NEW w \in Uploaders,
           NEW q \in UploaderPlan \cup {Off}, uploader' = [uploader EXCEPT ![w] = q],
           q # Off => PlanFine(q)
    PROVE  CoverInv'
<1>1. CoverTypeOK'
  BY DEF CoverInv, CoverTypeOK
<1>2. CoverOnward /\ LostOnward /\ StoredOnward
  BY <1>1 DEF CoverOnward, LostOnward, StoredOnward, Lost, TooLate, CoverTypeOK
<1>3. q # Off => PlanFine(q)'
  BY DEF PlanFine, TooLate, Lost, Unused
<1>4. UploadersFine'
  BY <1>1, <1>2, <1>3, UploadersKept
<1>5. ObjectsKnown' /\ ChangesFine' /\ StoredUnlessShared'
  BY DEF CoverInv, ObjectsKnown, ChangesFine, ChangeFine, TooLate, StoredUnlessShared,
         CurrentStored
<1>6. Countable'
  <2>1. Completed' = Completed
    BY DEF Completed
  <2> QED BY <2>1 DEF CoverInv, Countable, ChangesCounted
<1> QED BY <1>1, <1>4, <1>5, <1>6 DEF CoverInv

LEMMA CoverStart == CoverInit => CoverInv
<1> SUFFICES ASSUME CoverInit PROVE CoverInv
  OBVIOUS
<1>1. CoverTypeOK
  BY DEF CoverInit, CoverTypeOK, ChangeType, Codes
<1>2. Completed = {}
  BY DEF CoverInit, Completed
<1>3. Countable
  <2>1. cover.ver = 0 /\ Cardinality(Completed) = 0 /\ IsFiniteSet(Completed)
    BY <1>2, FS_EmptySet DEF CoverInit
  <2>2. {change[r].ver : r \in Completed} = 0..(cover.ver - 1)
    BY <1>2, <2>1
  <2> QED BY <1>2, <2>1, <2>2 DEF Countable, ChangesCounted
<1>4. ObjectsKnown /\ ChangesFine /\ UploadersFine /\ StoredUnlessShared
  BY CoverAssumption DEF CoverInit, ObjectsKnown, ChangesFine, ChangeFine, UploadersFine,
     StoredUnlessShared, CurrentStored
<1> QED BY <1>1, <1>3, <1>4 DEF CoverInv

-----------------------------------------------------------------------------
(* The handlers                                                            *)

LEMMA ReachedPlan ==
    ASSUME CoverInv, NEW w \in Uploaders, NEW phase, Reached(w, phase)
    PROVE  uploader[w] \in UploaderPlan /\ uploader[w].at = phase /\ PlanFine(uploader[w])
BY DEF CoverInv, CoverTypeOK, UploadersFine, Reached

LEMMA MovesOn ==
    ASSUME NEW w \in Uploaders, uploader[w] \in UploaderPlan, NEW phase \in Phases, GoesOn(w, phase)
    PROVE  \E q \in UploaderPlan :
              /\ uploader' = [uploader EXCEPT ![w] = q] /\ q.at = phase
              /\ q.change = uploader[w].change /\ q.ver = uploader[w].ver
              /\ q.seen = uploader[w].seen
<1>1. PICK p \in UploaderPlan : p = uploader[w]
  OBVIOUS
<1> DEFINE q == Visit(phase, p.change, p.ver, p.seen, p.code)
<1>2. uploader' = [uploader EXCEPT ![w] = q]
  BY <1>1 DEF GoesOn
<1>3. /\ q \in UploaderPlan /\ q.at = phase
      /\ q.change = p.change /\ q.ver = p.ver /\ q.seen = p.seen
  BY PlanOf DEF Visit, UploaderPlan
<1> HIDE DEF q
<1> QED BY <1>1, <1>2, <1>3

LEMMA TakeKeeps ==
    ASSUME CoverInv, NEW w \in Uploaders, NEW r \in Changes, Take(w, r) PROVE CoverInv'
<1>0. /\ cover.ver \in Nat /\ change[r].ver \in Nat /\ CurrentKey \in Images \cup {NoImage}
      /\ UNCHANGED <<title, cover, object, change>>
  BY CoverParts DEF CoverInv, Take
<1>1. CASE change[r].status = "none" /\ uploader' =
               [uploader EXCEPT ![w] = Visit("insert", r, cover.ver, NoImage, "none")]
  <2> DEFINE q == Visit("insert", r, cover.ver, NoImage, "none")
  <2>1. q \in UploaderPlan /\ q.at = "insert" /\ q.ver = cover.ver
    BY <1>0, VisitIs DEF Phases, Codes
  <2> HIDE DEF q
  <2>2. PlanFine(q)
    BY <1>0, <2>1 DEF PlanFine
  <2> QED BY <1>0, <1>1, <2>1, <2>2, OnlyMoves DEF q
<1>2. CASE change[r].status = "processing" /\ uploader' =
               [uploader EXCEPT ![w] = Visit("look", r, change[r].ver, NoImage, "none")]
  <2> DEFINE q == Visit("look", r, change[r].ver, NoImage, "none")
  <2>1. q \in UploaderPlan /\ q.at = "look" /\ q.ver = change[r].ver /\ q.change = r
    BY <1>0, VisitIs DEF Phases, Codes
  <2> HIDE DEF q
  <2>2. PlanFine(q)
    BY <1>2, <2>1 DEF PlanFine
  <2> QED BY <1>0, <1>2, <2>1, <2>2, OnlyMoves DEF q
<1>3. CASE change[r].status = "failed" /\ uploader' =
               [uploader EXCEPT ![w] = Visit("clean", r, 0, CurrentKey, "none")]
  <2> DEFINE q == Visit("clean", r, 0, CurrentKey, "none")
  <2>1. q \in UploaderPlan /\ q.at = "clean" /\ q.change = r /\ q.seen = CurrentKey
    BY <1>0, VisitIs DEF Phases, Codes
  <2> HIDE DEF q
  <2>2. Unused(q) => Lost(r)
    BY <1>3, <2>1 DEF Unused, Lost, CurrentKey, CoverInv, ChangesFine, ChangeFine, TooLate
  <2>3. PlanFine(q)
    BY <1>3, <2>1, <2>2 DEF PlanFine
  <2> QED BY <1>0, <1>3, <2>1, <2>3, OnlyMoves DEF q
<1> QED BY <1>1, <1>2, <1>3 DEF Take

LEMMA LookKeeps ==
    ASSUME CoverInv, NEW w \in Uploaders, Look(w) PROVE CoverInv'
<1>1. uploader[w] \in UploaderPlan /\ uploader[w].at = "look" /\ PlanFine(uploader[w])
  BY ReachedPlan DEF Look
<1>2. PICK phase \in {"put", "commit"} :
          GoesOn(w, phase) /\ (phase = "commit" => object[Image(w)] # NoChange)
  BY DEF Look
<1>3. PICK q \in UploaderPlan : /\ uploader' = [uploader EXCEPT ![w] = q] /\ q.at = phase
                                /\ q.change = uploader[w].change /\ q.ver = uploader[w].ver
                                /\ q.seen = uploader[w].seen
  BY <1>1, <1>2, MovesOn DEF Phases
<1>4. PlanFine(q)
  BY <1>1, <1>2, <1>3 DEF PlanFine, Image
<1> QED BY <1>3, <1>4, OnlyMoves DEF Look

LEMMA RefuseKeeps ==
    ASSUME CoverInv, NEW w \in Uploaders, Refuse(w) \/ ReadChange(w) PROVE CoverInv'
<1>1. PICK from \in {"commit", "refused"}, phase \in {"refused", "judge"} :
          Reached(w, from) /\ GoesOn(w, phase) /\ UNCHANGED <<title, cover, object, change>>
  BY DEF Refuse, ReadChange
<1>2. uploader[w] \in UploaderPlan /\ uploader[w].at = from /\ PlanFine(uploader[w])
  BY <1>1, ReachedPlan
<1>3. PICK q \in UploaderPlan : /\ uploader' = [uploader EXCEPT ![w] = q] /\ q.at = phase
                                /\ q.change = uploader[w].change /\ q.ver = uploader[w].ver
                                /\ q.seen = uploader[w].seen
  BY <1>1, <1>2, MovesOn DEF Phases
<1>4. PlanFine(q)
  BY <1>1, <1>2, <1>3 DEF PlanFine
<1> QED BY <1>1, <1>3, <1>4, OnlyMoves

LEMMA JudgeKeeps ==
    ASSUME CoverInv, NEW w \in Uploaders, Judge(w) PROVE CoverInv'
<1>0. /\ cover.ver \in Nat /\ CurrentKey \in Images \cup {NoImage}
      /\ UNCHANGED <<title, cover, object, change>>
  BY CoverParts DEF CoverInv, Judge
<1>1. PICK p \in UploaderPlan : p = uploader[w] /\ p.at = "judge" /\ PlanFine(p)
  BY ReachedPlan DEF Judge
<1>2. p.change \in Changes /\ p.ver \in Nat /\ Verdict(p) \in Codes
  BY <1>1, PlanOf DEF Verdict, Codes
<1> DEFINE q == Visit("fail", p.change, p.ver, CurrentKey, Verdict(p))
<1>3. /\ q \in UploaderPlan /\ q.at = "fail" /\ q.change = p.change /\ q.ver = p.ver
      /\ q.seen = CurrentKey
  BY <1>0, <1>2 DEF Visit, UploaderPlan, Phases
<1>4. uploader' = [uploader EXCEPT ![w] = q]
  BY <1>1 DEF Judge
<1>5. title \in {"active", "archived", "literature"}
  BY DEF CoverInv, CoverTypeOK
<1> HIDE DEF q
<1>6. p.ver <= cover.ver /\ p.ver = change[p.change].ver /\ change[p.change].status # "none"
  BY <1>1, <1>2 DEF PlanFine, CoverInv, ChangesFine, ChangeFine
<1>7. TooLate(p.ver)
  BY <1>0, <1>1, <1>2, <1>5, <1>6 DEF Judge, Verdict, TooLate
<1>8. Unused(q) => Lost(p.change)
  BY <1>3, <1>6, <1>7 DEF Unused, Lost, CurrentKey, TooLate
<1>9. PlanFine(q)
  BY <1>3, <1>6, <1>7, <1>8 DEF PlanFine
<1> QED BY <1>0, <1>3, <1>4, <1>9, OnlyMoves

LEMMA CleanKeeps ==
    ASSUME CoverInv, NEW w \in Uploaders, Clean(w) PROVE CoverInv'
<1>1. PICK p \in UploaderPlan : p = uploader[w] /\ p.at = "clean" /\ PlanFine(p) /\ Unused(p)
  BY ReachedPlan DEF Clean
<1> DEFINE q == Visit("delete", p.change, 0, NoImage, "none")
<1>2. q \in UploaderPlan /\ q.at = "delete" /\ q.change = p.change
  BY <1>1, PlanOf DEF Visit, UploaderPlan, Phases, Codes
<1>3. uploader' = [uploader EXCEPT ![w] = q] /\ UNCHANGED <<title, cover, object, change>>
  BY <1>1 DEF Clean
<1> HIDE DEF q
<1>4. PlanFine(q)
  BY <1>1, <1>2 DEF PlanFine
<1> QED BY <1>2, <1>3, <1>4, OnlyMoves

LEMMA LeaveKeeps ==
    ASSUME CoverInv, NEW w \in Uploaders, Leave(w) PROVE CoverInv'
BY OnlyMoves DEF Leave, Ends

LEMMA RowWritten ==
    ASSUME CoverTypeOK, NEW r \in Changes, NEW c \in ChangeType,
           change' = [change EXCEPT ![r] = c]
    PROVE  /\ change' \in [Changes -> ChangeType] /\ change'[r] = c
           /\ \A q \in Changes \ {r} : change'[q] = change[q]
BY DEF CoverTypeOK

LEMMA CountStays ==
    ASSUME CoverInv, cover' = cover, Completed' = Completed,
           \A r \in Completed : change'[r].ver = change[r].ver
    PROVE  Countable'
<1>1. Countable
  BY DEF CoverInv
<1> DEFINE vers == {change'[r].ver : r \in Completed'}
<1>2. vers = {change[r].ver : r \in Completed}
  OBVIOUS
<1>3. vers = 0..(cover'.ver - 1)
  <2> HIDE DEF vers
  <2> QED BY <1>1, <1>2 DEF Countable, ChangesCounted
<1>4. \A r \in Completed' : change'[r].ver + 1 = cover'.ver => cover'.key = PictureOf[r]
  BY <1>1 DEF Countable, ChangesCounted
<1> QED BY <1>1, <1>3, <1>4 DEF Countable, ChangesCounted

LEMMA InsertKeeps ==
    ASSUME CoverInv, NEW w \in Uploaders, Insert(w) PROVE CoverInv'
<1>0. CoverTypeOK
  BY DEF CoverInv
<1>1. PICK p \in UploaderPlan : p = uploader[w] /\ p.at = "insert" /\ PlanFine(p)
  BY ReachedPlan DEF Insert
<1>2. PICK r \in Changes : r = p.change /\ change[r].status = "none"
  BY <1>1, PlanOf DEF Insert
<1>3. p.ver \in Nat /\ p.ver <= cover.ver /\ cover.ver \in Nat
  BY <1>0, <1>1, PlanOf, CoverParts DEF PlanFine
<1> DEFINE c == Row("processing", p.ver, "none")
<1>4. c \in ChangeType /\ c.status = "processing" /\ c.ver = p.ver
  BY <1>3, RowIs DEF Codes
<1>5. change' = [change EXCEPT ![r] = c] /\ GoesOn(w, "look") /\ UNCHANGED <<title, cover, object>>
  BY <1>1, <1>2 DEF Insert
<1> HIDE DEF c
<1>6. /\ change' \in [Changes -> ChangeType] /\ change'[r] = c
      /\ \A q \in Changes \ {r} : change'[q] = change[q]
  BY <1>0, <1>4, <1>5, RowWritten
<1>7. PICK q \in UploaderPlan : /\ uploader' = [uploader EXCEPT ![w] = q] /\ q.at = "look"
                                /\ q.change = r /\ q.ver = p.ver
  BY <1>1, <1>2, <1>5, MovesOn DEF Phases
<1>8. CoverTypeOK'
  BY <1>0, <1>5, <1>6, <1>7 DEF CoverTypeOK
<1>9. CoverOnward
  BY <1>2, <1>3, <1>5, <1>6 DEF CoverOnward
<1>10. LostOnward /\ StoredOnward
  <2>1. \A s \in Changes : change[s].status # "none" => change'[s] = change[s]
    BY <1>2, <1>6
  <2> QED BY <1>5, <2>1 DEF LostOnward, StoredOnward, Lost, TooLate
<1>11. PlanFine(q)'
  BY <1>4, <1>6, <1>7 DEF PlanFine
<1>12. UploadersFine'
  BY <1>7, <1>8, <1>9, <1>10, <1>11, UploadersKept
<1>13. ObjectsKnown'
  BY <1>0, <1>5, <1>9 DEF CoverInv, ObjectsKnown, CoverOnward, CoverTypeOK
<1>14. ChangesFine'
  BY <1>3, <1>4, <1>5, <1>6 DEF CoverInv, ChangesFine, ChangeFine, TooLate
<1>15. StoredUnlessShared'
  BY <1>5 DEF CoverInv, StoredUnlessShared, CurrentStored
<1>16. Countable'
  <2>1. Completed' = Completed
    BY <1>2, <1>4, <1>6 DEF Completed
  <2>2. \A s \in Completed : change'[s].ver = change[s].ver
    BY <1>2, <1>6 DEF Completed
  <2> QED BY <1>5, <2>1, <2>2, CountStays
<1> QED BY <1>8, <1>12, <1>13, <1>14, <1>15, <1>16 DEF CoverInv

LEMMA FailKeeps ==
    ASSUME CoverInv, NEW w \in Uploaders, Fail(w) PROVE CoverInv'
<1>0. CoverTypeOK
  BY DEF CoverInv
<1>1. PICK p \in UploaderPlan : p = uploader[w] /\ p.at = "fail" /\ PlanFine(p)
  BY ReachedPlan DEF Fail
<1>2. PICK r \in Changes : r = p.change
  BY <1>1, PlanOf
<1>3. /\ change[r].status # "none" /\ TooLate(change[r].ver) /\ change[r].ver \in Nat
      /\ change[r].ver <= cover.ver /\ cover.ver \in Nat /\ p.code \in Codes
      /\ p.seen \in Images \cup {NoImage} /\ (Unused(p) => Lost(r))
  BY <1>0, <1>1, <1>2, PlanOf, CoverParts DEF PlanFine, CoverInv, ChangesFine, ChangeFine
<1> DEFINE q == Visit("clean", r, 0, p.seen, "none")
<1>4. q \in UploaderPlan /\ q.at = "clean" /\ q.change = r /\ q.seen = p.seen
  BY <1>3 DEF Visit, UploaderPlan, Phases, Codes
<1>5. uploader' = [uploader EXCEPT ![w] = q] /\ UNCHANGED <<title, cover, object>>
  BY <1>1, <1>2 DEF Fail
<1> HIDE DEF q
<1>6. /\ Unused(q) => Lost(r)
      /\ PlanFine(q)
  BY <1>2, <1>3, <1>4 DEF PlanFine, Unused
<1>7. CASE UNCHANGED change
  BY <1>4, <1>5, <1>6, <1>7, OnlyMoves
<1>8. CASE change' # change
  <2> DEFINE c == Row("failed", change[r].ver, p.code)
  <2>1. change[r].status = "processing" /\ change' = [change EXCEPT ![r] = c]
    BY <1>0, <1>1, <1>2, <1>8 DEF Fail, CoverTypeOK
  <2>2. c \in ChangeType /\ c.status = "failed" /\ c.ver = change[r].ver
    BY <1>3, RowIs
  <2> HIDE DEF c
  <2>3. /\ change' \in [Changes -> ChangeType] /\ change'[r] = c
        /\ \A s \in Changes \ {r} : change'[s] = change[s]
    BY <1>0, <2>1, <2>2, RowWritten
  <2>4. CoverTypeOK'
    BY <1>0, <1>4, <1>5, <2>3 DEF CoverTypeOK
  <2>5. \A s \in Changes : /\ change'[s].ver = change[s].ver
                           /\ change'[s].status = "none" <=> change[s].status = "none"
    BY <1>3, <2>2, <2>3
  <2>6. CoverOnward /\ LostOnward /\ StoredOnward
    BY <1>3, <1>5, <2>5 DEF CoverOnward, LostOnward, StoredOnward, Lost, TooLate
  <2>7. PlanFine(q)'
    <3>1. Unused(q) => Lost(r)'
      BY <1>5, <1>6, <2>5 DEF Lost
    <3> QED BY <1>3, <1>4, <2>5, <3>1 DEF PlanFine, Unused
  <2>8. UploadersFine'
    BY <1>4, <1>5, <2>4, <2>6, <2>7, UploadersKept
  <2>9. ObjectsKnown'
    BY <1>0, <1>5, <2>6 DEF CoverInv, ObjectsKnown, CoverOnward, CoverTypeOK
  <2>10. ChangesFine'
    BY <1>3, <1>5, <2>2, <2>3 DEF CoverInv, ChangesFine, ChangeFine, TooLate
  <2>11. StoredUnlessShared'
    BY <1>5 DEF CoverInv, StoredUnlessShared, CurrentStored
  <2>12. Countable'
    <3>1. Completed' = Completed
      BY <2>1, <2>2, <2>3 DEF Completed
    <3>2. \A s \in Completed : change'[s].ver = change[s].ver
      BY <2>5 DEF Completed
    <3> QED BY <1>5, <3>1, <3>2, CountStays
  <2> QED BY <2>4, <2>8, <2>9, <2>10, <2>11, <2>12 DEF CoverInv
<1> QED BY <1>7, <1>8

LEMMA ObjectWritten ==
    ASSUME CoverTypeOK, NEW g \in Images, NEW r \in Changes \cup {NoChange},
           object' = [object EXCEPT ![g] = r]
    PROVE  /\ object' \in [Images -> Changes \cup {NoChange}] /\ object'[g] = r
           /\ \A h \in Images \ {g} : object'[h] = object[h]
BY DEF CoverTypeOK

LEMMA PutKeeps ==
    ASSUME CoverInv, NEW w \in Uploaders, Put(w) PROVE CoverInv'
<1>0. CoverTypeOK
  BY DEF CoverInv
<1>1. PICK p \in UploaderPlan : p = uploader[w] /\ p.at = "put" /\ PlanFine(p)
  BY ReachedPlan DEF Put
<1>2. PICK r \in Changes : r = p.change /\ change[r].status # "none"
  BY <1>1, PlanOf DEF PlanFine
<1>3. PICK g \in Images : g = PictureOf[r]
  BY CoverAssumption
<1>4. /\ object' = [object EXCEPT ![g] = r] /\ GoesOn(w, "commit")
      /\ UNCHANGED <<title, cover, change>>
  BY <1>1, <1>2, <1>3 DEF Put, Image
<1>5. /\ object' \in [Images -> Changes \cup {NoChange}] /\ object'[g] = r
      /\ \A h \in Images \ {g} : object'[h] = object[h]
  BY <1>0, <1>4, ObjectWritten
<1>6. PICK q \in UploaderPlan : /\ uploader' = [uploader EXCEPT ![w] = q] /\ q.at = "commit"
                                /\ q.change = r /\ q.ver = p.ver
  BY <1>1, <1>2, <1>4, MovesOn DEF Phases
<1>7. CoverTypeOK'
  BY <1>0, <1>4, <1>5, <1>6 DEF CoverTypeOK
<1>8. \A h \in Images : object[h] # NoChange => object'[h] # NoChange
  BY <1>5, CoverAssumption
<1>9. CoverOnward /\ LostOnward
  BY <1>0, <1>4 DEF CoverTypeOK, CoverOnward, LostOnward, Lost
<1>10. StoredOnward
  BY <1>4, <1>8, CoverAssumption DEF StoredOnward, TooLate
<1>11. PlanFine(q)'
  BY <1>1, <1>2, <1>3, <1>4, <1>5, <1>6, CoverAssumption DEF PlanFine
<1>12. UploadersFine'
  BY <1>6, <1>7, <1>9, <1>10, <1>11, UploadersKept
<1>13. ObjectsKnown'
  BY <1>2, <1>3, <1>4, <1>5 DEF CoverInv, ObjectsKnown
<1>14. ChangesFine'
  BY <1>4 DEF CoverInv, ChangesFine, ChangeFine, TooLate
<1>15. StoredUnlessShared'
  BY <1>0, <1>4, <1>8 DEF CoverInv, StoredUnlessShared, CurrentStored, CoverTypeOK
<1>16. Countable'
  BY <1>4, CountStays DEF Completed
<1> QED BY <1>7, <1>12, <1>13, <1>14, <1>15, <1>16 DEF CoverInv

LEMMA DeleteKeeps ==
    ASSUME CoverInv, NEW w \in Uploaders, Delete(w) PROVE CoverInv'
<1>0. CoverTypeOK
  BY DEF CoverInv
<1>1. PICK p \in UploaderPlan : p = uploader[w] /\ p.at = "delete" /\ PlanFine(p)
  BY ReachedPlan DEF Delete
<1>2. PICK r \in Changes : r = p.change /\ Lost(r)
  BY <1>1, PlanOf DEF PlanFine
<1>3. PICK g \in Images : g = PictureOf[r]
  BY CoverAssumption
<1>4. /\ object' = [object EXCEPT ![g] = NoChange] /\ uploader' = [uploader EXCEPT ![w] = Off]
      /\ UNCHANGED <<title, cover, change>>
  BY <1>1, <1>2, <1>3 DEF Delete, Image, Ends
<1>5. /\ object' \in [Images -> Changes \cup {NoChange}] /\ object'[g] = NoChange
      /\ \A h \in Images \ {g} : object'[h] = object[h]
  BY <1>0, <1>4, ObjectWritten
<1>6. CoverTypeOK'
  BY <1>0, <1>4, <1>5 DEF CoverTypeOK
<1>7. CoverOnward /\ LostOnward
  BY <1>0, <1>4 DEF CoverTypeOK, CoverOnward, LostOnward, Lost
<1>8. StoredOnward
  <2> SUFFICES ASSUME NEW s \in Changes, Distinct,
                      object[PictureOf[s]] # NoChange \/ TooLate(change[s].ver)
               PROVE  object'[PictureOf[s]] # NoChange \/ TooLate(change[s].ver)'
    BY DEF StoredOnward
  <2>1. CASE TooLate(change[s].ver)
    BY <1>4, <2>1 DEF TooLate
  <2>2. CASE object[PictureOf[s]] # NoChange /\ s = r
    BY <1>2, <1>4, <2>2 DEF Lost, TooLate
  <2>3. CASE object[PictureOf[s]] # NoChange /\ s # r
    <3>1. PictureOf[s] \in Images \ {g}
      BY <1>3, <2>3, CoverAssumption DEF Distinct
    <3> QED BY <1>5, <2>3, <3>1
  <2> QED BY <2>1, <2>2, <2>3
<1>9. UploadersFine'
  BY <1>4, <1>6, <1>7, <1>8, UploadersKept
<1>10. ObjectsKnown'
  BY <1>4, <1>5 DEF CoverInv, ObjectsKnown
<1>11. ChangesFine'
  BY <1>4 DEF CoverInv, ChangesFine, ChangeFine, TooLate
<1>12. StoredUnlessShared'
  <2> SUFFICES ASSUME Distinct, title = "active", cover.key # NoImage
               PROVE  object'[cover.key] # NoChange
    BY <1>4 DEF StoredUnlessShared, CurrentStored, Distinct
  <2>1. object[cover.key] # NoChange
    BY DEF CoverInv, StoredUnlessShared, CurrentStored, Distinct
  <2>2. cover.key \in Images \ {g}
    BY <1>0, <1>2, <1>3, CoverParts DEF Lost
  <2> QED BY <1>5, <2>1, <2>2
<1>13. Countable'
  BY <1>4, CountStays DEF Completed
<1> QED BY <1>6, <1>9, <1>10, <1>11, <1>12, <1>13 DEF CoverInv

LEMMA CommitKeeps ==
    ASSUME CoverInv, NEW w \in Uploaders, Commit(w) PROVE CoverInv'
<1>0. CoverTypeOK
  BY DEF CoverInv
<1>1. PICK p \in UploaderPlan : p = uploader[w] /\ p.at = "commit" /\ PlanFine(p)
  BY ReachedPlan DEF Commit
<1>2. PICK r \in Changes : r = p.change /\ change[r].status = "processing"
  BY <1>1, PlanOf DEF Commit
<1>3. PICK g \in Images : g = PictureOf[r]
  BY CoverAssumption
<1>4. PICK v \in Nat : v = cover.ver /\ v = change[r].ver
  BY <1>0, <1>1, <1>2, CoverParts DEF Commit, SameCover, PlanFine
<1> DEFINE c == Row("completed", v, "none")
<1>5. c \in ChangeType /\ c.status = "completed" /\ c.ver = v
  BY RowIs DEF Codes
<1>6. /\ title = "active" /\ p.ver = v
      /\ cover' = [key |-> g, ver |-> v + 1] /\ change' = [change EXCEPT ![r] = c]
      /\ uploader' = [uploader EXCEPT ![w] = Off] /\ UNCHANGED <<title, object>>
  BY <1>1, <1>2, <1>3, <1>4 DEF Commit, Image, Ends, SameCover
<1> HIDE DEF c
<1>7. /\ change' \in [Changes -> ChangeType] /\ change'[r] = c
      /\ \A s \in Changes \ {r} : change'[s] = change[s]
  BY <1>0, <1>5, <1>6, RowWritten
<1>8. cover' \in [key : Images \cup {NoImage}, ver : Nat] /\ cover'.ver = v + 1 /\ cover'.key = g
  BY <1>6
<1>9. CoverTypeOK'
  BY <1>0, <1>6, <1>7, <1>8 DEF CoverTypeOK
<1>10. /\ \A s \in Changes : change'[s].ver = change[s].ver
       /\ \A s \in Changes : change[s].status # "none" => change'[s].status # "none"
  BY <1>4, <1>5, <1>7
<1>11. CoverOnward
  BY <1>4, <1>6, <1>8, <1>10 DEF CoverOnward
<1>12. LostOnward
  <2> SUFFICES ASSUME NEW s \in Changes, Lost(s) PROVE Lost(s)'
    BY DEF LostOnward
  <2>1. change[s].ver < v /\ s # r /\ change[s].ver \in Nat
    BY <1>0, <1>4, <1>6, CoverParts DEF Lost
  <2>2. Distinct => g # PictureOf[s]
    BY <1>3, <2>1 DEF Distinct
  <2> QED BY <1>8, <1>10, <2>1, <2>2 DEF Lost
<1>13. StoredOnward
  <2> SUFFICES ASSUME NEW s \in Changes, TooLate(change[s].ver) PROVE TooLate(change[s].ver)'
    BY <1>6 DEF StoredOnward
  <2>1. change[s].ver \in Nat
    BY <1>0, CoverParts
  <2> QED BY <1>4, <1>6, <1>8, <1>10, <2>1 DEF TooLate
<1>14. UploadersFine'
  BY <1>6, <1>9, <1>11, <1>12, <1>13, UploadersKept
<1>15. ObjectsKnown'
  BY <1>0, <1>6, <1>10 DEF CoverInv, ObjectsKnown, CoverTypeOK
<1>16. ChangesFine'
  <2> SUFFICES ASSUME NEW s \in Changes PROVE ChangeFine(s)'
    BY DEF ChangesFine
  <2>1. ChangeFine(s) /\ change[s].ver \in Nat
    BY <1>0, CoverParts DEF CoverInv, ChangesFine
  <2>2. CASE s = r
    BY <1>4, <1>5, <1>7, <1>8, <2>2 DEF ChangeFine
  <2>3. CASE s # r
    BY <1>4, <1>6, <1>7, <1>8, <2>1, <2>3 DEF ChangeFine, TooLate
  <2> QED BY <2>2, <2>3
<1>17. StoredUnlessShared'
  <2> SUFFICES ASSUME Distinct PROVE object'[g] # NoChange
    BY <1>8 DEF StoredUnlessShared, CurrentStored, Distinct
  <2>1. ~TooLate(p.ver)
    BY <1>4, <1>6 DEF TooLate
  <2> QED BY <1>1, <1>2, <1>3, <1>6, <2>1 DEF PlanFine
<1>18. Countable'
  <2>1. r \in Changes \ Completed /\ Completed' = Completed \cup {r}
    BY <1>2, <1>5, <1>7 DEF Completed
  <2>2. /\ IsFiniteSet(Completed) /\ v = Cardinality(Completed)
        /\ {change[s].ver : s \in Completed} = 0..(v - 1)
    BY <1>4 DEF CoverInv, Countable, ChangesCounted
  <2>3. IsFiniteSet(Completed') /\ Cardinality(Completed') = v + 1
    BY <2>1, <2>2, FS_AddElement
  <2>4. \A s \in Completed : change'[s].ver = change[s].ver /\ change[s].ver \in 0..(v - 1)
    BY <1>10, <2>2 DEF Completed
  <2>5. change'[r].ver = v
    BY <1>4, <1>10
  <2> DEFINE vers == {change'[s].ver : s \in Completed'}
  <2>6. vers = {change[s].ver : s \in Completed} \cup {v}
    BY <2>1, <2>4, <2>5
  <2>7. vers = 0..((v + 1) - 1)
    <3>1. 0..((v + 1) - 1) = 0..(v - 1) \cup {v}
      BY <1>4
    <3> HIDE DEF vers
    <3> QED BY <2>2, <2>6, <3>1
  <2>8. \A s \in Completed' : change'[s].ver + 1 = cover'.ver => cover'.key = PictureOf[s]
    BY <1>3, <1>8, <2>1, <2>4
  <2> QED BY <1>8, <2>3, <2>7, <2>8 DEF Countable, ChangesCounted
<1> QED BY <1>9, <1>14, <1>15, <1>16, <1>17, <1>18 DEF CoverInv

LEMMA LeaveCatalogueKeeps ==
    ASSUME CoverInv, LeaveCatalogue PROVE CoverInv'
<1>0. CoverTypeOK
  BY DEF CoverInv
<1>1. /\ title' \in {"archived", "literature"} /\ title' # "active"
      /\ UNCHANGED <<cover, object, change, uploader>>
  BY DEF LeaveCatalogue
<1>2. CoverTypeOK'
  BY <1>0, <1>1 DEF CoverTypeOK
<1>3. CoverOnward /\ LostOnward /\ StoredOnward
  BY <1>0, <1>1 DEF CoverTypeOK, CoverOnward, LostOnward, StoredOnward, Lost, TooLate
<1>4. UploadersFine'
  <2> SUFFICES ASSUME NEW x \in Uploaders, uploader'[x] # Off PROVE PlanFine(uploader[x])'
    BY DEF UploadersFine
  <2>1. PICK p \in UploaderPlan : p = uploader[x]
    BY <1>0, <1>1 DEF CoverTypeOK
  <2>2. PlanFine(p)
    BY <1>1, <2>1 DEF CoverInv, UploadersFine
  <2>3. PlanFine(p)'
    BY <1>2, <1>3, <2>2, CarriedKept
  <2> QED BY <1>1, <2>1, <2>3
<1>5. ObjectsKnown' /\ ChangesFine' /\ StoredUnlessShared'
  BY <1>1 DEF CoverInv, ObjectsKnown, ChangesFine, ChangeFine, TooLate, StoredUnlessShared,
     CurrentStored
<1>6. Countable'
  BY <1>1, CountStays DEF Completed
<1> QED BY <1>2, <1>4, <1>5, <1>6 DEF CoverInv

-----------------------------------------------------------------------------
(* Every step, and what the invariant says                                 *)

LEMMA CoverStep == CoverInv /\ [CoverNext]_coverVars => CoverInv'
<1> SUFFICES ASSUME CoverInv, [CoverNext]_coverVars PROVE CoverInv'
  OBVIOUS
<1>1. ASSUME NEW w \in Uploaders,
             \/ \E r \in Changes : Take(w, r)
             \/ Insert(w) \/ Look(w) \/ Put(w) \/ Commit(w)
             \/ Refuse(w) \/ ReadChange(w) \/ Judge(w) \/ Fail(w)
             \/ Clean(w) \/ Delete(w) \/ Leave(w)
      PROVE  CoverInv'
  BY <1>1, TakeKeeps, InsertKeeps, LookKeeps, PutKeeps, CommitKeeps, RefuseKeeps, JudgeKeeps,
     FailKeeps, CleanKeeps, DeleteKeeps, LeaveKeeps
<1>2. CASE LeaveCatalogue
  BY <1>2, LeaveCatalogueKeeps
<1>3. CASE UNCHANGED coverVars
  <2>1. UNCHANGED <<title, cover, object, change, uploader>>
    BY <1>3 DEF coverVars
  <2>2. CoverTypeOK' /\ ObjectsKnown' /\ ChangesFine' /\ StoredUnlessShared'
    BY <2>1 DEF CoverInv, CoverTypeOK, ObjectsKnown, ChangesFine, ChangeFine, TooLate,
       StoredUnlessShared, CurrentStored
  <2>3. UploadersFine'
    BY <2>1 DEF CoverInv, UploadersFine, PlanFine, TooLate, Lost, Unused
  <2>4. Countable'
    BY <2>1, CountStays DEF Completed
  <2> QED BY <2>2, <2>3, <2>4 DEF CoverInv
<1> QED BY <1>1, <1>2, <1>3 DEF CoverNext

LEMMA CoverInvSound == CoverInv => CoversSound
<1> SUFFICES ASSUME CoverInv PROVE CoversSound
  OBVIOUS
<1>1. FailuresJust
  <2> SUFFICES ASSUME NEW r \in Changes, change[r].status = "failed"
               PROVE  title # "active" \/ cover.ver # change[r].ver
    BY DEF FailuresJust
  <2>1. TooLate(change[r].ver) /\ cover.ver \in Nat /\ change[r].ver \in Nat
    BY CoverParts DEF CoverInv, ChangesFine, ChangeFine
  <2> QED BY <2>1 DEF TooLate
<1> QED BY <1>1 DEF CoverInv, Countable, CoversSound

LEMMA CoverInvHolds == CoverSpec => []CoverInv
BY CoverStart, CoverStep, PTL DEF CoverSpec

(* The types of the cover, of the objects and commands, and of where every *)
(* handler is.                                                             *)
THEOREM CoversTyped == CoverSpec => []CoverTypeOK
<1>1. CoverInv => CoverTypeOK
  BY DEF CoverInv
<1> QED BY <1>1, CoverInvHolds, PTL

(* Whatever crashes, repeats or overlaps between the bucket and the        *)
(* database: every object is of a known command, every completed change is *)
(* one version of the cover, a change recorded as failed could not succeed *)
(* any more, and while no two changes bring the same picture the object of *)
(* the cover is there.                                                     *)
THEOREM CoversSafe == CoverSpec => []CoversSound
BY CoverInvHolds, CoverInvSound, PTL

-----------------------------------------------------------------------------
(* The application of a draft: the inductive invariant                     *)

AtWork(c) == c.at \in {"check", "write", "confirm", "record"}

(* A request belongs to one draft, whoever names it: the draft itself, a   *)
(* call that is under way or the journal of the gateway.                   *)
Claim(d, q) ==
    \/ draft[d].request = q
    \/ \E t \in Tabs : tab[t] # Asleep /\ tab[t].draft = d /\ tab[t].request = q
    \/ journal[q] # NoEntry /\ journal[q].draft = d
OwnersFine ==
    \A q \in Applies, d \in Drafts : Claim(d, q) =>
        past[q].used /\ \A f \in Drafts : Claim(f, q) => f = d

(* A part is written only after its mark and in its turn, and what a close *)
(* has written stays closed.                                               *)
EntryFine(e) ==
    /\ e.written \subseteq e.started /\ e.started \subseteq PartsOf(e.draft)
    /\ "cohort" \in e.started => "class" \in e.written
    /\ e.state \in {"returned", "failed"} => e.started = {}
    /\ e.state = "applied" => e.written = PartsOf(e.draft)
    /\ e.before.class # "closed"
    /\ KindOf[e.draft] = "close" => \A p \in e.written : sheet[p] = "closed"
JournalFine == \A q \in Applies : Journaled(q) => EntryFine(journal[q])

HeldBy(d, q) == draft[d].request = q /\ draft[d].status = "approved_pending_apply"

(* A call c and the journal row e of its request.  A request with one call *)
(* at a time holds its draft while the call is under way, and a refusal    *)
(* that the call brings is one of a request that wrote nothing.            *)
TabFine(c, e) ==
    /\ AtWork(c) => e # NoEntry /\ e.state \in {"prepared", "applying"}
    /\ c.at \in {"check", "write", "confirm"} => NextPart(e) # "none"
    /\ c.at \in {"write", "confirm"} => NextPart(e) \in e.started
    /\ c.at = "record" => NextPart(e) = "none"
    /\ c.at = "answered" => c.reply # "none"
    /\ c.at = "answered" /\ c.reply = "applied" => e # NoEntry /\ e.state = "applied"
    /\ past[c.request].alone =>
        /\ HeldBy(c.draft, c.request)
        /\ c.at = "answered" /\ c.reply # "applied" /\ e # NoEntry
               => e.state \in {"returned", "failed"}
TabsFine == \A t \in Tabs : tab[t] # Asleep => TabFine(tab[t], journal[tab[t].request])

OneWorks ==
    \A t, u \in Tabs : tab[t] # Asleep /\ tab[u] # Asleep /\ AtWork(tab[t]) /\ AtWork(tab[u])
        => t = u
AloneOnce ==
    \A t, u \in Tabs : tab[t] # Asleep /\ tab[u] # Asleep /\ tab[t].request = tab[u].request
                       /\ past[tab[t].request].alone
        => t = u

NamedFine == \A d \in Drafts : draft[d].status \in {"approved_pending_apply", "applied"}
                                  => draft[d].request # NoApply
AppliedKept ==
    \A d \in Drafts : draft[d].status = "applied" =>
        LET e == journal[draft[d].request] IN
        e # NoEntry /\ e.draft = d /\ e.state = "applied"

DraftInv ==
    /\ DraftTypeOK /\ NamedFine /\ OwnersFine
    /\ JournalFine /\ TabsFine /\ OneWorks /\ AloneOnce
    /\ AppliedKept /\ WritingHolds /\ CohortClosesLast

LEMMA DraftIs ==
  ASSUME DraftTypeOK, NEW d \in Drafts
  PROVE  /\ draft[d] \in DraftType /\ draft[d].status \in Statuses /\ draft[d].rev \in Nat
         /\ draft[d].seen \in ClassStates /\ draft[d].request \in Applies \cup {NoApply}
BY DEF DraftTypeOK, DraftType

LEMMA TabIs ==
  ASSUME DraftTypeOK, NEW t \in Tabs, tab[t] # Asleep
  PROVE  /\ tab[t] \in TabType /\ tab[t].at \in Stages /\ tab[t].draft \in Drafts
         /\ tab[t].request \in Applies /\ tab[t].rev \in Nat /\ tab[t].seen \in ClassStates
         /\ tab[t].reply \in {"none", "applied", "returned", "failed"} /\ tab[t].waits \in BOOLEAN
BY DEF DraftTypeOK, TabType

LEMMA EntryIs ==
  ASSUME DraftTypeOK, NEW q \in Applies, journal[q] # NoEntry
  PROVE  /\ journal[q] \in EntryType /\ journal[q].draft \in Drafts
         /\ journal[q].state \in {"prepared", "applying", "applied", "returned", "failed"}
         /\ journal[q].started \in SUBSET Parts /\ journal[q].written \in SUBSET Parts
         /\ journal[q].before \in Sheets /\ journal[q].seen \in ClassStates
BY DEF DraftTypeOK, EntryType

LEMMA DraftParts ==
  ASSUME DraftInv
  PROVE  /\ DraftTypeOK /\ NamedFine /\ OwnersFine
         /\ JournalFine /\ TabsFine /\ OneWorks /\ AloneOnce
         /\ AppliedKept /\ WritingHolds /\ CohortClosesLast
BY DEF DraftInv

LEMMA DraftStart == DraftInit => DraftInv
<1> SUFFICES ASSUME DraftInit PROVE DraftInv
  OBVIOUS
<1> USE DraftAssumption DEF DraftInit
<1>1. DraftTypeOK
  <2>1. draft \in [Drafts -> DraftType]
    BY DEF DraftType, Statuses, ClassStates
  <2>2. sheet \in Sheets
    BY DEF Sheets, ClassStates
  <2>3. journal \in [Applies -> EntryType \cup {NoEntry}] /\ tab \in [Tabs -> TabType \cup {Asleep}]
    OBVIOUS
  <2>4. past \in [Applies -> [used : BOOLEAN, alone : BOOLEAN, released : BOOLEAN]]
    OBVIOUS
  <2> QED BY <2>1, <2>2, <2>3, <2>4 DEF DraftTypeOK
<1>2. NamedFine /\ AppliedKept
  BY DEF NamedFine, AppliedKept
<1>3. OwnersFine
  BY DEF OwnersFine, Claim
<1>4. JournalFine /\ TabsFine /\ OneWorks /\ AloneOnce /\ WritingHolds
  BY DEF JournalFine, TabsFine, OneWorks, AloneOnce, WritingHolds, Journaled
<1>5. CohortClosesLast
  BY DEF CohortClosesLast
<1> QED BY <1>1, <1>2, <1>3, <1>4, <1>5 DEF DraftInv

-----------------------------------------------------------------------------
(* What every step that only moves a call and the row of its request keeps *)

LEMMA OwnersStay ==
  ASSUME OwnersFine, past' = past \/ \A q \in Applies : past'[q].used = past[q].used,
         \A q \in Applies, d \in Drafts : Claim(d, q)' => Claim(d, q)
  PROVE  OwnersFine'
BY DEF OwnersFine

(* What is closed stays closed, the class before its cohort. *)
SheetOnward ==
    /\ sheet' \in Sheets /\ CohortClosesLast'
    /\ \A p \in Parts : sheet[p] = "closed" => sheet'[p] = "closed"

LEMMA EntryOnward ==
  ASSUME SheetOnward, NEW e \in EntryType, EntryFine(e)
  PROVE  EntryFine(e)'
<1>1. e.written \subseteq Parts
  BY DEF EntryType
<1> QED BY <1>1 DEF EntryFine, SheetOnward

LEMMA WriteMoves ==
  ASSUME DraftInv, NEW t \in Tabs, tab[t] # Asleep,
         NEW q \in Applies, q = tab[t].request,
         NEW c \in TabType \cup {Asleep}, NEW j \in EntryType \cup {NoEntry},
         tab' = [tab EXCEPT ![t] = c], journal' = [journal EXCEPT ![q] = j],
         draft' = draft, past' = past, SheetOnward,
         c # Asleep => c.draft = tab[t].draft /\ c.request = q /\ TabFine(c, j),
         j # NoEntry => j.draft = tab[t].draft /\ EntryFine(j),
         j # journal[q] => /\ j # NoEntry
                           /\ journal[q] # NoEntry => journal[q].state # "applied",
         j # journal[q] \/ (c # Asleep /\ AtWork(c)) =>
            \A u \in Tabs : u # t /\ tab[u] # Asleep => ~AtWork(tab[u])
  PROVE  DraftInv'
<1>0. /\ DraftTypeOK /\ NamedFine /\ OwnersFine
      /\ JournalFine /\ TabsFine /\ OneWorks /\ AloneOnce
      /\ AppliedKept /\ WritingHolds /\ CohortClosesLast
  BY DraftParts
<1>1. /\ tab' \in [Tabs -> TabType \cup {Asleep}] /\ tab'[t] = c
      /\ \A u \in Tabs : u # t => tab'[u] = tab[u]
  BY <1>0 DEF DraftTypeOK
<1>2. /\ journal' \in [Applies -> EntryType \cup {NoEntry}] /\ journal'[q] = j
      /\ \A r \in Applies : r # q => journal'[r] = journal[r]
  BY <1>0 DEF DraftTypeOK
<1>3. DraftTypeOK'
  BY <1>0, <1>1, <1>2 DEF DraftTypeOK, SheetOnward
<1>4. NamedFine' /\ CohortClosesLast'
  BY <1>0 DEF NamedFine, SheetOnward
<1>5. tab[t].draft \in Drafts /\ Claim(tab[t].draft, q)
  BY <1>0, TabIs DEF Claim
<1>6. OwnersFine'
  <2> SUFFICES ASSUME NEW r \in Applies, NEW d \in Drafts, Claim(d, r)' PROVE Claim(d, r)
    BY <1>0, OwnersStay
  <2>1. CASE draft'[d].request = r
    BY <2>1 DEF Claim
  <2>2. CASE \E u \in Tabs : tab'[u] # Asleep /\ tab'[u].draft = d /\ tab'[u].request = r
    <3>1. PICK u \in Tabs : tab'[u] # Asleep /\ tab'[u].draft = d /\ tab'[u].request = r
      BY <2>2
    <3>2. CASE u = t
      BY <3>1, <3>2, <1>1, <1>5
    <3>3. CASE u # t
      BY <3>1, <3>3, <1>1 DEF Claim
    <3> QED BY <3>2, <3>3
  <2>3. CASE journal'[r] # NoEntry /\ journal'[r].draft = d
    BY <2>3, <1>2, <1>5 DEF Claim
  <2> QED BY <2>1, <2>2, <2>3 DEF Claim
<1>7. JournalFine'
  <2> SUFFICES ASSUME NEW r \in Applies, Journaled(r)' PROVE EntryFine(journal[r])'
    BY DEF JournalFine
  <2>1. CASE r = q
    <3>1. j # NoEntry /\ j \in EntryType /\ EntryFine(j)
      BY <2>1, <1>2 DEF Journaled
    <3>2. EntryFine(j)'
      BY <3>1, EntryOnward
    <3> QED BY <2>1, <3>2, <1>2
  <2>2. CASE r # q
    <3>1. PICK e \in EntryType : e = journal[r] /\ EntryFine(e)
      BY <2>2, <1>0, <1>2, EntryIs DEF JournalFine, Journaled
    <3>2. EntryFine(e)'
      BY <3>1, EntryOnward
    <3> QED BY <2>2, <3>1, <3>2, <1>2
  <2> QED BY <2>1, <2>2
<1>8. OneWorks'
  <2> SUFFICES ASSUME NEW u \in Tabs, NEW v \in Tabs, tab'[u] # Asleep, tab'[v] # Asleep,
                      AtWork(tab'[u]), AtWork(tab'[v]), u # v
               PROVE  FALSE
    BY DEF OneWorks, AtWork
  <2>1. CASE u = t
    BY <2>1, <1>1
  <2>2. CASE v = t
    BY <2>2, <1>1
  <2>3. CASE u # t /\ v # t
    BY <2>3, <1>0, <1>1 DEF OneWorks
  <2> QED BY <2>1, <2>2, <2>3
<1>9. \A u \in Tabs : tab'[u] # Asleep => tab[u] # Asleep /\ tab'[u].request = tab[u].request
  BY <1>1
<1>10. AloneOnce'
  BY <1>0, <1>9 DEF AloneOnce
<1>11. TabsFine'
  <2> SUFFICES ASSUME NEW u \in Tabs, tab'[u] # Asleep
               PROVE  TabFine(tab[u], journal[tab[u].request])'
    BY DEF TabsFine
  <2>1. CASE u = t
    BY <2>1, <1>1, <1>2 DEF TabFine, HeldBy
  <2>2. CASE u # t
    <3>1. PICK b : b = tab[u]
      OBVIOUS
    <3>2. PICK e : e = journal[b.request]
      OBVIOUS
    <3>3. tab'[u] = b /\ b # Asleep /\ b.request \in Applies /\ TabFine(b, e)
      BY <3>1, <3>2, <2>2, <1>0, <1>1, TabIs DEF TabsFine
    <3>4. TabFine(b, e)'
      BY <3>3 DEF TabFine, HeldBy
    <3>5. CASE journal'[b.request] = e
      BY <3>3, <3>4, <3>5
    <3>6. CASE journal'[b.request] # e
      <4>1. b.request = q /\ j # e /\ e = journal[q]
        BY <3>2, <3>3, <3>6, <1>2
      <4>2. ~AtWork(b) /\ ~(b.at = "answered" /\ b.reply = "applied")
        BY <4>1, <3>1, <3>3, <2>2 DEF TabFine
      <4>3. ~past[q].alone
        BY <4>1, <3>1, <3>3, <2>2, <1>0 DEF AloneOnce
      <4>4. TabFine(b, j)'
        BY <3>3, <4>1, <4>2, <4>3 DEF TabFine, AtWork
      <4> QED BY <3>3, <4>1, <4>4, <1>2
    <3> QED BY <3>5, <3>6
  <2> QED BY <2>1, <2>2
<1>12. AppliedKept'
  <2> SUFFICES ASSUME NEW d \in Drafts, draft[d].status = "applied"
               PROVE  LET e == journal'[draft[d].request] IN
                      e # NoEntry /\ e.draft = d /\ e.state = "applied"
    BY DEF AppliedKept
  <2>1. draft[d].request \in Applies
    BY <1>0, DraftIs DEF NamedFine
  <2>2. journal'[draft[d].request] = journal[draft[d].request]
    BY <2>1, <1>0, <1>2 DEF AppliedKept
  <2> QED BY <2>2, <1>0 DEF AppliedKept
<1>13. WritingHolds'
  <2> SUFFICES ASSUME NEW r \in Applies, journal'[r] # NoEntry, past[r].alone,
                      journal'[r].started # {}
               PROVE  /\ draft[journal'[r].draft].request = r
                      /\ draft[journal'[r].draft].status \in {"approved_pending_apply", "applied"}
    BY DEF WritingHolds, Journaled, Untouched, KeepsDraft
  <2>1. CASE r = q
    <3>1. TabFine(tab[t], journal[q])
      BY <1>0 DEF TabsFine
    <3>2. HeldBy(tab[t].draft, q)
      BY <2>1, <3>1 DEF TabFine
    <3> QED BY <2>1, <3>2, <1>2 DEF HeldBy
  <2>2. CASE r # q
    BY <2>2, <1>0, <1>2 DEF WritingHolds, Journaled, Untouched, KeepsDraft
  <2> QED BY <2>1, <2>2
<1> QED BY <1>3, <1>4, <1>6, <1>7, <1>8, <1>10, <1>11, <1>12, <1>13 DEF DraftInv

LEMMA CallMoves ==
  ASSUME DraftInv, NEW t \in Tabs, tab[t] # Asleep,
         NEW q \in Applies, q = tab[t].request,
         NEW c \in TabType \cup {Asleep}, NEW j \in EntryType \cup {NoEntry},
         tab' = [tab EXCEPT ![t] = c], journal' = [journal EXCEPT ![q] = j],
         draft' = draft, sheet' = sheet, past' = past,
         c # Asleep => c.draft = tab[t].draft /\ c.request = q /\ TabFine(c, j),
         j # NoEntry => j.draft = tab[t].draft /\ EntryFine(j),
         j # journal[q] => /\ j # NoEntry
                           /\ journal[q] # NoEntry => journal[q].state # "applied",
         j # journal[q] \/ (c # Asleep /\ AtWork(c)) =>
            \A u \in Tabs : u # t /\ tab[u] # Asleep => ~AtWork(tab[u])
  PROVE  DraftInv'
<1>1. SheetOnward
  BY DraftParts DEF SheetOnward, DraftTypeOK, CohortClosesLast
<1> HIDE DEF TabFine, AtWork, EntryFine
<1> QED BY <1>1, WriteMoves

-----------------------------------------------------------------------------
(* The handlers *)

(* Nobody else is at work while a call is, or when none is. *)
Alone(t) == \A u \in Tabs : u # t /\ tab[u] # Asleep => ~AtWork(tab[u])

LEMMA WorksAlone ==
  ASSUME OneWorks, NEW t \in Tabs, \/ tab[t] # Asleep /\ AtWork(tab[t])
                                   \/ Working = {}
  PROVE  Alone(t)
BY DEF OneWorks, Alone, Working, AtWork

LEMMA PartFine ==
  ASSUME NEW e \in EntryType, NextPart(e) # "none"
  PROVE  /\ NextPart(e) \in PartsOf(e.draft) /\ NextPart(e) \in Parts
         /\ NextPart(e) \notin e.written
         /\ NextPart(e) = "cohort" => "class" \in e.written
BY DEF NextPart, PartsOf, Parts, EntryType

(* The answer of a call whose row is e is a state of the call itself. *)
AnswerOf(b, reply) == IF b.waits THEN [b EXCEPT !.at = "answered", !.reply = reply] ELSE Asleep
LEMMA AnswerFine ==
  ASSUME DraftTypeOK, NEW t \in Tabs, tab[t] # Asleep, NEW e, TabFine(tab[t], journal[tab[t].request]),
         NEW reply \in {"applied", "returned", "failed"},
         reply = "applied" => e # NoEntry /\ e.state = "applied",
         reply # "applied" /\ e # NoEntry => e.state \in {"returned", "failed"}
  PROVE  /\ AnswerOf(tab[t], reply) \in TabType \cup {Asleep}
         /\ AnswerOf(tab[t], reply) # Asleep =>
              /\ AnswerOf(tab[t], reply).draft = tab[t].draft
              /\ AnswerOf(tab[t], reply).request = tab[t].request
              /\ ~AtWork(AnswerOf(tab[t], reply)) /\ TabFine(AnswerOf(tab[t], reply), e)
<1> DEFINE c == AnswerOf(tab[t], reply)
<1>0. c = IF tab[t].waits THEN [tab[t] EXCEPT !.at = "answered", !.reply = reply] ELSE Asleep
  BY DEF AnswerOf
<1> HIDE DEF c
<1> SUFFICES /\ c \in TabType \cup {Asleep}
             /\ c # Asleep => /\ c.draft = tab[t].draft /\ c.request = tab[t].request
                              /\ ~AtWork(c) /\ TabFine(c, e)
  BY DEF c
<1>1. CASE ~tab[t].waits
  BY <1>0, <1>1
<1>2. CASE tab[t].waits
  <2>1. tab[t] \in TabType
    BY TabIs
  <2>2. PICK b : b = tab[t]
    OBVIOUS
  <2>3. c = [b EXCEPT !.at = "answered", !.reply = reply] /\ b \in TabType
    BY <1>0, <1>2, <2>1, <2>2
  <2>4. c \in TabType
    BY <2>3 DEF TabType, Stages
  <2>5. /\ c.at = "answered" /\ c.reply = reply /\ c.draft = b.draft /\ c.request = b.request
    BY <2>3 DEF TabType
  <2>6. ~AtWork(c)
    BY <2>5 DEF AtWork
  <2>7. TabFine(c, e)
    BY <2>2, <2>5, <2>6 DEF TabFine, AtWork
  <2> QED BY <2>2, <2>4, <2>5, <2>6, <2>7
<1> QED BY <1>1, <1>2

LEMMA StageFine ==
  ASSUME NEW b \in TabType, NEW s \in Stages
  PROVE  /\ [b EXCEPT !.at = s] \in TabType
         /\ [b EXCEPT !.at = s].at = s
         /\ [b EXCEPT !.at = s].draft = b.draft /\ [b EXCEPT !.at = s].request = b.request
         /\ [b EXCEPT !.at = s].reply = b.reply
BY DEF TabType, Stages

LEMMA AnswersIs ==
  ASSUME NEW t \in Tabs, NEW reply, tab \in [Tabs -> TabType \cup {Asleep}], Answers(t, reply)
  PROVE  tab' = [tab EXCEPT ![t] = AnswerOf(tab[t], reply)]
BY DEF Answers, AnswerOf

LEMMA StageIs ==
  ASSUME NEW t \in Tabs, NEW s, tab \in [Tabs -> TabType \cup {Asleep}], Stage(t, s)
  PROVE  tab' = [tab EXCEPT ![t] = [tab[t] EXCEPT !.at = s]]
BY DEF Stage

LEMMA LoseKeeps ==
  ASSUME DraftInv, NEW t \in Tabs, Lose(t)
  PROVE  DraftInv'
<1>1. DraftTypeOK
  BY DraftParts
<1>2. PICK q \in Applies : q = tab[t].request
  BY <1>1, TabIs DEF Lose
<1>3. PICK j \in EntryType \cup {NoEntry} : j = journal[q]
  BY <1>1 DEF DraftTypeOK
<1>4. tab' = [tab EXCEPT ![t] = Asleep] /\ tab[t] # Asleep
  BY DEF Lose, Fades
<1>5. journal' = [journal EXCEPT ![q] = j]
  BY <1>1, <1>3 DEF DraftTypeOK, Lose
<1>6. j # NoEntry => j.draft = tab[t].draft /\ EntryFine(j)
  BY <1>1, <1>2, <1>3, <1>4, DraftParts, TabIs, EntryIs DEF JournalFine, Journaled, OwnersFine, Claim
<1> QED BY <1>2, <1>3, <1>4, <1>5, <1>6, CallMoves DEF Lose

LEMMA StopWaitingKeeps ==
  ASSUME DraftInv, NEW t \in Tabs, StopWaiting(t)
  PROVE  DraftInv'
<1>1. DraftTypeOK
  BY DraftParts
<1>2. PICK q \in Applies : q = tab[t].request
  BY <1>1, TabIs DEF StopWaiting
<1>3. PICK j \in EntryType \cup {NoEntry} : j = journal[q]
  BY <1>1 DEF DraftTypeOK
<1>4. PICK b : b = tab[t]
  OBVIOUS
<1>5. b \in TabType /\ tab[t] # Asleep /\ TabFine(b, j)
  BY <1>1, <1>2, <1>3, <1>4, DraftParts, TabIs DEF StopWaiting, TabsFine
<1>6. PICK c : c = [b EXCEPT !.waits = FALSE]
  OBVIOUS
<1>7. /\ c \in TabType
      /\ c.at = b.at /\ c.draft = b.draft /\ c.request = b.request /\ c.reply = b.reply
  BY <1>5, <1>6 DEF TabType
<1>8. TabFine(c, j)
  BY <1>5, <1>7 DEF TabFine, AtWork
<1>9. tab' = [tab EXCEPT ![t] = c]
  BY <1>1, <1>4, <1>6 DEF DraftTypeOK, StopWaiting
<1>10. journal' = [journal EXCEPT ![q] = j]
  BY <1>1, <1>3 DEF DraftTypeOK, StopWaiting
<1>11. j # NoEntry => j.draft = tab[t].draft /\ EntryFine(j)
  BY <1>1, <1>2, <1>3, <1>5, DraftParts, TabIs, EntryIs DEF JournalFine, Journaled, OwnersFine, Claim
<1>12. AtWork(c) => Alone(t)
  BY <1>4, <1>5, <1>7, DraftParts, WorksAlone DEF AtWork
<1>13. AtWork(c) => \A u \in Tabs : u # t /\ tab[u] # Asleep => ~AtWork(tab[u])
  BY <1>12 DEF Alone
<1>14. c \in TabType \cup {Asleep} /\ c.draft = tab[t].draft /\ c.request = q
  BY <1>2, <1>4, <1>7
<1>15. draft' = draft /\ sheet' = sheet /\ past' = past
  BY DEF StopWaiting
<1> HIDE DEF TabFine, AtWork, EntryFine
<1>16. tab[t] # Asleep
  BY <1>5
<1> QED BY <1>2, <1>3, <1>8, <1>9, <1>10, <1>11, <1>13, <1>14, <1>15, <1>16, CallMoves

LEMMA CallOf ==
  ASSUME DraftInv, NEW t \in Tabs, tab[t] # Asleep, NEW q, q = tab[t].request
  PROVE  /\ q \in Applies /\ tab[t] \in TabType /\ tab[t].draft \in Drafts
         /\ journal[q] \in EntryType \cup {NoEntry} /\ TabFine(tab[t], journal[q])
         /\ journal[q] # NoEntry => journal[q].draft = tab[t].draft /\ EntryFine(journal[q])
         /\ tab \in [Tabs -> TabType \cup {Asleep}]
         /\ journal \in [Applies -> EntryType \cup {NoEntry}]
<1>1. DraftTypeOK
  BY DraftParts
<1>2. q \in Applies /\ tab[t] \in TabType /\ tab[t].draft \in Drafts
  BY <1>1, TabIs
<1>3. TabFine(tab[t], journal[q])
  BY DraftParts DEF TabsFine
<1>4. journal[q] # NoEntry => journal[q].draft = tab[t].draft /\ EntryFine(journal[q])
  BY <1>1, <1>2, DraftParts, EntryIs DEF JournalFine, Journaled, OwnersFine, Claim
<1> QED BY <1>1, <1>2, <1>3, <1>4 DEF DraftTypeOK

(* Onward: the stage after a row e that is at work. *)
LEMMA OnwardFine ==
  ASSUME NEW b \in TabType, NEW e \in EntryType, NEW c, c = [b EXCEPT !.at = Onward(e)],
         e # NoEntry, e.state \in {"prepared", "applying"},
         past[b.request].alone => HeldBy(b.draft, b.request)
  PROVE  c \in TabType /\ TabFine(c, e) /\ c.draft = b.draft /\ c.request = b.request
<1>1. Onward(e) \in {"check", "record"} /\ (Onward(e) = "check" <=> NextPart(e) # "none")
  BY DEF Onward
<1>2. c \in TabType /\ c.at = Onward(e) /\ c.draft = b.draft /\ c.request = b.request
  BY <1>1 DEF TabType, Stages
<1> QED BY <1>1, <1>2 DEF TabFine

(* The handlers that answer: the row stays or is given its verdict. *)
LEMMA AnswerTabKeeps ==
  ASSUME DraftInv, NEW t \in Tabs, tab[t] # Asleep, NEW q, q = tab[t].request,
         NEW j \in EntryType \cup {NoEntry}, NEW reply \in {"applied", "returned", "failed"},
         Answers(t, reply), journal' = [journal EXCEPT ![q] = j],
         draft' = draft, sheet' = sheet, past' = past,
         j # NoEntry => j.draft = tab[t].draft /\ EntryFine(j),
         j # journal[q] => /\ j # NoEntry
                           /\ journal[q] # NoEntry => journal[q].state # "applied",
         j # journal[q] => Alone(t),
         reply = "applied" => j # NoEntry /\ j.state = "applied",
         reply # "applied" /\ j # NoEntry => j.state \in {"returned", "failed"}
  PROVE  DraftInv'
<1>1. /\ q \in Applies /\ tab[t] \in TabType /\ TabFine(tab[t], journal[q])
      /\ tab \in [Tabs -> TabType \cup {Asleep}] /\ DraftTypeOK
  BY CallOf, DraftParts
<1>2. PICK c : c = AnswerOf(tab[t], reply)
  OBVIOUS
<1>3. tab' = [tab EXCEPT ![t] = c]
  BY <1>1, <1>2, AnswersIs
<1>4. /\ c \in TabType \cup {Asleep}
      /\ c # Asleep => c.draft = tab[t].draft /\ c.request = tab[t].request
                       /\ ~AtWork(c) /\ TabFine(c, j)
  <2>1. TabFine(tab[t], journal[tab[t].request])
    BY <1>1
  <2> HIDE DEF TabFine, AtWork, EntryFine
  <2> QED BY <1>1, <1>2, <2>1, AnswerFine
<1>5. j # journal[q] \/ (c # Asleep /\ AtWork(c)) =>
         \A u \in Tabs : u # t /\ tab[u] # Asleep => ~AtWork(tab[u])
  BY <1>4 DEF Alone
<1> HIDE DEF TabFine, AtWork, EntryFine
<1> QED BY <1>1, <1>3, <1>4, <1>5, CallMoves

(* The handlers that move on, or stop. *)
LEMMA StageKeeps ==
  ASSUME DraftInv, NEW t \in Tabs, tab[t] # Asleep, NEW q, q = tab[t].request,
         NEW j \in EntryType, NEW c \in TabType \cup {Asleep},
         tab' = [tab EXCEPT ![t] = c], journal' = [journal EXCEPT ![q] = j], j # NoEntry,
         draft' = draft, sheet' = sheet, past' = past,
         c # Asleep => TabFine(c, j) /\ c.draft = tab[t].draft /\ c.request = q,
         j.draft = tab[t].draft /\ EntryFine(j),
         journal[q] # NoEntry => journal[q].state # "applied",
         Alone(t)
  PROVE  DraftInv'
<1>1. q \in Applies
  BY CallOf
<1>2. \A u \in Tabs : u # t /\ tab[u] # Asleep => ~AtWork(tab[u])
  BY DEF Alone
<1>3. j \in EntryType \cup {NoEntry}
  OBVIOUS
<1> HIDE DEF TabFine, AtWork, EntryFine, Alone
<1> QED BY <1>1, <1>2, <1>3, CallMoves

(* A row after a change of some of its fields *)
MarkedRow(e) == [e EXCEPT !.state = "applying", !.started = @ \cup {NextPart(e)}]

LEMMA MarkedFine ==
  ASSUME NEW e \in EntryType, EntryFine(e), NextPart(e) # "none"
  PROVE  /\ MarkedRow(e) \in EntryType
         /\ MarkedRow(e).draft = e.draft /\ MarkedRow(e).written = e.written
         /\ MarkedRow(e).state = "applying"
         /\ MarkedRow(e).started = e.started \cup {NextPart(e)}
         /\ EntryFine(MarkedRow(e))
<1> DEFINE p == NextPart(e)
           j == MarkedRow(e)
<1>0. j = [e EXCEPT !.state = "applying", !.started = @ \cup {p}]
  BY DEF MarkedRow
<1> HIDE DEF j
<1> SUFFICES /\ j \in EntryType /\ j.draft = e.draft /\ j.written = e.written
             /\ j.state = "applying" /\ j.started = e.started \cup {p} /\ EntryFine(j)
  BY DEF j
<1>1. p \in PartsOf(e.draft) /\ p \in Parts /\ (p = "cohort" => "class" \in e.written)
  BY PartFine
<1>2. /\ j \in EntryType /\ j.draft = e.draft /\ j.written = e.written
      /\ j.state = "applying" /\ j.started = e.started \cup {p} /\ j.before = e.before
  BY <1>0, <1>1 DEF EntryType
<1> HIDE DEF p
<1>3. p \in PartsOf(e.draft) /\ (p = "cohort" => "class" \in e.written)
  BY <1>1
<1> QED BY <1>2, <1>3 DEF EntryFine

LEMMA WrittenFine ==
  ASSUME NEW e \in EntryType, EntryFine(e), NEW p, p = NextPart(e), p # "none", p \in e.started,
         e.state \in {"prepared", "applying"},
         KindOf[e.draft] = "close" => sheet[p] = "closed",
         NEW j, j = [e EXCEPT !.written = @ \cup {p}]
  PROVE  /\ j \in EntryType /\ j.draft = e.draft /\ j.state = e.state /\ EntryFine(j)
<1>1. p \in Parts
  BY PartFine
<1>2. /\ j \in EntryType /\ j.draft = e.draft /\ j.written = e.written \cup {p}
      /\ j.state = e.state /\ j.started = e.started /\ j.before = e.before
  BY <1>1 DEF EntryType
<1> QED BY <1>1, <1>2 DEF EntryFine

(* The state of a row becomes s, and nothing else of it changes. *)
LEMMA StateFine ==
  ASSUME NEW e \in EntryType, EntryFine(e),
         NEW s \in {"prepared", "applying", "applied", "returned", "failed"},
         s \in {"returned", "failed"} => e.started = {},
         s = "applied" => NextPart(e) = "none",
         NEW j, j = [e EXCEPT !.state = s]
  PROVE  /\ j \in EntryType /\ j.draft = e.draft /\ j.written = e.written
         /\ j.state = s /\ j.started = e.started /\ EntryFine(j)
<1>1. /\ j \in EntryType /\ j.draft = e.draft /\ j.written = e.written
      /\ j.state = s /\ j.started = e.started /\ j.before = e.before
  BY DEF EntryType
<1>2. s = "applied" => e.written = PartsOf(e.draft)
  BY DEF NextPart, EntryFine
<1> QED BY <1>1, <1>2 DEF EntryFine

LEMMA CheckKeeps ==
  ASSUME DraftInv, NEW t \in Tabs, Check(t)
  PROVE  DraftInv'
<1>1. PICK q : q = tab[t].request
  OBVIOUS
<1>2. tab[t] # Asleep /\ tab[t].at = "check"
  BY DEF Check, AtStage
<1>3. /\ q \in Applies /\ tab[t] \in TabType /\ TabFine(tab[t], journal[q])
      /\ journal[q] \in EntryType \cup {NoEntry}
      /\ journal[q] # NoEntry => journal[q].draft = tab[t].draft /\ EntryFine(journal[q])
      /\ tab \in [Tabs -> TabType \cup {Asleep}]
      /\ journal \in [Applies -> EntryType \cup {NoEntry}]
  BY <1>1, <1>2, CallOf
<1>4. journal[q] # NoEntry /\ journal[q].state \in {"prepared", "applying"}
      /\ NextPart(journal[q]) # "none"
  BY <1>2, <1>3 DEF TabFine, AtWork
<1>5. PICK p : p = NextPart(journal[q])
  OBVIOUS
<1>6. PICK j : j = MarkedRow(journal[q])
  OBVIOUS
<1>7. /\ j \in EntryType /\ j.draft = journal[q].draft /\ j.written = journal[q].written
      /\ j.state = "applying" /\ j.started = journal[q].started \cup {p} /\ EntryFine(j)
  BY <1>3, <1>4, <1>5, <1>6, MarkedFine
<1>8. NextPart(j) = p
  BY <1>5, <1>7 DEF NextPart, PartsOf
<1>9. PICK c : c = [tab[t] EXCEPT !.at = "write"]
  OBVIOUS
<1>10. /\ c \in TabType /\ c.at = "write" /\ c.draft = tab[t].draft /\ c.request = q
  BY <1>1, <1>3, <1>9, StageFine DEF Stages
<1>11. TabFine(c, j)
  <2>1. past[q].alone => HeldBy(tab[t].draft, q)
    BY <1>1, <1>3 DEF TabFine
  <2>2. p # "none" /\ p \in j.started /\ j # NoEntry
    BY <1>4, <1>5, <1>7, DraftValues
  <2> QED BY <1>7, <1>8, <1>10, <2>1, <2>2 DEF TabFine, AtWork
<1>12. tab' = [tab EXCEPT ![t] = c]
  BY <1>3, <1>9, StageIs DEF Check
<1>13. journal' = [journal EXCEPT ![q] = j]
  BY <1>1, <1>3, <1>5, <1>6 DEF Check, Part, Entry, MarkedRow
<1>14. Alone(t)
  BY <1>2, DraftParts, WorksAlone DEF AtWork
<1>15. draft' = draft /\ sheet' = sheet /\ past' = past
  BY DEF Check
<1>16. j # NoEntry
  BY <1>7, DraftValues
<1> HIDE DEF TabFine, EntryFine, Alone
<1> QED BY <1>1, <1>2, <1>3, <1>4, <1>7, <1>10, <1>11, <1>12, <1>13, <1>14, <1>15, <1>16, StageKeeps

LEMMA ConfirmKeeps ==
  ASSUME DraftInv, NEW t \in Tabs, Confirm(t)
  PROVE  DraftInv'
<1>1. PICK q : q = tab[t].request
  OBVIOUS
<1>2. tab[t] # Asleep /\ tab[t].at = "confirm"
  BY DEF Confirm, AtStage
<1>3. /\ q \in Applies /\ tab[t] \in TabType /\ TabFine(tab[t], journal[q])
      /\ journal[q] \in EntryType \cup {NoEntry}
      /\ journal[q] # NoEntry => journal[q].draft = tab[t].draft /\ EntryFine(journal[q])
      /\ tab \in [Tabs -> TabType \cup {Asleep}]
      /\ journal \in [Applies -> EntryType \cup {NoEntry}]
  BY <1>1, <1>2, CallOf
<1>4. journal[q] # NoEntry /\ journal[q].state \in {"prepared", "applying"}
      /\ NextPart(journal[q]) # "none" /\ NextPart(journal[q]) \in journal[q].started
  BY <1>2, <1>3 DEF TabFine, AtWork
<1>5. PICK p : p = NextPart(journal[q])
  OBVIOUS
<1>6. Alone(t)
  BY <1>2, DraftParts, WorksAlone DEF AtWork
<1>7. draft' = draft /\ sheet' = sheet /\ past' = past
  BY DEF Confirm
<1>8. CASE sheet[p] = After(tab[t].draft, p)
  <2>1. PICK j : j = [journal[q] EXCEPT !.written = @ \cup {p}]
    OBVIOUS
  <2>2. KindOf[journal[q].draft] = "close" => sheet[p] = "closed"
    BY <1>3, <1>4, <1>8 DEF After
  <2>3. j \in EntryType /\ j.draft = journal[q].draft /\ j.state = journal[q].state /\ EntryFine(j)
    BY <1>3, <1>4, <1>5, <2>1, <2>2, WrittenFine
  <2>4. j # NoEntry /\ j.state \in {"prepared", "applying"}
    BY <1>4, <2>3, DraftValues
  <2>5. PICK c : c = [tab[t] EXCEPT !.at = Onward(j)]
    OBVIOUS
  <2>6. past[tab[t].request].alone => HeldBy(tab[t].draft, tab[t].request)
    BY <1>3 DEF TabFine
  <2>7. c \in TabType /\ TabFine(c, j) /\ c.draft = tab[t].draft /\ c.request = q
    BY <1>1, <1>3, <2>3, <2>4, <2>5, <2>6, OnwardFine
  <2>8. tab' = [tab EXCEPT ![t] = c] /\ journal' = [journal EXCEPT ![q] = j]
    BY <1>1, <1>3, <1>5, <1>8, <2>1, <2>5, StageIs DEF Confirm, Part, Entry
  <2> HIDE DEF TabFine, EntryFine, Alone
  <2>9. j.draft = tab[t].draft /\ journal[q].state # "applied"
    BY <1>3, <1>4, <2>3
  <2> QED BY <1>1, <1>2, <1>6, <1>7, <2>3, <2>4, <2>7, <2>8, <2>9, StageKeeps
<1>9. CASE sheet[p] # After(tab[t].draft, p)
  <2>1. tab' = [tab EXCEPT ![t] = Asleep] /\ journal' = [journal EXCEPT ![q] = journal[q]]
    BY <1>1, <1>3, <1>5, <1>9 DEF Confirm, Part, Entry, Fades
  <2> HIDE DEF TabFine, EntryFine, Alone
  <2>2. PICK j \in EntryType : j = journal[q]
    BY <1>3, <1>4
  <2>3. Asleep \in TabType \cup {Asleep}
    OBVIOUS
  <2>4. j.draft = tab[t].draft /\ journal[q].state # "applied" /\ EntryFine(j) /\ j # NoEntry
    BY <1>3, <1>4, <2>2
  <2> QED BY <1>1, <1>2, <1>6, <1>7, <2>1, <2>2, <2>3, <2>4, StageKeeps
<1> QED BY <1>8, <1>9

LEMMA RecordKeeps ==
  ASSUME DraftInv, NEW t \in Tabs, Record(t)
  PROVE  DraftInv'
<1>1. PICK q : q = tab[t].request
  OBVIOUS
<1>2. tab[t] # Asleep /\ tab[t].at = "record"
  BY DEF Record, AtStage
<1>3. /\ q \in Applies /\ tab[t] \in TabType /\ TabFine(tab[t], journal[q])
      /\ journal[q] \in EntryType \cup {NoEntry}
      /\ journal[q] # NoEntry => journal[q].draft = tab[t].draft /\ EntryFine(journal[q])
      /\ journal \in [Applies -> EntryType \cup {NoEntry}]
  BY <1>1, <1>2, CallOf
<1>4. journal[q] # NoEntry /\ journal[q].state \in {"prepared", "applying"}
      /\ NextPart(journal[q]) = "none"
  BY <1>2, <1>3 DEF TabFine, AtWork
<1>5. PICK j : j = [journal[q] EXCEPT !.state = "applied"]
  OBVIOUS
<1>6. j \in EntryType /\ j.draft = journal[q].draft /\ j.state = "applied" /\ EntryFine(j)
  BY <1>3, <1>4, <1>5, StateFine
<1>7. Alone(t)
  BY <1>2, DraftParts, WorksAlone DEF AtWork
<1>8. journal' = [journal EXCEPT ![q] = j] /\ Answers(t, "applied")
  BY <1>1, <1>3, <1>5 DEF Record
<1>9. draft' = draft /\ sheet' = sheet /\ past' = past
  BY DEF Record
<1> HIDE DEF TabFine, EntryFine, Alone
<1>10. j # NoEntry /\ j.draft = tab[t].draft /\ journal[q].state # "applied"
  BY <1>3, <1>4, <1>6, DraftValues
<1> QED BY <1>1, <1>2, <1>6, <1>7, <1>8, <1>9, <1>10, AnswerTabKeeps

LEMMA RefusePartKeeps ==
  ASSUME DraftInv, NEW t \in Tabs, RefusePart(t)
  PROVE  DraftInv'
<1>1. PICK q : q = tab[t].request
  OBVIOUS
<1>2. tab[t] # Asleep /\ tab[t].at = "check"
  BY DEF RefusePart, AtStage
<1>3. /\ q \in Applies /\ tab[t] \in TabType /\ TabFine(tab[t], journal[q])
      /\ journal[q] \in EntryType \cup {NoEntry}
      /\ journal[q] # NoEntry => journal[q].draft = tab[t].draft /\ EntryFine(journal[q])
      /\ tab \in [Tabs -> TabType \cup {Asleep}]
      /\ journal \in [Applies -> EntryType \cup {NoEntry}]
  BY <1>1, <1>2, CallOf
<1>4. journal[q] # NoEntry /\ journal[q].state \in {"prepared", "applying"}
  BY <1>2, <1>3 DEF TabFine, AtWork
<1>5. Alone(t)
  BY <1>2, DraftParts, WorksAlone DEF AtWork
<1>6. draft' = draft /\ sheet' = sheet /\ past' = past
  BY DEF RefusePart
<1>7. PICK e \in EntryType : e = journal[q] /\ EntryFine(e) /\ e.draft = tab[t].draft
  BY <1>3, <1>4
<1>8. PICK verdict \in {"returned", "failed"} :
        IF e.started = {}
        THEN journal' = [journal EXCEPT ![q] = [e EXCEPT !.state = verdict]] /\ Answers(t, verdict)
        ELSE journal' = [journal EXCEPT ![q] = [e EXCEPT !.state = "applying"]] /\ Fades(t)
  BY <1>1, <1>3, <1>7 DEF RefusePart, Entry, Untouched
<1>9. CASE e.started = {}
  <2>1. PICK j : j = [e EXCEPT !.state = verdict]
    OBVIOUS
  <2>2. j \in EntryType /\ j.draft = e.draft /\ j.state = verdict /\ EntryFine(j)
    BY <1>7, <1>9, <2>1, StateFine
  <2>3. journal' = [journal EXCEPT ![q] = j] /\ Answers(t, verdict)
    BY <1>8, <1>9, <2>1
  <2> HIDE DEF TabFine, EntryFine, Alone
  <2>4. j # NoEntry /\ j.draft = tab[t].draft /\ journal[q].state # "applied"
    BY <1>3, <1>4, <1>7, <2>2, DraftValues
  <2> QED BY <1>1, <1>2, <1>5, <1>6, <2>2, <2>3, <2>4, AnswerTabKeeps
<1>10. CASE e.started # {}
  <2>1. PICK j : j = [e EXCEPT !.state = "applying"]
    OBVIOUS
  <2>2. j \in EntryType /\ j.draft = e.draft /\ EntryFine(j)
    BY <1>7, <2>1, StateFine
  <2>3. journal' = [journal EXCEPT ![q] = j] /\ tab' = [tab EXCEPT ![t] = Asleep]
    BY <1>8, <1>10, <2>1 DEF Fades
  <2> HIDE DEF TabFine, EntryFine, Alone
  <2>4. j # NoEntry /\ j.draft = tab[t].draft /\ journal[q].state # "applied"
    BY <1>3, <1>4, <1>7, <2>2, DraftValues
  <2>5. Asleep \in TabType \cup {Asleep}
    OBVIOUS
  <2> QED BY <1>1, <1>2, <1>5, <1>6, <2>2, <2>3, <2>4, <2>5, StageKeeps
<1> QED BY <1>9, <1>10

LEMMA EnterKeeps ==
  ASSUME DraftInv, NEW t \in Tabs, Enter(t)
  PROVE  DraftInv'
<1>1. PICK q : q = tab[t].request
  OBVIOUS
<1>2. tab[t] # Asleep /\ tab[t].at = "sent" /\ Working = {}
  BY DEF Enter, AtStage
<1>3. /\ q \in Applies /\ tab[t] \in TabType /\ TabFine(tab[t], journal[q])
      /\ journal[q] \in EntryType \cup {NoEntry}
      /\ journal[q] # NoEntry => journal[q].draft = tab[t].draft /\ EntryFine(journal[q])
      /\ tab \in [Tabs -> TabType \cup {Asleep}]
      /\ journal \in [Applies -> EntryType \cup {NoEntry}]
      /\ DraftTypeOK /\ OneWorks
  BY <1>1, <1>2, CallOf, DraftParts
<1>4. Alone(t)
  BY <1>2, <1>3, WorksAlone
<1>5. draft' = draft /\ sheet' = sheet /\ past' = past
  BY DEF Enter
<1>6. past[q].alone => HeldBy(tab[t].draft, q)
  BY <1>1, <1>3 DEF TabFine
<1>7. CASE /\ journal[q] = NoEntry /\ ~Stale(t)
           /\ journal' = [journal EXCEPT ![q] = NewEntry(t)] /\ Stage(t, "check")
  <2>1. PICK j : j = NewEntry(t)
    OBVIOUS
  <2>2. tab[t].draft \in Drafts /\ tab[t].seen \in ClassStates /\ sheet \in Sheets
    BY <1>2, <1>3, TabIs DEF DraftTypeOK
  <2>3. /\ j \in EntryType /\ j.draft = tab[t].draft /\ j.state = "prepared" /\ j.before = sheet
        /\ j.started = {} /\ j.written = {}
    BY <2>1, <2>2 DEF NewEntry, EntryType
  <2>4. sheet.class # "closed"
    BY <1>7 DEF Stale
  <2>5. EntryFine(j)
    BY <2>3, <2>4 DEF EntryFine
  <2>6. NextPart(j) = "class" /\ j # NoEntry
    BY <2>3, DraftValues DEF NextPart
  <2>7. PICK c : c = [tab[t] EXCEPT !.at = "check"]
    OBVIOUS
  <2>8. /\ c \in TabType /\ c.at = "check" /\ c.draft = tab[t].draft /\ c.request = q
    BY <1>1, <1>3, <2>7, StageFine DEF Stages
  <2>9. TabFine(c, j)
    BY <1>6, <2>3, <2>6, <2>8 DEF TabFine, AtWork
  <2>10. tab' = [tab EXCEPT ![t] = c] /\ journal' = [journal EXCEPT ![q] = j]
    BY <1>3, <1>7, <2>1, <2>7, StageIs
  <2> HIDE DEF TabFine, EntryFine, Alone
  <2> QED BY <1>1, <1>2, <1>4, <1>5, <1>7, <2>3, <2>5, <2>6, <2>8, <2>9, <2>10, StageKeeps
<1>8. CASE /\ journal[q] = NoEntry /\ Answers(t, "returned") /\ journal' = journal
  <2>1. PICK j \in EntryType \cup {NoEntry} : j = journal[q] /\ j = NoEntry
    BY <1>3, <1>8
  <2>2. journal' = [journal EXCEPT ![q] = j]
    BY <1>3, <1>8, <2>1
  <2> HIDE DEF TabFine, EntryFine, Alone
  <2> QED BY <1>1, <1>2, <1>4, <1>5, <1>8, <2>1, <2>2, AnswerTabKeeps
<1>9. CASE /\ journal[q] # NoEntry /\ journal[q].state \in {"prepared", "applying"}
           /\ journal' = [journal EXCEPT ![q].state = "applying"]
           /\ \/ Stage(t, Onward(journal[q]))
              \/ Fades(t)
  <2>1. PICK e \in EntryType : e = journal[q] /\ EntryFine(e) /\ e.draft = tab[t].draft
    BY <1>3, <1>9
  <2>2. PICK j : j = [e EXCEPT !.state = "applying"]
    OBVIOUS
  <2>3. /\ j \in EntryType /\ j.draft = e.draft /\ j.written = e.written
        /\ j.state = "applying" /\ j.started = e.started /\ EntryFine(j)
    BY <1>9, <2>1, <2>2, StateFine
  <2>4. journal' = [journal EXCEPT ![q] = j]
    BY <1>3, <1>9, <2>1, <2>2
  <2>5. j # NoEntry /\ j.draft = tab[t].draft /\ journal[q].state # "applied"
    BY <1>9, <2>1, <2>3, DraftValues
  <2>6. CASE Stage(t, Onward(journal[q]))
    <3>1. Onward(j) = Onward(e)
      BY <2>3 DEF Onward, NextPart
    <3>2. PICK c : c = [tab[t] EXCEPT !.at = Onward(j)]
      OBVIOUS
    <3>3. c \in TabType /\ TabFine(c, j) /\ c.draft = tab[t].draft /\ c.request = q
      BY <1>1, <1>3, <1>6, <2>3, <2>5, <3>2, OnwardFine
    <3>4. tab' = [tab EXCEPT ![t] = c]
      BY <1>3, <2>1, <2>6, <3>1, <3>2, StageIs
    <3> HIDE DEF TabFine, EntryFine, Alone
    <3> QED BY <1>1, <1>2, <1>4, <1>5, <2>3, <2>4, <2>5, <3>3, <3>4, StageKeeps
  <2>7. CASE Fades(t)
    <3>1. tab' = [tab EXCEPT ![t] = Asleep] /\ Asleep \in TabType \cup {Asleep}
      BY <2>7 DEF Fades
    <3> HIDE DEF TabFine, EntryFine, Alone
    <3> QED BY <1>1, <1>2, <1>4, <1>5, <2>3, <2>4, <2>5, <3>1, StageKeeps
  <2> QED BY <1>9, <2>6, <2>7
<1>10. CASE /\ journal[q] # NoEntry /\ journal[q].state \in {"applied", "returned", "failed"}
            /\ Answers(t, journal[q].state) /\ journal' = journal
  <2>1. PICK j \in EntryType \cup {NoEntry} : j = journal[q]
    BY <1>3
  <2>2. PICK s : s = journal[q].state
    OBVIOUS
  <2>3. journal' = [journal EXCEPT ![q] = j] /\ Answers(t, s)
    BY <1>3, <1>10, <2>1, <2>2
  <2>4. s \in {"applied", "returned", "failed"} /\ (s = "applied" => j # NoEntry /\ j.state = "applied")
        /\ (s # "applied" => j.state \in {"returned", "failed"})
        /\ (j # NoEntry => j.draft = tab[t].draft /\ EntryFine(j))
    BY <1>3, <1>10, <2>1, <2>2
  <2> HIDE DEF TabFine, EntryFine, Alone
  <2> QED BY <1>1, <1>2, <1>4, <1>5, <2>1, <2>3, <2>4, AnswerTabKeeps
<1> QED BY <1>1, <1>7, <1>8, <1>9, <1>10 DEF Enter

-----------------------------------------------------------------------------
(* The spreadsheet: what is closed stays closed *)

LEMMA SheetMoves ==
  ASSUME DraftInv, SheetOnward, draft' = draft, journal' = journal, tab' = tab, past' = past
  PROVE  DraftInv'
<1>0. /\ DraftTypeOK /\ NamedFine /\ OwnersFine
      /\ JournalFine /\ TabsFine /\ OneWorks /\ AloneOnce
      /\ AppliedKept /\ WritingHolds /\ CohortClosesLast
  BY DraftParts
<1>1. DraftTypeOK' /\ CohortClosesLast'
  BY <1>0 DEF DraftTypeOK, SheetOnward
<1>2. NamedFine' /\ OneWorks' /\ AloneOnce' /\ AppliedKept'
  BY <1>0 DEF NamedFine, OneWorks, AloneOnce, AppliedKept
<1>3. OwnersFine'
  BY <1>0 DEF OwnersFine, Claim
<1>4. TabsFine' /\ WritingHolds'
  BY <1>0 DEF TabsFine, TabFine, HeldBy, WritingHolds, Journaled, Untouched, KeepsDraft
<1>5. JournalFine'
  <2> SUFFICES ASSUME NEW q \in Applies, Journaled(q) PROVE EntryFine(journal[q])'
    BY DEF JournalFine, Journaled
  <2>1. PICK e \in EntryType : e = journal[q] /\ EntryFine(e)
    BY <1>0, EntryIs DEF JournalFine, Journaled
  <2>2. EntryFine(e)'
    BY <2>1, EntryOnward
  <2> QED BY <2>1, <2>2
<1> QED BY <1>1, <1>2, <1>3, <1>4, <1>5 DEF DraftInv

LEMMA SheetIs ==
  ASSUME DraftTypeOK
  PROVE  sheet \in Sheets /\ sheet.class \in ClassStates /\ sheet.cohort \in {"open", "closed"}
         /\ sheet.sibling \in BOOLEAN
BY DEF DraftTypeOK, Sheets

LEMMA EditSheetKeeps ==
  ASSUME DraftInv, EditSheet
  PROVE  DraftInv'
<1>1. sheet \in Sheets /\ sheet.cohort \in {"open", "closed"}
      /\ (sheet.cohort = "closed" => sheet.class = "closed")
  BY DraftParts, SheetIs DEF CohortClosesLast
<1>2. PICK x : x = sheet'
  OBVIOUS
<1>3. CASE sheet.class # "closed" /\ sheet' = [sheet EXCEPT !.class = IF @ = "open" THEN "edited" ELSE "open"]
  <2>1. x \in Sheets /\ x.class # "closed" /\ x.cohort = sheet.cohort
    BY <1>1, <1>2, <1>3 DEF Sheets, ClassStates
  <2>2. /\ \A p \in Parts : sheet[p] = "closed" => x[p] = "closed"
        /\ x.cohort = "closed" => x.class = "closed"
    BY <1>1, <1>3, <2>1 DEF Parts
  <2>3. SheetOnward
    BY <1>2, <2>1, <2>2 DEF SheetOnward, CohortClosesLast
  <2> QED BY <2>3, SheetMoves DEF EditSheet
<1>4. CASE sheet.cohort = "open" /\ sheet' = [sheet EXCEPT !.sibling = ~@]
  <2>1. x \in Sheets /\ x.class = sheet.class /\ x.cohort = sheet.cohort
    BY <1>1, <1>2, <1>4 DEF Sheets
  <2>2. /\ \A p \in Parts : sheet[p] = "closed" => x[p] = "closed"
        /\ x.cohort = "closed" => x.class = "closed"
    BY <1>1, <2>1 DEF Parts
  <2>3. SheetOnward
    BY <1>2, <2>1, <2>2 DEF SheetOnward, CohortClosesLast
  <2> QED BY <2>3, SheetMoves DEF EditSheet
<1> QED BY <1>3, <1>4 DEF EditSheet

(* The script writes over what it found or over its own value: a class that *)
(* somebody closed stays closed, and a cohort is closed after its class.    *)
LEMMA WriteKeeps ==
  ASSUME DraftInv, NEW t \in Tabs, Write(t)
  PROVE  DraftInv'
<1>1. PICK q : q = tab[t].request
  OBVIOUS
<1>2. tab[t] # Asleep /\ tab[t].at = "write"
  BY DEF Write, AtStage
<1>3. /\ q \in Applies /\ tab[t] \in TabType /\ TabFine(tab[t], journal[q])
      /\ journal[q] \in EntryType \cup {NoEntry} /\ tab[t].draft \in Drafts
      /\ journal[q] # NoEntry => journal[q].draft = tab[t].draft /\ EntryFine(journal[q])
      /\ tab \in [Tabs -> TabType \cup {Asleep}]
      /\ journal \in [Applies -> EntryType \cup {NoEntry}]
  BY <1>1, <1>2, CallOf
<1>4. journal[q] # NoEntry /\ journal[q].state \in {"prepared", "applying"}
      /\ NextPart(journal[q]) # "none" /\ NextPart(journal[q]) \in journal[q].started
  BY <1>2, <1>3 DEF TabFine, AtWork
<1>5. PICK p : p = NextPart(journal[q])
  OBVIOUS
<1>6. Alone(t)
  BY <1>2, DraftParts, WorksAlone DEF AtWork
<1>7. PICK e \in EntryType : e = journal[q] /\ EntryFine(e) /\ e.draft = tab[t].draft
  BY <1>3, <1>4
<1>8. e # NoEntry /\ journal' = [journal EXCEPT ![q] = e] /\ journal[q].state # "applied"
  BY <1>3, <1>4, <1>7 DEF Write
<1>9. draft' = draft /\ past' = past
  BY DEF Write
<1>10. CASE /\ Reconcilable(e, p) /\ Stage(t, "confirm")
            /\ sheet' = [sheet EXCEPT ![p] = After(tab[t].draft, p)]
  <2>1. PICK c : c = [tab[t] EXCEPT !.at = "confirm"]
    OBVIOUS
  <2>2. /\ c \in TabType /\ c.at = "confirm" /\ c.draft = tab[t].draft /\ c.request = q
    BY <1>1, <1>3, <2>1, StageFine DEF Stages
  <2>3. TabFine(c, e)
    <3>1. past[q].alone => HeldBy(tab[t].draft, q)
      BY <1>1, <1>3 DEF TabFine
    <3> QED BY <1>4, <1>7, <2>2, <3>1 DEF TabFine, AtWork
  <2>4. tab' = [tab EXCEPT ![t] = c]
    BY <1>3, <1>10, <2>1, StageIs
  <2>5. /\ p \in PartsOf(e.draft) /\ p \in Parts /\ p \notin e.written
        /\ p = "cohort" => "class" \in e.written
    BY <1>4, <1>5, <1>7, PartFine
  <2>6. /\ sheet \in Sheets /\ sheet.class \in ClassStates /\ sheet.cohort \in {"open", "closed"}
        /\ sheet.cohort = "closed" => sheet.class = "closed"
    BY DraftParts, SheetIs DEF CohortClosesLast
  <2>7. ASSUME p = "cohort" PROVE SheetOnward
    <3>1. KindOf[e.draft] = "close" /\ sheet.class = "closed"
      BY <1>3, <1>7, <2>5, <2>7, DraftAssumption DEF PartsOf, EntryFine
    <3>2. sheet' \in Sheets /\ sheet'.class = sheet.class /\ sheet'.cohort = "closed"
      BY <1>7, <1>10, <2>6, <2>7, <3>1 DEF Sheets, After
    <3>3. CohortClosesLast'
      BY <3>1, <3>2 DEF CohortClosesLast
    <3>4. \A r \in {"class", "cohort"} : sheet[r] = "closed" => sheet'[r] = "closed"
      BY <2>6, <3>2
    <3> QED BY <3>2, <3>3, <3>4 DEF SheetOnward, Parts
  <2>8. ASSUME p = "class" PROVE SheetOnward
    <3>1. sheet' \in Sheets /\ sheet'.class = After(e.draft, p) /\ sheet'.cohort = sheet.cohort
      BY <1>7, <1>10, <2>6, <2>8 DEF Sheets, After, ClassStates
    <3>2. sheet.class = "closed" => After(e.draft, p) = "closed"
      BY <1>7, <1>10, <2>8 DEF Reconcilable, EntryFine
    <3>3. CohortClosesLast'
      BY <2>6, <3>1, <3>2 DEF CohortClosesLast
    <3>4. \A r \in {"class", "cohort"} : sheet[r] = "closed" => sheet'[r] = "closed"
      BY <2>6, <3>1, <3>2
    <3> QED BY <3>1, <3>3, <3>4 DEF SheetOnward, Parts
  <2>9. SheetOnward
    <3>1. p \in {"class", "cohort"}
      BY <2>5 DEF Parts
    <3> QED BY <3>1, <2>7, <2>8
  <2>10. \A u \in Tabs : u # t /\ tab[u] # Asleep => ~AtWork(tab[u])
    BY <1>6 DEF Alone
  <2>11. c \in TabType \cup {Asleep} /\ e \in EntryType \cup {NoEntry}
    BY <2>2
  <2> HIDE DEF TabFine, EntryFine, AtWork
  <2> QED BY <1>1, <1>2, <1>3, <1>7, <1>8, <1>9, <2>2, <2>3, <2>4, <2>9, <2>10, <2>11, WriteMoves
<1>11. CASE ~Reconcilable(e, p) /\ Fades(t) /\ sheet' = sheet
  <2>1. tab' = [tab EXCEPT ![t] = Asleep] /\ Asleep \in TabType \cup {Asleep}
    BY <1>11 DEF Fades
  <2> HIDE DEF TabFine, EntryFine, Alone
  <2> QED BY <1>1, <1>2, <1>6, <1>7, <1>8, <1>9, <1>11, <2>1, StageKeeps
<1> QED BY <1>1, <1>5, <1>7, <1>10, <1>11 DEF Write, Part, Entry

-----------------------------------------------------------------------------
(* The draft: a person edits only one that holds no request *)

LEMMA DraftMoves ==
  ASSUME DraftInv, NEW d \in Drafts, NEW x \in DraftType, draft' = [draft EXCEPT ![d] = x],
         x.request = draft[d].request, x.status \in {"draft", "ready_for_review", "cancelled"},
         draft[d].status \in {"draft", "ready_for_review"},
         sheet' = sheet, journal' = journal, tab' = tab, past' = past
  PROVE  DraftInv'
<1>0. /\ DraftTypeOK /\ NamedFine /\ OwnersFine
      /\ JournalFine /\ TabsFine /\ OneWorks /\ AloneOnce
      /\ AppliedKept /\ WritingHolds /\ CohortClosesLast
  BY DraftParts
<1>1. DraftTypeOK'
  BY <1>0 DEF DraftTypeOK
<1>2. /\ \A f \in Drafts : f # d => draft'[f] = draft[f]
      /\ draft'[d] = x
      /\ \A f \in Drafts : draft'[f].request = draft[f].request
  BY <1>0 DEF DraftTypeOK
<1>3. NamedFine' /\ AppliedKept'
  BY <1>0, <1>2 DEF NamedFine, AppliedKept
<1>4. OwnersFine'
  BY <1>0, <1>2, OwnersStay DEF Claim
<1>5. JournalFine' /\ OneWorks' /\ AloneOnce' /\ CohortClosesLast'
  BY <1>0 DEF JournalFine, EntryFine, Journaled, OneWorks, AloneOnce, CohortClosesLast
<1>6. TabsFine'
  <2> SUFFICES ASSUME NEW u \in Tabs, tab[u] # Asleep
               PROVE  TabFine(tab[u], journal[tab[u].request])'
    BY DEF TabsFine
  <2>1. TabFine(tab[u], journal[tab[u].request]) /\ tab[u].draft \in Drafts
    BY <1>0, TabIs DEF TabsFine
  <2>2. HeldBy(tab[u].draft, tab[u].request) => HeldBy(tab[u].draft, tab[u].request)'
    BY <1>2, <2>1 DEF HeldBy
  <2> QED BY <2>1, <2>2 DEF TabFine
<1>7. WritingHolds'
  <2> SUFFICES ASSUME NEW q \in Applies, Journaled(q), past[q].alone, ~Untouched(journal[q])
               PROVE  KeepsDraft(q)'
    BY DEF WritingHolds, Journaled, Untouched
  <2>1. KeepsDraft(q) /\ journal[q].draft \in Drafts
    BY <1>0, EntryIs DEF WritingHolds, Journaled
  <2> QED BY <1>2, <2>1 DEF KeepsDraft
<1> QED BY <1>1, <1>3, <1>4, <1>5, <1>6, <1>7 DEF DraftInv

LEMMA EditsKeep ==
  ASSUME DraftInv, NEW d \in Drafts, SaveDraft(d) \/ SubmitDraft(d) \/ CancelDraft(d)
  PROVE  DraftInv'
<1>1. /\ DraftTypeOK /\ draft[d] \in DraftType /\ draft[d].rev \in Nat /\ sheet.class \in ClassStates
      /\ draft \in [Drafts -> DraftType]
  BY DraftParts, DraftIs, SheetIs DEF DraftTypeOK
<1>2. PICK n \in Nat : n = draft[d].rev + 1
  BY <1>1
<1>3. CASE SaveDraft(d)
  <2>1. PICK x : x = [draft[d] EXCEPT !.seen = sheet.class, !.rev = n]
    OBVIOUS
  <2>2. x \in DraftType /\ x.request = draft[d].request /\ x.status = draft[d].status
    BY <1>1, <2>1 DEF DraftType
  <2>3. draft' = [draft EXCEPT ![d] = x] /\ draft[d].status = "draft"
    BY <1>1, <1>2, <1>3, <2>1 DEF SaveDraft
  <2>4. sheet' = sheet /\ journal' = journal /\ tab' = tab /\ past' = past
    BY <1>3 DEF SaveDraft
  <2> QED BY <2>2, <2>3, <2>4, DraftMoves
<1>4. ASSUME NEW from \in {"draft", "ready_for_review"}, NEW to \in {"ready_for_review", "cancelled"},
             draft[d].status = from,
             draft' = [draft EXCEPT ![d].status = to, ![d].rev = @ + 1],
             sheet' = sheet, journal' = journal, tab' = tab, past' = past
      PROVE  DraftInv'
  <2>1. PICK x : x = [draft[d] EXCEPT !.status = to, !.rev = n]
    OBVIOUS
  <2>2. x \in DraftType /\ x.request = draft[d].request /\ x.status = to
    BY <1>1, <2>1 DEF DraftType, Statuses
  <2>3. draft' = [draft EXCEPT ![d] = x]
    BY <1>1, <1>2, <1>4, <2>1
  <2> QED BY <1>4, <2>2, <2>3, DraftMoves
<1>5. CASE SubmitDraft(d)
  BY <1>4, <1>5 DEF SubmitDraft, Revise
<1>6. CASE CancelDraft(d)
  BY <1>4, <1>6 DEF CancelDraft, Revise
<1> QED BY <1>3, <1>5, <1>6

(* A new call of a request that its draft names *)

LEMMA CallBegins ==
  ASSUME DraftInv, NEW d \in Drafts, NEW q \in Applies, NEW t \in Tabs, tab[t] = Asleep,
         NEW c \in TabType, c.at = "sent", c.draft = d, c.request = q,
         tab' = [tab EXCEPT ![t] = c], journal' = journal, sheet' = sheet,
         DraftTypeOK', NamedFine', OwnersFine', AppliedKept',
         HeldBy(d, q)', \A f \in Drafts : f # d => draft'[f] = draft[f],
         draft' = draft \/ draft[d].status = "ready_for_review",
         \A r \in Applies : past'[r].alone => past[r].alone,
         past'[q].alone => CallsOf(q) = {}
  PROVE  DraftInv'
<1>0. /\ DraftTypeOK /\ JournalFine /\ TabsFine /\ OneWorks /\ AloneOnce
      /\ WritingHolds /\ CohortClosesLast
  BY DraftParts
<1>1. /\ tab'[t] = c /\ c # Asleep
      /\ \A u \in Tabs : u # t => tab'[u] = tab[u]
  BY <1>0, DraftValues DEF DraftTypeOK
<1>2. JournalFine' /\ CohortClosesLast'
  BY <1>0 DEF JournalFine, EntryFine, Journaled, CohortClosesLast
<1>3. OneWorks'
  BY <1>0, <1>1 DEF OneWorks, AtWork
<1>4. \A u \in Tabs : u # t /\ tab[u] # Asleep /\ tab[u].request = q => ~past'[q].alone
  BY DEF CallsOf
<1>5. AloneOnce'
  <2> SUFFICES ASSUME NEW u \in Tabs, NEW v \in Tabs, tab'[u] # Asleep, tab'[v] # Asleep,
                      tab'[u].request = tab'[v].request, past'[tab'[u].request].alone, u # v
               PROVE  FALSE
    BY DEF AloneOnce
  <2>1. CASE u = t \/ v = t
    BY <2>1, <1>1, <1>4
  <2>2. CASE u # t /\ v # t
    <3>1. tab[u] # Asleep /\ tab[v] # Asleep /\ tab[u].request = tab[v].request
          /\ tab[u].request \in Applies /\ past'[tab[u].request].alone
      BY <2>2, <1>0, <1>1, TabIs
    <3> QED BY <3>1, <1>0 DEF AloneOnce
  <2> QED BY <2>1, <2>2
<1>6. \A f \in Drafts, r \in Applies : HeldBy(f, r) => HeldBy(f, r)'
  BY DEF HeldBy
<1>7. TabsFine'
  <2> SUFFICES ASSUME NEW u \in Tabs, tab'[u] # Asleep
               PROVE  TabFine(tab[u], journal[tab[u].request])'
    BY DEF TabsFine
  <2>1. CASE u = t
    <3>1. TabFine(c, journal[q])'
      BY DEF TabFine, AtWork
    <3> QED BY <2>1, <3>1, <1>1
  <2>2. CASE u # t
    <3>1. tab'[u] = tab[u] /\ tab[u] # Asleep /\ TabFine(tab[u], journal[tab[u].request])
          /\ tab[u].draft \in Drafts /\ tab[u].request \in Applies
      BY <2>2, <1>0, <1>1, TabIs DEF TabsFine
    <3>2. PICK b : b = tab[u]
      OBVIOUS
    <3>3. b \in TabType /\ TabFine(b, journal[b.request])
          /\ b.draft \in Drafts /\ b.request \in Applies /\ tab'[u] = b
      BY <1>0, <3>1, <3>2, TabIs
    <3>4. TabFine(b, journal[b.request])'
      BY <1>6, <3>3 DEF TabFine
    <3> QED BY <3>3, <3>4
  <2> QED BY <2>1, <2>2
<1>8. WritingHolds'
  <2> SUFFICES ASSUME NEW r \in Applies, Journaled(r), past'[r].alone, ~Untouched(journal[r])
               PROVE  KeepsDraft(r)'
    BY DEF WritingHolds, Journaled, Untouched
  <2>1. KeepsDraft(r) /\ journal[r].draft \in Drafts
    BY <1>0, EntryIs DEF WritingHolds, Journaled
  <2> QED BY <2>1 DEF KeepsDraft
<1> QED BY <1>2, <1>3, <1>5, <1>7, <1>8 DEF DraftInv

LEMMA SentIs ==
  ASSUME DraftTypeOK, NEW d \in Drafts, NEW q \in Applies, NEW n \in Nat,
         NEW c, c = [at |-> "sent", draft |-> d, request |-> q, rev |-> n,
                     seen |-> draft[d].seen, reply |-> "none", waits |-> TRUE]
  PROVE  c \in TabType /\ c.at = "sent" /\ c.draft = d /\ c.request = q
<1>1. draft[d].seen \in ClassStates
  BY DraftIs
<1> QED BY <1>1 DEF TabType, Stages

LEMMA ApproveKeeps ==
  ASSUME DraftInv, NEW t \in Tabs, NEW d \in Drafts, NEW q \in Applies, Approve(t, d, q)
  PROVE  DraftInv'
<1>0. /\ DraftTypeOK /\ NamedFine /\ OwnersFine /\ AppliedKept
      /\ draft \in [Drafts -> DraftType] /\ draft[d] \in DraftType /\ draft[d].rev \in Nat
      /\ past \in [Applies -> [used : BOOLEAN, alone : BOOLEAN, released : BOOLEAN]]
      /\ tab \in [Tabs -> TabType \cup {Asleep}]
  BY DraftParts, DraftIs DEF DraftTypeOK
<1>1. PICK n \in Nat : n = draft[d].rev + 1
  BY <1>0
<1>2. PICK c : c = [at |-> "sent", draft |-> d, request |-> q, rev |-> n,
                    seen |-> draft[d].seen, reply |-> "none", waits |-> TRUE]
  OBVIOUS
<1>3. c \in TabType /\ c.at = "sent" /\ c.draft = d /\ c.request = q
  BY <1>0, <1>2, SentIs
<1>4. tab[t] = Asleep /\ tab' = [tab EXCEPT ![t] = c] /\ journal' = journal /\ sheet' = sheet
  BY <1>1, <1>2 DEF Approve, Sends
<1>5. PICK x : x = [draft[d] EXCEPT !.status = "approved_pending_apply", !.rev = n, !.request = q]
  OBVIOUS
<1>6. x \in DraftType /\ x.status = "approved_pending_apply" /\ x.request = q
  BY <1>0, <1>5 DEF DraftType, Statuses
<1>7. draft' = [draft EXCEPT ![d] = x] /\ draft[d].status = "ready_for_review"
  BY <1>0, <1>1, <1>5 DEF Approve
<1>8. draft'[d] = x /\ \A f \in Drafts : f # d => draft'[f] = draft[f]
  BY <1>0, <1>7
<1>9. past' = [past EXCEPT ![q].used = TRUE] /\ ~past[q].used
  BY DEF Approve
<1>10. /\ past' \in [Applies -> [used : BOOLEAN, alone : BOOLEAN, released : BOOLEAN]]
       /\ past'[q].used
       /\ \A r \in Applies : past'[r].alone = past[r].alone
       /\ \A r \in Applies : r # q => past'[r] = past[r]
  BY <1>0, <1>9
<1>11. DraftTypeOK'
  <2>1. draft' \in [Drafts -> DraftType] /\ tab' \in [Tabs -> TabType \cup {Asleep}]
    BY <1>0, <1>3, <1>4, <1>6, <1>7
  <2> QED BY <1>0, <1>4, <1>10, <2>1 DEF DraftTypeOK
<1>12. q # NoApply
  BY DraftAssumption
<1>13. NamedFine' /\ AppliedKept'
  BY <1>0, <1>4, <1>6, <1>8, <1>12 DEF NamedFine, AppliedKept
<1>14. \A f \in Drafts : ~Claim(f, q)
  BY <1>0, <1>9 DEF OwnersFine
<1>15. \A r \in Applies, f \in Drafts : Claim(f, r)' => Claim(f, r) \/ (f = d /\ r = q)
  <2> SUFFICES ASSUME NEW r \in Applies, NEW f \in Drafts, Claim(f, r)', ~(f = d /\ r = q)
               PROVE  Claim(f, r)
    OBVIOUS
  <2>1. CASE draft'[f].request = r
    BY <2>1, <1>6, <1>8 DEF Claim
  <2>2. CASE \E u \in Tabs : tab'[u] # Asleep /\ tab'[u].draft = f /\ tab'[u].request = r
    BY <2>2, <1>0, <1>3, <1>4 DEF Claim
  <2>3. CASE journal'[r] # NoEntry /\ journal'[r].draft = f
    BY <2>3, <1>4 DEF Claim
  <2> QED BY <2>1, <2>2, <2>3 DEF Claim
<1>16. OwnersFine'
  <2> SUFFICES ASSUME NEW r \in Applies, NEW f \in Drafts, Claim(f, r)'
               PROVE  past'[r].used /\ \A g \in Drafts : Claim(g, r)' => g = f
    BY DEF OwnersFine
  <2>1. CASE r = q
    BY <2>1, <1>10, <1>14, <1>15
  <2>2. CASE r # q
    BY <2>2, <1>0, <1>10, <1>15 DEF OwnersFine
  <2> QED BY <2>1, <2>2
<1>17. HeldBy(d, q)'
  BY <1>6, <1>8 DEF HeldBy
<1>18. CallsOf(q) = {}
  <2> SUFFICES ASSUME NEW u \in Tabs, tab[u] # Asleep, tab[u].request = q PROVE FALSE
    BY DEF CallsOf
  <2>1. tab[u].draft \in Drafts
    BY <1>0, TabIs
  <2> QED BY <2>1, <1>14 DEF Claim
<1> QED BY <1>3, <1>4, <1>7, <1>8, <1>10, <1>11, <1>13, <1>16, <1>17, <1>18, CallBegins

LEMMA ReplayKeeps ==
  ASSUME DraftInv, NEW t \in Tabs, NEW d \in Drafts, Replay(t, d)
  PROVE  DraftInv'
<1>0. /\ DraftTypeOK /\ NamedFine /\ OwnersFine /\ AppliedKept
      /\ draft[d] \in DraftType /\ draft[d].rev \in Nat
      /\ past \in [Applies -> [used : BOOLEAN, alone : BOOLEAN, released : BOOLEAN]]
      /\ tab \in [Tabs -> TabType \cup {Asleep}]
  BY DraftParts, DraftIs DEF DraftTypeOK
<1>1. PICK q \in Applies : q = draft[d].request
  BY <1>0, DraftIs DEF Replay, NamedFine
<1>2. PICK c : c = [at |-> "sent", draft |-> d, request |-> q, rev |-> draft[d].rev,
                    seen |-> draft[d].seen, reply |-> "none", waits |-> TRUE]
  OBVIOUS
<1>3. c \in TabType /\ c.at = "sent" /\ c.draft = d /\ c.request = q
  BY <1>0, <1>2, SentIs
<1>4. /\ tab[t] = Asleep /\ tab' = [tab EXCEPT ![t] = c]
      /\ journal' = journal /\ sheet' = sheet /\ draft' = draft
  BY <1>1, <1>2 DEF Replay, Sends
<1>5. PICK a \in BOOLEAN : a = (past[q].alone /\ CallsOf(q) = {})
  OBVIOUS
<1>6. past' = [past EXCEPT ![q].alone = a]
  BY <1>1, <1>5 DEF Replay
<1>7. /\ past' \in [Applies -> [used : BOOLEAN, alone : BOOLEAN, released : BOOLEAN]]
      /\ past'[q].alone = a
      /\ \A r \in Applies : past'[r].used = past[r].used
      /\ \A r \in Applies : r # q => past'[r] = past[r]
  BY <1>0, <1>6
<1>8. (\A r \in Applies : past'[r].alone => past[r].alone) /\ (past'[q].alone => CallsOf(q) = {})
  BY <1>5, <1>7
<1>9. DraftTypeOK'
  <2>1. tab' \in [Tabs -> TabType \cup {Asleep}]
    BY <1>0, <1>3, <1>4
  <2> QED BY <1>0, <1>4, <1>7, <2>1 DEF DraftTypeOK
<1>10. NamedFine' /\ AppliedKept'
  BY <1>0, <1>4 DEF NamedFine, AppliedKept
<1>11. \A r \in Applies, f \in Drafts : Claim(f, r)' => Claim(f, r)
  <2> SUFFICES ASSUME NEW r \in Applies, NEW f \in Drafts, Claim(f, r)' PROVE Claim(f, r)
    OBVIOUS
  <2>1. CASE draft'[f].request = r
    BY <2>1, <1>4 DEF Claim
  <2>2. CASE \E u \in Tabs : tab'[u] # Asleep /\ tab'[u].draft = f /\ tab'[u].request = r
    BY <2>2, <1>0, <1>1, <1>3, <1>4 DEF Claim
  <2>3. CASE journal'[r] # NoEntry /\ journal'[r].draft = f
    BY <2>3, <1>4 DEF Claim
  <2> QED BY <2>1, <2>2, <2>3 DEF Claim
<1>12. OwnersFine'
  BY <1>0, <1>7, <1>11, OwnersStay
<1>13. HeldBy(d, q)'
  BY <1>1, <1>4 DEF HeldBy, Replay
<1> QED BY <1>3, <1>4, <1>8, <1>9, <1>10, <1>12, <1>13, CallBegins

-----------------------------------------------------------------------------
(* The answer: it settles the draft only as it was claimed *)

LEMMA SettleKeeps ==
  ASSUME DraftInv, NEW t \in Tabs, SettleDraft(t)
  PROVE  DraftInv'
<1>0. /\ DraftTypeOK /\ NamedFine /\ OwnersFine
      /\ JournalFine /\ TabsFine /\ OneWorks /\ AloneOnce
      /\ AppliedKept /\ WritingHolds /\ CohortClosesLast
      /\ draft \in [Drafts -> DraftType]
      /\ past \in [Applies -> [used : BOOLEAN, alone : BOOLEAN, released : BOOLEAN]]
  BY DraftParts DEF DraftTypeOK
<1>1. PICK q : q = tab[t].request
  OBVIOUS
<1>2. tab[t] # Asleep /\ tab[t].at = "answered" /\ journal' = journal /\ sheet' = sheet
      /\ tab' = [tab EXCEPT ![t] = Asleep]
  BY DEF SettleDraft, AtStage, Fades
<1>3. /\ q \in Applies /\ tab[t] \in TabType /\ TabFine(tab[t], journal[q])
      /\ journal[q] \in EntryType \cup {NoEntry}
      /\ journal[q] # NoEntry => journal[q].draft = tab[t].draft /\ EntryFine(journal[q])
      /\ tab \in [Tabs -> TabType \cup {Asleep}]
      /\ tab[t].draft \in Drafts /\ tab[t].reply \in {"none", "applied", "returned", "failed"}
  BY <1>0, <1>1, <1>2, CallOf, TabIs
<1>4. CASE ~SameClaim(t)
  <2>1. draft' = draft /\ past' = past
    BY <1>4 DEF SettleDraft
  <2>2. PICK j \in EntryType \cup {NoEntry} : j = journal[q]
    BY <1>3
  <2>3. journal' = [journal EXCEPT ![q] = j]
    BY <1>0, <1>2, <2>2 DEF DraftTypeOK
  <2>4. Asleep \in TabType \cup {Asleep}
    OBVIOUS
  <2> HIDE DEF TabFine, AtWork, EntryFine
  <2> QED BY <1>1, <1>2, <1>3, <2>1, <2>2, <2>3, <2>4, CallMoves
<1>5. CASE SameClaim(t)
  <2>1. PICK d \in Drafts : d = tab[t].draft
    BY <1>3
  <2>2. PICK reply \in {"applied", "returned", "failed"} : reply = tab[t].reply
    BY <1>2, <1>3 DEF TabFine
  <2>3. HeldBy(d, q)
    BY <1>1, <1>5, <2>1 DEF SameClaim, HeldBy
  <2>4. PICK n \in Nat : n = draft[d].rev + 1
    BY <1>0, DraftIs
  <2>5. PICK x : x = [draft[d] EXCEPT !.status = IF reply = "returned" THEN "draft" ELSE reply,
                                      !.rev = n]
    OBVIOUS
  <2>6. draft[d] \in DraftType
    BY <1>0
  <2>7. /\ x \in DraftType /\ x.request = q
        /\ x.status = IF reply = "returned" THEN "draft" ELSE reply
    BY <2>3, <2>5, <2>6 DEF DraftType, Statuses, HeldBy
  <2>8. draft' = [draft EXCEPT ![d] = x]
    BY <1>0, <1>5, <2>1, <2>2, <2>4, <2>5 DEF SettleDraft
  <2>9. draft'[d] = x /\ \A f \in Drafts : f # d => draft'[f] = draft[f]
    BY <1>0, <2>8
  <2>10. past' = [past EXCEPT ![q].released = past[q].released \/ reply # "applied"]
    BY <1>0, <1>1, <1>3, <1>5, <2>1, <2>2 DEF SettleDraft
  <2>11. /\ past' \in [Applies -> [used : BOOLEAN, alone : BOOLEAN, released : BOOLEAN]]
         /\ \A r \in Applies : past'[r].alone = past[r].alone /\ past'[r].used = past[r].used
    <3>1. PICK a \in BOOLEAN : a = (past[q].released \/ reply # "applied")
      OBVIOUS
    <3> QED BY <1>0, <1>3, <2>10, <3>1
  <2>12. /\ tab' \in [Tabs -> TabType \cup {Asleep}] /\ tab'[t] = Asleep
         /\ \A u \in Tabs : u # t => tab'[u] = tab[u]
    BY <1>2, <1>3
  <2>13. DraftTypeOK'
    BY <1>0, <1>2, <2>7, <2>8, <2>11, <2>12 DEF DraftTypeOK
  <2>14. NamedFine'
    <3>1. q # NoApply
      BY <1>3, DraftAssumption
    <3> QED BY <1>0, <2>7, <2>9, <3>1 DEF NamedFine
  <2>15. AppliedKept'
    <3> SUFFICES ASSUME NEW f \in Drafts, draft'[f].status = "applied"
                 PROVE  LET e == journal[draft'[f].request] IN
                        e # NoEntry /\ e.draft = f /\ e.state = "applied"
      BY <1>2 DEF AppliedKept
    <3>1. CASE f = d
      <4>1. reply = "applied" /\ draft'[f].request = q
        BY <2>7, <2>9, <3>1
      <4>2. journal[q] # NoEntry /\ journal[q].state = "applied"
        BY <1>2, <1>3, <2>2, <4>1 DEF TabFine
      <4> QED BY <1>3, <2>1, <3>1, <4>1, <4>2
    <3>2. CASE f # d
      BY <1>0, <2>9, <3>2 DEF AppliedKept
    <3> QED BY <3>1, <3>2
  <2>16. OwnersFine'
    <3>1. \A f \in Drafts : draft'[f].request = draft[f].request
      BY <2>3, <2>7, <2>9 DEF HeldBy
    <3> SUFFICES ASSUME NEW r \in Applies, NEW f \in Drafts, Claim(f, r)' PROVE Claim(f, r)
      BY <1>0, <2>11, OwnersStay
    <3>2. CASE draft'[f].request = r
      BY <3>1, <3>2 DEF Claim
    <3>3. CASE \E u \in Tabs : tab'[u] # Asleep /\ tab'[u].draft = f /\ tab'[u].request = r
      BY <3>3, <2>12 DEF Claim
    <3>4. CASE journal'[r] # NoEntry /\ journal'[r].draft = f
      BY <3>4, <1>2 DEF Claim
    <3> QED BY <3>2, <3>3, <3>4 DEF Claim
  <2>17. JournalFine' /\ CohortClosesLast'
    BY <1>0, <1>2 DEF JournalFine, EntryFine, Journaled, CohortClosesLast
  <2>18. OneWorks'
    BY <1>0, <2>12 DEF OneWorks
  <2>19. \A u \in Tabs : tab'[u] # Asleep =>
            u # t /\ tab[u] # Asleep /\ tab'[u] = tab[u] /\ tab[u].request \in Applies
            /\ tab[u].draft \in Drafts
    BY <1>0, <2>12, TabIs
  <2>20. AloneOnce'
    BY <1>0, <2>11, <2>19 DEF AloneOnce
  <2>21. TabsFine'
    <3> SUFFICES ASSUME NEW u \in Tabs, tab'[u] # Asleep
                 PROVE  TabFine(tab[u], journal[tab[u].request])'
      BY DEF TabsFine
    <3>1. PICK b \in TabType : b = tab[u]
      BY <1>0, <2>19, TabIs
    <3>2. PICK e : e = journal[b.request]
      OBVIOUS
    <3>3. TabFine(b, e) /\ b.request \in Applies /\ b.draft \in Drafts /\ tab'[u] = b
          /\ journal'[b.request] = e
      BY <1>0, <1>2, <2>19, <3>1, <3>2 DEF TabsFine
    <3>4. ASSUME past[b.request].alone, HeldBy(b.draft, b.request) PROVE HeldBy(b.draft, b.request)'
      <4>1. CASE b.draft = d
        <5>1. b.request = q
          BY <2>3, <3>4, <4>1 DEF HeldBy
        <5> QED BY <1>0, <1>1, <1>2, <2>19, <3>1, <3>4, <5>1 DEF AloneOnce
      <4>2. CASE b.draft # d
        BY <2>9, <3>3, <3>4, <4>2 DEF HeldBy
      <4> QED BY <4>1, <4>2
    <3>5. TabFine(b, e)'
      BY <2>11, <3>3, <3>4 DEF TabFine
    <3> QED BY <3>3, <3>5
  <2>22. WritingHolds'
    <3> SUFFICES ASSUME NEW r \in Applies, Journaled(r), past[r].alone, ~Untouched(journal[r])
                 PROVE  KeepsDraft(r)'
      BY <1>2, <2>11 DEF WritingHolds, Journaled, Untouched
    <3>1. KeepsDraft(r) /\ journal[r].draft \in Drafts
      BY <1>0, EntryIs DEF WritingHolds, Journaled
    <3>2. CASE journal[r].draft = d
      <4>1. r = q
        BY <2>3, <3>1, <3>2 DEF KeepsDraft, HeldBy
      <4>2. reply = "applied"
        BY <1>1, <1>2, <1>3, <2>2, <4>1 DEF TabFine, EntryFine, Journaled, Untouched
      <4> QED BY <1>2, <2>7, <2>9, <3>2, <4>1, <4>2 DEF KeepsDraft
    <3>3. CASE journal[r].draft # d
      BY <1>2, <2>9, <3>1, <3>3 DEF KeepsDraft
    <3> QED BY <3>2, <3>3
  <2> QED BY <2>13, <2>14, <2>15, <2>16, <2>17, <2>18, <2>20, <2>21, <2>22 DEF DraftInv
<1> QED BY <1>4, <1>5

-----------------------------------------------------------------------------
(* The theorems *)

LEMMA DraftStutters == ASSUME DraftInv, UNCHANGED applyVars PROVE DraftInv'
<1>0. /\ DraftTypeOK /\ NamedFine /\ OwnersFine
      /\ JournalFine /\ TabsFine /\ OneWorks /\ AloneOnce
      /\ AppliedKept /\ WritingHolds /\ CohortClosesLast
  BY DraftParts
<1> USE DEF applyVars
<1>1. DraftTypeOK' /\ CohortClosesLast' /\ NamedFine' /\ AppliedKept'
  BY <1>0 DEF DraftTypeOK, CohortClosesLast, NamedFine, AppliedKept
<1>2. OwnersFine'
  BY <1>0 DEF OwnersFine, Claim
<1>3. JournalFine'
  BY <1>0 DEF JournalFine, EntryFine, Journaled
<1>4. TabsFine'
  BY <1>0 DEF TabsFine, TabFine, HeldBy, AtWork
<1>5. OneWorks' /\ AloneOnce'
  BY <1>0 DEF OneWorks, AloneOnce, AtWork
<1>6. WritingHolds'
  BY <1>0 DEF WritingHolds, Journaled, Untouched, KeepsDraft
<1> QED BY <1>1, <1>2, <1>3, <1>4, <1>5, <1>6 DEF DraftInv

LEMMA DraftStep == DraftInv /\ [DraftNext]_applyVars => DraftInv'
<1> SUFFICES ASSUME DraftInv, [DraftNext]_applyVars PROVE DraftInv'
  OBVIOUS
<1>1. CASE UNCHANGED applyVars
  BY <1>1, DraftStutters
<1>2. CASE \E d \in Drafts : SaveDraft(d) \/ SubmitDraft(d) \/ CancelDraft(d)
  BY <1>2, EditsKeep
<1>3. CASE \E d \in Drafts, t \in Tabs : Replay(t, d) \/ \E q \in Applies : Approve(t, d, q)
  BY <1>3, ReplayKeeps, ApproveKeeps
<1>4. CASE \E t \in Tabs : Enter(t) \/ Check(t) \/ RefusePart(t) \/ Write(t) \/ Confirm(t)
  BY <1>4, EnterKeeps, CheckKeeps, RefusePartKeeps, WriteKeeps, ConfirmKeeps
<1>5. CASE \E t \in Tabs : Record(t) \/ Lose(t) \/ StopWaiting(t) \/ SettleDraft(t)
  BY <1>5, RecordKeeps, LoseKeeps, StopWaitingKeeps, SettleKeeps
<1>6. CASE EditSheet
  BY <1>6, EditSheetKeeps
<1> QED BY <1>1, <1>2, <1>3, <1>4, <1>5, <1>6 DEF DraftNext

LEMMA DraftInvSound == DraftInv => DraftsSound
<1> SUFFICES ASSUME DraftInv PROVE DraftsSound
  OBVIOUS
<1>0. /\ DraftTypeOK /\ NamedFine /\ JournalFine /\ AppliedKept /\ WritingHolds /\ CohortClosesLast
  BY DraftParts
<1>1. AppliedWhole
  <2> SUFFICES ASSUME NEW d \in Drafts, draft[d].status = "applied", NEW e,
                      e = journal[draft[d].request]
               PROVE  /\ e # NoEntry /\ e.draft = d /\ e.state = "applied" /\ e.written = PartsOf(d)
                      /\ KindOf[d] = "close" => sheet.class = "closed" /\ sheet.cohort = "closed"
    BY DEF AppliedWhole
  <2>1. draft[d].request \in Applies
    BY <1>0, DraftIs DEF NamedFine
  <2>2. e # NoEntry /\ e.draft = d /\ e.state = "applied" /\ EntryFine(e)
    BY <1>0, <2>1 DEF AppliedKept, JournalFine, Journaled
  <2>3. e.written = PartsOf(d)
    BY <2>2 DEF EntryFine
  <2>4. ASSUME KindOf[d] = "close" PROVE sheet.class = "closed" /\ sheet.cohort = "closed"
    <3>1. \A p \in {"class", "cohort"} : sheet[p] = "closed"
      BY <2>2, <2>3, <2>4 DEF EntryFine, PartsOf, Parts
    <3> QED BY <3>1
  <2> QED BY <2>2, <2>3, <2>4
<1>2. RefusedIsBlank
  BY <1>0 DEF RefusedIsBlank, JournalFine, EntryFine
<1> QED BY <1>0, <1>1, <1>2 DEF DraftsSound

LEMMA DraftInvHolds == DraftSpec => []DraftInv
<1> QED BY DraftStart, DraftStep, PTL DEF DraftSpec

(* The types of the drafts, the spreadsheet, the journal of the gateway and *)
(* every apply under way (draft-store.ts, draft-apply-store.ts).            *)
THEOREM DraftsTyped == DraftSpec => []DraftTypeOK
<1>1. DraftInv => DraftTypeOK
  BY DEF DraftInv
<1> QED BY <1>1, DraftInvHolds, PTL

(* Whatever is lost, stopped or repeated, a draft that says applied was     *)
(* written whole by the request it names, a request whose calls do not      *)
(* overlap holds its draft from its first mark on, a refused one wrote      *)
(* nothing, and a cohort is closed after its class (draft-apply-store.ts,   *)
(* apps-script/LibrarianGateway.gs).                                        *)
THEOREM DraftsSafe == DraftSpec => []DraftsSound
<1> QED BY DraftInvSound, DraftInvHolds, PTL

-----------------------------------------------------------------------------
(* Copies of literature: the inductive invariant                            *)

(* What is true of a plan from the reads to the batch: the shelf of a copy  *)
(* is the one read while its version is, a row that was chosen is new or of *)
(* this copy and this reader, a copy to be registered is not there yet.     *)
ShelfRead(p) ==
    /\ p.cver <= book[p.book].ver
    /\ book[p.book].ver = p.cver => book[p.book].shelf = p.shelf
RowOf(l, b, m) == lending[l].status # "none" => lending[l].of = b /\ lending[l].by = m
LentHere == {b \in Waiting : OpenOn(lending, b) # {}}
DeskFine(p) ==
    /\ p.op = "activate" => edition.held \/ p.lent = Cardinality(LentHere)
    /\ p.op = "issue" => ShelfRead(p) /\ RowOf(p.row, p.book, p.by)
    /\ p.op = "return" => lending[p.row].status # "none" /\ lending[p.row].of = p.book
    /\ p.op = "register" => edition.held /\ book[p.book].reg = "none"
    /\ p.op = "move" => ShelfRead(p) /\ p.to # p.shelf
    /\ p.op = "receive" => edition.twin
DesksFine == \A d \in Desks : desk[d] # Rested => DeskFine(desk[d])
(* two desks never work on one new row *)
RowsDiffer(p, q) ==
    /\ p.op = "issue" /\ q.op = "issue" /\ p.row = q.row => lending[p.row].status # "none"
    /\ p.op = "register" /\ q.op = "register" => p.book # q.book
DesksDiffer ==
    \A d, e \in Desks : d # e /\ desk[d] # Rested /\ desk[e] # Rested => RowsDiffer(desk[d], desk[e])

(* Before it is brought into the stock the edition has no copies there, and *)
(* none but its own afterwards.                                             *)
EditionFine ==
    /\ \A b \in Books : book[b].reg # (IF edition.held THEN "source" ELSE "registered")
    /\ edition.held \/ edition.twin \/ \A s \in Shelves : standing[s] = 0
    /\ MainShelf \in usable
BooksFine ==
    \A b \in Books :
        /\ book[b].at = "withdrawn" => book[b].reg = "registered"
        /\ book[b].reg = "none" => book[b].ver = 0
        /\ book[b].reg = "registered" => CopyAgrees(book, lending, b)
        /\ book[b].reg = "registered" /\ book[b].at # "withdrawn" => book[b].shelf \in usable

(* A copy has one claim at most, by a reader who is not archived.           *)
HoldsCopy(r) == r.status \in {"reserved", "issued"}
LendingFine(l, r) ==
    /\ r.status # "none" => r.of \in Books /\ r.by \in Members
    /\ edition.held /\ r.of \in Books => r.native
    /\ HoldsCopy(r) => edition.state # "archived" /\ (l \in OldLendings \/ member[r.by].on)
LendingsFine == \A l \in Lendings : LendingFine(l, lending[l])
OneClaim ==
    \A k, l \in Lendings : HoldsCopy(lending[k]) /\ HoldsCopy(lending[l]) /\ lending[k].of = lending[l].of => k = l
WishesFine == WishesMet /\ \A w \in Wishes : wish[w].met = NoLending <=> wish[w].status # "fulfilled"

(* Shelves and open loans add up to the copies there are.                   *)
StockOf(bs) == {b \in Books : bs[b].reg = "registered" /\ bs[b].at # "withdrawn"}
StockCounted(bs, ls, st) ==
    /\ \A s \in Shelves : st[s] = Cardinality(OnShelf(bs, s))
    /\ Sum(st, Shelves) + Lent(ls) = Cardinality(StockOf(bs))
CountsFine == edition.held => StockCounted(book, lending, standing) /\ tally = TallyOf(standing, lending)

CopyRowsFine == EditionFine /\ BooksFine /\ LendingsFine /\ OneClaim /\ WishesFine /\ CountsFine
CopiesInv == CopiesTypeOK /\ CopyRowsFine /\ DesksFine /\ DesksDiffer

(* What no step undoes, and so what a desk may still rely on. *)
CopiesOnward ==
    /\ edition'.twin = edition.twin /\ (edition.held => edition'.held)
    /\ \A b \in Books : book'[b] = book[b] \/ book'[b].ver > book[b].ver
    /\ ~edition'.held => \A b \in Books : /\ book'[b].reg = book[b].reg
                                          /\ OpenOn(lending', b) = OpenOn(lending, b)
    /\ \A l \in Lendings : lending[l].status # "none" => lending'[l].status # "none"
    /\ CirculationStep
NotTaken(p) ==
    /\ p.op = "issue" /\ lending[p.row].status = "none" => lending'[p.row].status = "none"
    /\ p.op = "register" => book'[p.book].reg = book[p.book].reg
DesksStay == \A e \in Desks : desk'[e] # Rested => desk'[e] = desk[e] /\ NotTaken(desk[e])

-----------------------------------------------------------------------------
(* Counting copies *)

In(x, S) == IF x \in S THEN 1 ELSE 0

(* Two sets that differ in one element at most. *)
LEMMA CountSwap ==
  ASSUME NEW S, NEW T, NEW x, IsFiniteSet(S), S \ {x} = T \ {x}
  PROVE  /\ Cardinality(S) \in Nat /\ Cardinality(T) \in Nat
         /\ Cardinality(T) = Cardinality(S) + In(x, T) - In(x, S)
<1>1. /\ IsFiniteSet(S \ {x})
      /\ Cardinality(S \ {x}) = IF x \in S THEN Cardinality(S) - 1 ELSE Cardinality(S)
  BY FS_RemoveElement
<1>2. IsFiniteSet(T \ {x})
  BY <1>1
<1>3. IsFiniteSet((T \ {x}) \cup {x})
  BY <1>2, FS_AddElement
<1>4. IsFiniteSet(T)
  BY <1>3, FS_Subset
<1>5. Cardinality(T \ {x}) = IF x \in T THEN Cardinality(T) - 1 ELSE Cardinality(T)
  BY <1>4, FS_RemoveElement
<1>6. Cardinality(S) \in Nat
  BY FS_CardinalityType
<1>7. Cardinality(T) \in Nat
  BY <1>4, FS_CardinalityType
<1> QED BY <1>1, <1>5, <1>6, <1>7 DEF In

LEMMA CopySetsFinite ==
  ASSUME NEW bs, NEW ls
  PROVE  /\ IsFiniteSet(StockOf(bs)) /\ Cardinality(StockOf(bs)) \in Nat
         /\ \A s : IsFiniteSet(OnShelf(bs, s)) /\ Cardinality(OnShelf(bs, s)) \in Nat
         /\ IsFiniteSet({l \in Lendings : ls[l].status = "issued" /\ ls[l].native})
         /\ Lent(ls) \in Nat
<1>1. \A T \in SUBSET Books : IsFiniteSet(T)
  BY CopyFinite, FS_Subset
<1>2. \A T \in SUBSET Lendings : IsFiniteSet(T)
  BY CopyFinite, FS_Subset
<1>3. IsFiniteSet(StockOf(bs))
  BY <1>1 DEF StockOf
<1>4. ASSUME NEW s PROVE IsFiniteSet(OnShelf(bs, s)) /\ Cardinality(OnShelf(bs, s)) \in Nat
  <2>1. IsFiniteSet(OnShelf(bs, s))
    BY <1>1 DEF OnShelf
  <2> QED BY <2>1, FS_CardinalityType
<1>5. IsFiniteSet({l \in Lendings : ls[l].status = "issued" /\ ls[l].native})
  BY <1>2
<1>6. Cardinality(StockOf(bs)) \in Nat
  BY <1>3, FS_CardinalityType
<1>7. Lent(ls) \in Nat
  BY <1>5, FS_CardinalityType DEF Lent
<1> QED BY <1>3, <1>4, <1>5, <1>6, <1>7

LoanOut(r) == IF r.status = "issued" /\ r.native THEN 1 ELSE 0
Stock(r) == IF r.reg = "registered" /\ r.at # "withdrawn" THEN 1 ELSE 0
Stood(r, s) == IF r.reg = "registered" /\ r.at = "on_shelf" /\ r.shelf = s THEN 1 ELSE 0

(* One copy and one loan change: what the counts become. *)
LEMMA OneCopyChanges ==
  ASSUME NEW bs, NEW cs, NEW b \in Books, \A c \in Books \ {b} : cs[c] = bs[c]
  PROVE  /\ Cardinality(StockOf(cs)) = Cardinality(StockOf(bs)) + Stock(cs[b]) - Stock(bs[b])
         /\ \A s : Cardinality(OnShelf(cs, s))
                     = Cardinality(OnShelf(bs, s)) + Stood(cs[b], s) - Stood(bs[b], s)
<1>1. StockOf(bs) \ {b} = StockOf(cs) \ {b} /\ IsFiniteSet(StockOf(bs))
  BY CopySetsFinite DEF StockOf
<1>2. In(b, StockOf(cs)) = Stock(cs[b]) /\ In(b, StockOf(bs)) = Stock(bs[b])
  BY DEF In, Stock, StockOf
<1>3. Cardinality(StockOf(cs)) = Cardinality(StockOf(bs)) + In(b, StockOf(cs)) - In(b, StockOf(bs))
  BY <1>1, CountSwap
<1>4. ASSUME NEW s
      PROVE  Cardinality(OnShelf(cs, s))
                     = Cardinality(OnShelf(bs, s)) + Stood(cs[b], s) - Stood(bs[b], s)
  <2>1. OnShelf(bs, s) \ {b} = OnShelf(cs, s) \ {b}
    BY DEF OnShelf
  <2>2. In(b, OnShelf(cs, s)) = Stood(cs[b], s) /\ In(b, OnShelf(bs, s)) = Stood(bs[b], s)
    BY DEF In, Stood, OnShelf
  <2>3. IsFiniteSet(OnShelf(bs, s))
    BY CopySetsFinite
  <2>4. Cardinality(OnShelf(cs, s))
          = Cardinality(OnShelf(bs, s)) + In(b, OnShelf(cs, s)) - In(b, OnShelf(bs, s))
    BY <2>1, <2>3, CountSwap
  <2> QED BY <2>2, <2>4
<1> QED BY <1>2, <1>3, <1>4

LEMMA OneLoanChanges ==
  ASSUME NEW ls, NEW ms, NEW l \in Lendings, \A k \in Lendings \ {l} : ms[k] = ls[k]
  PROVE  Lent(ms) = Lent(ls) + LoanOut(ms[l]) - LoanOut(ls[l])
<1> DEFINE S == {k \in Lendings : ls[k].status = "issued" /\ ls[k].native}
           T == {k \in Lendings : ms[k].status = "issued" /\ ms[k].native}
<1>1. IsFiniteSet(S)
  BY CopySetsFinite
<1>2. S \ {l} = T \ {l}
  OBVIOUS
<1>3. In(l, T) = LoanOut(ms[l]) /\ In(l, S) = LoanOut(ls[l])
  BY DEF In, LoanOut
<1>4. Lent(ls) = Cardinality(S) /\ Lent(ms) = Cardinality(T)
  BY DEF Lent
<1> HIDE DEF S, T
<1>5. Cardinality(T) = Cardinality(S) + In(l, T) - In(l, S)
  BY <1>1, <1>2, CountSwap
<1> QED BY <1>3, <1>4, <1>5

LEMMA ShelfSums ==
  ASSUME NEW st \in [Shelves -> Nat]
  PROVE  /\ Sum(st, Shelves) \in Nat
         /\ \A s \in Shelves : /\ Onto(st, s) \in [Shelves -> Nat]
                               /\ Sum(Onto(st, s), Shelves) = Sum(st, Shelves) + 1
         /\ \A s \in Shelves : st[s] > 0 => /\ Less(st, s) \in [Shelves -> Nat]
                                            /\ Sum(Less(st, s), Shelves) = Sum(st, Shelves) - 1
<1>1. Sum(st, Shelves) \in Nat
  BY CopyFinite, SumIsNat
<1>2. ASSUME NEW tt \in [Shelves -> Nat], NEW s \in Shelves, NEW d \in Int,
             \A x \in Shelves : tt[x] = IF x = s THEN st[x] + d ELSE st[x]
      PROVE  Sum(tt, Shelves) = Sum(st, Shelves) + d
  <2>1. Sum(tt, Shelves) = Sum(st, Shelves) + (tt[s] - st[s])
    <3>1. \A x \in Shelves : st[x] \in Int /\ tt[x] \in Int
      OBVIOUS
    <3>2. \A x \in Shelves : x # s => st[x] = tt[x]
      BY <1>2
    <3> QED BY <3>1, <3>2, CopyFinite, SumChange
  <2> QED BY <1>1, <1>2, <2>1
<1>3. ASSUME NEW s \in Shelves
      PROVE  Onto(st, s) \in [Shelves -> Nat] /\ Sum(Onto(st, s), Shelves) = Sum(st, Shelves) + 1
  <2>1. Onto(st, s) \in [Shelves -> Nat]
    BY DEF Onto
  <2>2. \A x \in Shelves : Onto(st, s)[x] = IF x = s THEN st[x] + 1 ELSE st[x]
    BY DEF Onto
  <2> QED BY <1>2, <2>1, <2>2
<1>4. ASSUME NEW s \in Shelves, st[s] > 0
      PROVE  Less(st, s) \in [Shelves -> Nat] /\ Sum(Less(st, s), Shelves) = Sum(st, Shelves) - 1
  <2>1. Less(st, s) \in [Shelves -> Nat]
    BY <1>4 DEF Less
  <2>2. \A x \in Shelves : Less(st, s)[x] = IF x = s THEN st[x] + (-1) ELSE st[x]
    BY DEF Less
  <2>3. Sum(Less(st, s), Shelves) = Sum(st, Shelves) + (-1)
    BY <1>2, <2>1, <2>2
  <2> QED BY <1>1, <2>1, <2>3
<1> QED BY <1>1, <1>3, <1>4

-----------------------------------------------------------------------------
(* Desks *)

LEMMA CopiesParts ==
  ASSUME CopiesInv
  PROVE  /\ edition \in EditionType /\ book \in [Books -> BookType]
         /\ lending \in [Lendings -> LendingType] /\ standing \in [Shelves -> Nat]
         /\ tally \in [total : Nat, lent : Nat] /\ usable \in SUBSET Shelves
         /\ member \in [Members -> [on : BOOLEAN, ver : Nat]] /\ wish \in [Wishes -> WishType]
         /\ desk \in [Desks -> DeskPlan \cup {Rested}]
         /\ EditionFine /\ BooksFine /\ LendingsFine /\ OneClaim /\ WishesFine /\ CountsFine
         /\ DesksFine /\ DesksDiffer
BY DEF CopiesInv, CopiesTypeOK, CopyRowsFine

LEMMA BookIs ==
  ASSUME NEW r \in BookType
  PROVE  /\ r.reg \in {"none", "source", "registered"}
         /\ r.at \in {"unknown", "on_shelf", "on_loan", "withdrawn"}
         /\ r.shelf \in Shelves \cup {Nowhere} /\ r.ver \in Nat
BY DEF BookType

LEMMA LendingIs ==
  ASSUME NEW r \in LendingType
  PROVE  /\ r.status \in {"none", "reserved", "issued", "returned", "cancelled"}
         /\ r.of \in Books \cup {NoBook} /\ r.by \in Members \cup {NoMember}
         /\ r.native \in BOOLEAN /\ r.ver \in Nat
BY DEF LendingType

LEMMA PlanIs ==
  ASSUME NEW p \in DeskPlan
  PROVE  /\ p.op \in {"activate", "issue", "return", "register", "move", "receive"}
         /\ p.op = "activate" => p.ever \in Nat /\ p.match \in BOOLEAN /\ p.copies \in Nat /\ p.lent \in Nat
         /\ p.op = "issue" => /\ p.book \in Books /\ p.cver \in Nat /\ p.shelf \in Shelves
                              /\ p.rest \in Nat /\ p.by \in Members /\ p.mver \in Nat
                              /\ p.row \in Lendings /\ p.rver \in Nat /\ p.for \in Wishes \cup {NoWish}
         /\ p.op = "return" => /\ p.book \in Books /\ p.cver \in Nat /\ p.row \in Lendings
                               /\ p.rver \in Nat /\ p.shelf \in Shelves
         /\ p.op = "register" => p.book \in Books /\ p.ever \in Nat /\ p.shelf \in Shelves
         /\ p.op = "move" => /\ p.book \in Books /\ p.cver \in Nat /\ p.shelf \in Shelves
                             /\ p.rest \in Nat /\ p.to \in Shelves \cup {Nowhere}
         /\ p.op = "receive" => p.shelf \in Shelves /\ p.rest \in Nat
BY DEF DeskPlan

LEMMA DeskStaysFine ==
  ASSUME CopiesInv, CopiesOnward, book' \in [Books -> BookType], NEW p \in DeskPlan, DeskFine(p), NotTaken(p)
  PROVE  DeskFine(p)'
<1>1. ASSUME NEW b \in Books, NEW v \in Nat, NEW s, ShelfRead([book |-> b, cver |-> v, shelf |-> s])
      PROVE  v <= book'[b].ver /\ (book'[b].ver = v => book'[b].shelf = s)
  <2>1. v <= book[b].ver /\ (book[b].ver = v => book[b].shelf = s)
    BY <1>1 DEF ShelfRead
  <2>2. book[b].ver \in Nat /\ book'[b].ver \in Nat
    BY CopiesParts, BookIs
  <2>3. book'[b] = book[b] \/ book'[b].ver > book[b].ver
    BY DEF CopiesOnward
  <2> QED BY <2>1, <2>2, <2>3
<1>2. CASE p.op = "activate"
  <2>1. CASE edition'.held
    BY <1>2, <2>1 DEF DeskFine
  <2>2. CASE ~edition'.held
    <3>1. ~edition.held /\ p.lent = Cardinality(LentHere)
      BY <1>2, <2>2 DEF CopiesOnward, DeskFine
    <3>2. LentHere' = LentHere
      BY <2>2 DEF CopiesOnward, LentHere, Waiting
    <3> QED BY <1>2, <3>1, <3>2 DEF DeskFine
  <2> QED BY <2>1, <2>2
<1>3. CASE p.op = "issue"
  <2>1. p.book \in Books /\ p.cver \in Nat /\ p.row \in Lendings
    BY <1>3, PlanIs
  <2>2. p.cver <= book'[p.book].ver /\ (book'[p.book].ver = p.cver => book'[p.book].shelf = p.shelf)
    BY <1>1, <1>3, <2>1 DEF DeskFine, ShelfRead
  <2>3. ShelfRead(p)'
    BY <2>2 DEF ShelfRead
  <2>4. RowOf(p.row, p.book, p.by)'
    BY <1>3, <2>1 DEF DeskFine, RowOf, NotTaken, CopiesOnward, CirculationStep
  <2> QED BY <1>3, <2>3, <2>4 DEF DeskFine
<1>4. CASE p.op = "move"
  <2>1. p.book \in Books /\ p.cver \in Nat
    BY <1>4, PlanIs
  <2>2. p.cver <= book'[p.book].ver /\ (book'[p.book].ver = p.cver => book'[p.book].shelf = p.shelf)
    BY <1>1, <1>4, <2>1 DEF DeskFine, ShelfRead
  <2>3. ShelfRead(p)'
    BY <2>2 DEF ShelfRead
  <2> QED BY <1>4, <2>3 DEF DeskFine
<1>5. CASE p.op = "return"
  <2>1. p.row \in Lendings
    BY <1>5, PlanIs
  <2>2. lending[p.row].status # "none" /\ lending[p.row].of = p.book
    BY <1>5 DEF DeskFine
  <2>3. lending'[p.row].status # "none" /\ lending'[p.row].of = p.book
    BY <2>1, <2>2 DEF CopiesOnward, CirculationStep
  <2> QED BY <1>5, <2>3 DEF DeskFine
<1>6. CASE p.op = "register"
  <2>1. edition'.held /\ book'[p.book].reg = "none"
    BY <1>6 DEF DeskFine, NotTaken, CopiesOnward
  <2> QED BY <1>6, <2>1 DEF DeskFine
<1>7. CASE p.op = "receive"
  BY <1>7 DEF DeskFine, CopiesOnward
<1> QED BY <1>2, <1>3, <1>4, <1>5, <1>6, <1>7, PlanIs

LEMMA DesksKeep ==
  ASSUME CopiesInv, CopiesOnward, DesksStay, book' \in [Books -> BookType]
  PROVE  DesksFine' /\ DesksDiffer'
<1>1. ASSUME NEW e \in Desks, desk'[e] # Rested
      PROVE  /\ desk'[e] = desk[e] /\ desk[e] # Rested /\ desk[e] \in DeskPlan
             /\ DeskFine(desk[e]) /\ NotTaken(desk[e])
  BY <1>1, CopiesParts DEF DesksStay, DesksFine
<1>2. ASSUME NEW e \in Desks, desk'[e] # Rested, NEW c, c = desk'[e] PROVE DeskFine(c)'
  <2>1. c \in DeskPlan /\ DeskFine(c) /\ NotTaken(c)
    BY <1>1, <1>2
  <2> QED BY <2>1, DeskStaysFine
<1>3. DesksFine'
  BY <1>2 DEF DesksFine
<1>4. ASSUME NEW e \in Desks, NEW f \in Desks, e # f, desk'[e] # Rested, desk'[f] # Rested,
             NEW c, NEW g, c = desk'[e], g = desk'[f]
      PROVE  RowsDiffer(c, g)'
  <2>1. RowsDiffer(c, g) /\ c \in DeskPlan
    BY <1>1, <1>4, CopiesParts DEF DesksDiffer
  <2>2. c.op = "issue" => c.row \in Lendings
    BY <2>1, PlanIs
  <2> QED BY <2>1, <2>2 DEF RowsDiffer, CopiesOnward
<1>5. DesksDiffer'
  BY <1>4 DEF DesksDiffer
<1> QED BY <1>3, <1>5

(* A handler that reads: its plan has to be true, and of a row that no     *)
(* other desk has chosen.                                                  *)
LEMMA ReadsKeep ==
  ASSUME CopiesInv, NEW d \in Desks, NEW p \in DeskPlan, Reads(d, p), DeskFine(p),
         \A e \in Desks : e # d /\ desk[e] # Rested => RowsDiffer(p, desk[e]) /\ RowsDiffer(desk[e], p)
  PROVE  CopiesInv' /\ CopiesOnward
<1>1. /\ desk \in [Desks -> DeskPlan \cup {Rested}] /\ desk' = [desk EXCEPT ![d] = p]
      /\ UNCHANGED <<edition, book, lending, standing, tally, usable, member, wish>>
  BY CopiesParts DEF Reads
<1>2. CopiesTypeOK' /\ CopyRowsFine'
  <2>1. desk' \in [Desks -> DeskPlan \cup {Rested}]
    BY <1>1
  <2>2. CopiesTypeOK'
    BY <1>1, <2>1, CopiesParts DEF CopiesTypeOK
  <2>3. /\ (EditionFine' <=> EditionFine) /\ (BooksFine' <=> BooksFine)
        /\ (LendingsFine' <=> LendingsFine) /\ (OneClaim' <=> OneClaim)
        /\ (WishesFine' <=> WishesFine) /\ (CountsFine' <=> CountsFine)
    BY <1>1 DEF EditionFine, BooksFine, LendingsFine, LendingFine, OneClaim, WishesFine, WishesMet,
                CountsFine
  <2> QED BY <2>2, <2>3, CopiesParts DEF CopyRowsFine
<1>3. CopiesOnward
  BY <1>1 DEF CopiesOnward, CirculationStep
<1>4. \A c : DeskFine(c)' <=> DeskFine(c)
  BY <1>1 DEF DeskFine, ShelfRead, RowOf, LentHere, Waiting
<1>5. \A c, e : RowsDiffer(c, e)' <=> RowsDiffer(c, e)
  BY <1>1 DEF RowsDiffer
<1>6. ASSUME NEW e \in Desks PROVE desk'[e] = IF e = d THEN p ELSE desk[e]
  BY <1>1
<1>7. DesksFine'
  <2> SUFFICES ASSUME NEW e \in Desks, desk'[e] # Rested, NEW c, c = desk'[e] PROVE DeskFine(c)'
    BY DEF DesksFine
  <2> QED BY <1>4, <1>6, CopiesParts DEF DesksFine
<1>8. DesksDiffer'
  <2> SUFFICES ASSUME NEW e \in Desks, NEW f \in Desks, e # f, desk'[e] # Rested, desk'[f] # Rested,
                      NEW c, NEW g, c = desk'[e], g = desk'[f]
               PROVE  RowsDiffer(c, g)'
    BY DEF DesksDiffer
  <2> QED BY <1>5, <1>6, CopiesParts DEF DesksDiffer
<1> QED BY <1>2, <1>3, <1>7, <1>8 DEF CopiesInv

-----------------------------------------------------------------------------
(* One loan changes and no copy *)

(* What a row may become without a batch on its copy: nothing is lent or    *)
(* given back by it, and a claim it makes is the only one.                  *)
MayBecome(l, q, r) ==
    /\ r.status # "none" /\ LendingFine(l, r)
    /\ q.status # "none" => r.of = q.of /\ r.by = q.by
    /\ r.status = "issued" <=> q.status = "issued"
    /\ q.status = "issued" => r.native = q.native
    /\ q.status \in {"returned", "cancelled"} => r.status = q.status
    /\ HoldsCopy(r) => \A k \in Lendings : HoldsCopy(lending[k]) /\ lending[k].of = r.of => k = l

LEMMA LoanKeeps ==
  ASSUME CopiesInv, NEW l \in Lendings, NEW r \in LendingType, MayBecome(l, lending[l], r),
         lending' = [lending EXCEPT ![l] = r],
         lending[l].status = "none" => l \notin InPlans,
         UNCHANGED <<edition, book, standing, tally, usable, member, wish, desk>>
  PROVE  CopiesInv' /\ CopiesOnward
<1>1. \A k \in Lendings : lending'[k] = IF k = l THEN r ELSE lending[k]
  BY CopiesParts
<1>2. PICK q \in LendingType : q = lending[l]
  BY CopiesParts
<1>3. lending' \in [Lendings -> LendingType]
  BY CopiesParts
<1>4. CopiesTypeOK'
  BY <1>3, CopiesParts DEF CopiesTypeOK
<1>5. ASSUME NEW b \in Books
      PROVE  /\ OpenOn(lending', b) = OpenOn(lending, b)
             /\ \A k \in OpenOn(lending, b) : lending'[k].native = lending[k].native
  BY <1>1, <1>2 DEF OpenOn, MayBecome
<1>6. ASSUME NEW b \in Books PROVE CopyAgrees(book, lending', b) <=> CopyAgrees(book, lending, b)
  <2>1. {k \in OpenOn(lending', b) : lending'[k].native} = {k \in OpenOn(lending, b) : lending[k].native}
    BY <1>5
  <2> QED BY <1>5, <2>1 DEF CopyAgrees
<1>7. EditionFine' /\ BooksFine'
  BY <1>6, CopiesParts DEF EditionFine, BooksFine
<1>8. LendingsFine'
  <2> SUFFICES ASSUME NEW k \in Lendings, NEW c, c = lending'[k] PROVE LendingFine(k, c)'
    BY DEF LendingsFine
  <2>1. LendingFine(k, c)
    BY <1>1, CopiesParts DEF LendingsFine, MayBecome
  <2> QED BY <2>1 DEF LendingFine
<1>9. OneClaim'
  BY <1>1, CopiesParts DEF OneClaim, MayBecome
<1>10. WishesFine'
  <2>1. \A w \in Wishes : wish[w].status = "fulfilled" => wish[w].met \in Lendings
    BY CopiesParts DEF WishesFine, WishType
  <2>2. \A k \in Lendings : lending[k].status \in {"issued", "returned"} =>
             lending'[k].status \in {"issued", "returned"} /\ lending'[k].by = lending[k].by
    BY <1>1, <1>2 DEF MayBecome
  <2> QED BY <2>1, <2>2, CopiesParts DEF WishesFine, WishesMet
<1>11. Lent(lending') = Lent(lending)
  <2>1. LoanOut(r) = LoanOut(q)
    BY <1>2, <1>3 DEF LoanOut, MayBecome
  <2>2. Lent(lending') = Lent(lending) + LoanOut(lending'[l]) - LoanOut(lending[l])
    <3>1. \A k \in Lendings \ {l} : lending'[k] = lending[k]
      BY <1>1
    <3> QED BY <3>1, OneLoanChanges
  <2>3. Lent(lending) \in Nat
    BY CopySetsFinite
  <2> QED BY <1>1, <1>2, <2>1, <2>2, <2>3 DEF LoanOut
<1>12. CountsFine'
  BY <1>11, CopiesParts DEF CountsFine, StockCounted, TallyOf
<1>13. CirculationStep
  BY <1>1, <1>2 DEF CirculationStep, MayBecome
<1>14. CopiesOnward
  BY <1>1, <1>5, <1>13 DEF CopiesOnward, MayBecome
<1>15. DesksStay
  <2> SUFFICES ASSUME NEW e \in Desks, desk[e] # Rested PROVE NotTaken(desk[e])
    BY DEF DesksStay
  <2>1. desk[e].op = "issue" => desk[e].row \in InPlans
    BY DEF InPlans
  <2> QED BY <1>1, <2>1 DEF NotTaken
<1>16. DesksFine' /\ DesksDiffer'
  BY <1>14, <1>15, DesksKeep, CopiesParts
<1> QED BY <1>4, <1>7, <1>8, <1>9, <1>10, <1>12, <1>14, <1>16 DEF CopiesInv, CopyRowsFine

LEMMA ReserveKeeps ==
  ASSUME CopiesInv, NEW l \in Lendings, NEW b \in Books, NEW m \in Members, ReserveCopy(l, b, m)
  PROVE  CopiesInv' /\ CopiesOnward
<1>1. PICK r : r = [status |-> "reserved", of |-> b, by |-> m, native |-> TRUE, ver |-> 1]
  OBVIOUS
<1>2. r \in LendingType
  BY <1>1 DEF LendingType
<1>3. MayBecome(l, lending[l], r)
  BY <1>1 DEF ReserveCopy, NewRow, MayBecome, LendingFine, HoldsCopy, LiveOn
<1> QED BY <1>1, <1>2, <1>3, LoanKeeps DEF ReserveCopy, NewRow

LEMMA CancelKeeps ==
  ASSUME CopiesInv, NEW l \in Lendings, CancelReserve(l) \/ ChangeDue(l)
  PROVE  CopiesInv' /\ CopiesOnward
<1>1. PICK q \in LendingType : q = lending[l]
  BY CopiesParts
<1>2. LendingFine(l, q) /\ \A k \in Lendings : HoldsCopy(q) /\ HoldsCopy(lending[k]) /\ lending[k].of = q.of => k = l
  BY <1>1, CopiesParts DEF LendingsFine, OneClaim
<1>3. CASE CancelReserve(l)
  <2>1. PICK r : r = [q EXCEPT !.status = "cancelled", !.ver = @ + 1]
    OBVIOUS
  <2>2. r \in LendingType /\ r.status = "cancelled" /\ r.of = q.of /\ r.by = q.by /\ r.native = q.native
    <3>1. r = [status |-> "cancelled", of |-> q.of, by |-> q.by, native |-> q.native, ver |-> q.ver + 1]
      BY <2>1 DEF LendingType
    <3>2. q.ver + 1 \in Nat
      BY LendingIs
    <3> QED BY <3>1, <3>2, LendingIs DEF LendingType
  <2>3. MayBecome(l, q, r)
    BY <1>1, <1>2, <1>3, <2>2 DEF CancelReserve, MayBecome, LendingFine, HoldsCopy
  <2> QED BY <1>1, <1>3, <2>1, <2>2, <2>3, LoanKeeps DEF CancelReserve
<1>4. CASE ChangeDue(l)
  <2>1. PICK r : r = [q EXCEPT !.ver = @ + 1]
    OBVIOUS
  <2>2. r \in LendingType /\ r.status = q.status /\ r.of = q.of /\ r.by = q.by /\ r.native = q.native
    BY <2>1 DEF LendingType
  <2>3. MayBecome(l, q, r)
    BY <1>1, <1>2, <1>4, <2>2 DEF ChangeDue, MayBecome, LendingFine, HoldsCopy
  <2> QED BY <1>1, <1>4, <2>1, <2>2, <2>3, LoanKeeps DEF ChangeDue
<1> QED BY <1>3, <1>4

-----------------------------------------------------------------------------
(* A batch on one copy *)

LEMMA CountedMoves ==
  ASSUME CopiesInv, edition.held, NEW b \in Books, NEW bs,
         \A d \in Books \ {b} : bs[d] = book[d],
         NEW ls, NEW more \in Int, Lent(ls) = Lent(lending) + more,
         NEW st \in [Shelves -> Nat],
         \A s \in Shelves : st[s] = standing[s] + Stood(bs[b], s) - Stood(book[b], s),
         Sum(st, Shelves) + more = Sum(standing, Shelves) + Stock(bs[b]) - Stock(book[b])
  PROVE  StockCounted(bs, ls, st)
<1>1. StockCounted(book, lending, standing)
  BY CopiesParts DEF CountsFine
<1>4. /\ Cardinality(StockOf(bs)) = Cardinality(StockOf(book)) + Stock(bs[b]) - Stock(book[b])
      /\ \A s : Cardinality(OnShelf(bs, s))
                  = Cardinality(OnShelf(book, s)) + Stood(bs[b], s) - Stood(book[b], s)
  BY OneCopyChanges
<1>5. /\ Stock(bs[b]) \in {0, 1} /\ Stock(book[b]) \in {0, 1}
      /\ \A s : Stood(bs[b], s) \in {0, 1} /\ Stood(book[b], s) \in {0, 1}
  BY DEF Stock, Stood
<1>6. /\ Lent(lending) \in Nat /\ Cardinality(StockOf(book)) \in Nat
      /\ Sum(standing, Shelves) \in Nat /\ Sum(st, Shelves) \in Nat
  BY CopySetsFinite, ShelfSums, CopiesParts
<1>7. Sum(st, Shelves) + Lent(ls) = Cardinality(StockOf(bs))
  BY <1>1, <1>4, <1>5, <1>6 DEF StockCounted
<1>8. \A s \in Shelves : st[s] = Cardinality(OnShelf(bs, s))
  BY <1>1, <1>4 DEF StockCounted
<1> QED BY <1>7, <1>8 DEF StockCounted

(* The rows a batch on a copy may change are those of the copy.             *)
RowsOf(b, ls) ==
    \A k \in Lendings : ls[k] # lending[k] =>
        /\ ls[k].of = b /\ ls[k].status # "none"
        /\ lending[k].status # "none" => lending[k].of = b /\ ls[k].by = lending[k].by
        /\ lending[k].status \notin {"returned", "cancelled"}
ClaimOnce(ls) ==
    \A k, l \in Lendings : HoldsCopy(ls[k]) /\ HoldsCopy(ls[l]) /\ ls[k].of = ls[l].of => k = l

LEMMA BatchKeeps ==
  ASSUME CopiesInv, edition.held, NEW b \in Books, NEW c \in BookType, NEW bs, bs = [book EXCEPT ![b] = c],
         NEW ls \in [Lendings -> LendingType], NEW st \in [Shelves -> Nat],
         Written(bs, ls, st), UNCHANGED <<edition, usable, member>>,
         c.reg = "registered", c.ver > book[b].ver, c.at # "withdrawn" => c.shelf \in usable,
         book[b].at # "withdrawn", CopyAgrees(bs, ls, b), RowsOf(b, ls),
         \A k \in Lendings : LendingFine(k, ls[k]), ClaimOnce(ls),
         StockCounted(bs, ls, st), wish' \in [Wishes -> WishType], WishesFine',
         desk' \in [Desks -> DeskPlan \cup {Rested}], DesksStay
  PROVE  CopiesInv' /\ CopiesOnward
<1>1. book' = bs /\ lending' = ls /\ standing' = st /\ tally' = TallyOf(st, ls)
  BY DEF Written
<1>2. \A d \in Books : bs[d] = IF d = b THEN c ELSE book[d]
  BY CopiesParts
<1>3. bs \in [Books -> BookType]
  BY CopiesParts
<1>4. tally' \in [total : Nat, lent : Nat]
  <2>1. Sum(st, Shelves) \in Nat /\ Lent(ls) \in Nat
    BY ShelfSums, CopySetsFinite
  <2>2. tally' = [total |-> Sum(st, Shelves) + Lent(ls), lent |-> Lent(ls)]
    BY <1>1 DEF TallyOf, Sum
  <2> QED BY <2>1, <2>2
<1>5. CopiesTypeOK'
  BY <1>1, <1>3, <1>4, CopiesParts DEF CopiesTypeOK
<1>6. EditionFine'
  BY <1>1, <1>2, CopiesParts DEF EditionFine
<1>7. ASSUME NEW d \in Books, d # b
      PROVE  OpenOn(ls, d) = OpenOn(lending, d) /\ \A k \in OpenOn(ls, d) : ls[k] = lending[k]
  BY <1>7 DEF OpenOn, RowsOf
<1>8. ASSUME NEW d \in Books, bs[d].reg = "registered" PROVE CopyAgrees(bs, ls, d)
  <2>1. CASE d = b
    BY <2>1
  <2>2. CASE d # b
    <3>1. CopyAgrees(book, lending, d)
      BY <1>2, <1>8, <2>2, CopiesParts DEF BooksFine
    <3>2. {k \in OpenOn(ls, d) : ls[k].native} = {k \in OpenOn(lending, d) : lending[k].native}
      BY <1>7, <2>2
    <3> QED BY <1>2, <1>7, <2>2, <3>1, <3>2 DEF CopyAgrees
  <2> QED BY <2>1, <2>2
<1>9. BooksFine'
  BY <1>1, <1>2, <1>8, CopiesParts DEF BooksFine
<1>10. LendingsFine'
  <2> SUFFICES ASSUME NEW k \in Lendings, NEW r, r = lending'[k] PROVE LendingFine(k, r)'
    BY DEF LendingsFine
  <2>1. LendingFine(k, r)
    BY <1>1
  <2> QED BY <2>1 DEF LendingFine
<1>11. OneClaim'
  BY <1>1 DEF OneClaim, ClaimOnce
<1>12. CountsFine'
  BY <1>1 DEF CountsFine
<1>13. CirculationStep
  BY <1>1, <1>2, CopiesParts DEF CirculationStep, RowsOf
<1>14. CopiesOnward
  BY <1>1, <1>2, <1>13 DEF CopiesOnward, RowsOf
<1>15. DesksFine' /\ DesksDiffer'
  BY <1>1, <1>3, <1>14, DesksKeep
<1> QED BY <1>5, <1>6, <1>9, <1>10, <1>11, <1>12, <1>14, <1>15 DEF CopiesInv, CopyRowsFine

-----------------------------------------------------------------------------
(* The batches of the desks *)

LEMMA ShelvedFacts ==
  ASSUME CopiesInv, NEW b \in Books, Shelved(b)
  PROVE  /\ edition.held /\ book[b].shelf \in usable /\ book[b].shelf \in Shelves
         /\ OpenOn(lending, b) = {}
<1>1. book[b].reg = "registered" /\ book[b].at = "on_shelf"
  BY DEF Shelved
<1>2. edition.held
  BY <1>1, CopiesParts DEF EditionFine
<1>3. book[b].shelf \in usable /\ CopyAgrees(book, lending, b)
  BY <1>1, CopiesParts DEF BooksFine
<1> QED BY <1>1, <1>2, <1>3, CopiesParts DEF CopyAgrees

LEMMA IssueKeeps ==
  ASSUME CopiesInv, NEW p, IssueBatch(p), p.book \in Books, p.by \in Members, p.row \in Lendings,
         p.for \in Wishes \cup {NoWish}, p.shelf = book[p.book].shelf, RowOf(p.row, p.book, p.by),
         desk' \in [Desks -> DeskPlan \cup {Rested}], DesksStay
  PROVE  CopiesInv' /\ CopiesOnward
<1>1. PICK b \in Books, l \in Lendings, m \in Members : b = p.book /\ l = p.row /\ m = p.by
  OBVIOUS
<1>2. PICK o \in BookType, q \in LendingType : o = book[b] /\ q = lending[l]
  BY CopiesParts
<1>3. PICK c : c = [o EXCEPT !.at = "on_loan", !.ver = @ + 1]
  OBVIOUS
<1>4. PICK r : r = [status |-> "issued", of |-> b, by |-> m, native |-> TRUE, ver |-> q.ver + 1]
  OBVIOUS
<1>5. PICK bs, ls : bs = [book EXCEPT ![b] = c] /\ ls = [lending EXCEPT ![l] = r]
  OBVIOUS
<1>6. PICK s : s = o.shelf
  OBVIOUS
<1>7. /\ Shelved(b) /\ q.status \in {"none", "reserved"} /\ edition.state # "archived"
      /\ member[m].on /\ NotPromised(b, l) /\ RowOf(l, b, m)
  BY <1>1, <1>2 DEF IssueBatch, IssueRow
<1>8. /\ edition.held /\ s \in usable /\ s \in Shelves /\ OpenOn(lending, b) = {}
      /\ o.reg = "registered" /\ o.at = "on_shelf"
  BY <1>2, <1>6, <1>7, ShelvedFacts DEF Shelved
<1>9. /\ c \in BookType /\ c.reg = o.reg /\ c.at = "on_loan" /\ c.shelf = s /\ c.ver > o.ver
  <2>1. c = [reg |-> o.reg, at |-> "on_loan", shelf |-> o.shelf, ver |-> o.ver + 1]
    BY <1>3 DEF BookType
  <2> QED BY <1>6, <2>1, BookIs DEF BookType
<1>10. r \in LendingType
  BY <1>1, <1>4, LendingIs DEF LendingType
<1>11. /\ [book EXCEPT ![b].at = "on_loan", ![b].ver = @ + 1] = bs
       /\ [lending EXCEPT ![l] = [status |-> "issued", of |-> b, by |-> m, native |-> TRUE,
                                  ver |-> @.ver + 1]] = ls
  BY <1>2, <1>3, <1>4, <1>5, CopiesParts
<1>12. /\ Written(bs, ls, Less(standing, s)) /\ CopyAgrees(bs, ls, b) /\ Leaves(standing, s, p.rest)
       /\ UNCHANGED <<edition, usable, member>> /\ IssueWish(p)
  BY <1>1, <1>2, <1>6, <1>11 DEF IssueBatch
<1>13. ls \in [Lendings -> LendingType] /\ \A k \in Lendings : ls[k] = IF k = l THEN r ELSE lending[k]
  BY <1>5, <1>10, CopiesParts
<1>14. RowsOf(b, ls)
  BY <1>2, <1>4, <1>7, <1>13 DEF RowsOf, RowOf
<1>15. \A k \in Lendings : LendingFine(k, ls[k])
  <2>1. LendingFine(l, r)
    BY <1>4, <1>7 DEF LendingFine
  <2> QED BY <1>13, <2>1, CopiesParts DEF LendingsFine
<1>16. ClaimOnce(ls)
  <2>1. \A k \in Lendings \ {l} : HoldsCopy(lending[k]) => lending[k].of # b
    BY <1>7, <1>8 DEF NotPromised, LiveOn, OpenOn, HoldsCopy
  <2> QED BY <1>4, <1>13, <2>1, CopiesParts DEF ClaimOnce, OneClaim
<1>17. standing[s] > 0 /\ standing[s] \in Nat
  BY <1>8, <1>12, CopiesParts DEF Leaves
<1>18. Less(standing, s) \in [Shelves -> Nat] /\ Sum(Less(standing, s), Shelves) = Sum(standing, Shelves) - 1
  BY <1>8, <1>17, ShelfSums, CopiesParts
<1>19. bs[b] = c /\ \A d \in Books \ {b} : bs[d] = book[d]
  BY <1>5, CopiesParts
<1>20. StockCounted(bs, ls, Less(standing, s))
  <2>1. Lent(ls) = Lent(lending) + 1
    <3>1. Lent(ls) = Lent(lending) + LoanOut(ls[l]) - LoanOut(lending[l])
      <4>1. \A k \in Lendings \ {l} : ls[k] = lending[k]
        BY <1>13
      <4> QED BY <4>1, OneLoanChanges
    <3>2. LoanOut(ls[l]) = 1 /\ LoanOut(lending[l]) = 0
      BY <1>2, <1>4, <1>7, <1>13 DEF LoanOut
    <3>3. Lent(lending) \in Nat
      BY CopySetsFinite
    <3> QED BY <3>1, <3>2, <3>3
  <2>2. Stock(bs[b]) = 1 /\ Stock(book[b]) = 1
    BY <1>2, <1>8, <1>9, <1>19 DEF Stock
  <2>3. \A x \in Shelves : Stood(bs[b], x) = 0 /\ Stood(book[b], x) = IF x = s THEN 1 ELSE 0
    BY <1>2, <1>6, <1>8, <1>9, <1>19 DEF Stood
  <2>4. \A x \in Shelves : Less(standing, s)[x] = standing[x] + Stood(bs[b], x) - Stood(book[b], x)
    BY <2>3, CopiesParts DEF Less
  <2>5. Sum(standing, Shelves) \in Nat
    BY ShelfSums, CopiesParts
  <2>6. Sum(Less(standing, s), Shelves) + 1 = Sum(standing, Shelves) + Stock(bs[b]) - Stock(book[b])
    BY <1>18, <2>2, <2>5
  <2>7. 1 \in Int /\ edition.held
    BY <1>8
  <2> HIDE DEF Less
  <2> QED BY <1>18, <1>19, <2>1, <2>4, <2>6, <2>7, CountedMoves
<1>21. wish' \in [Wishes -> WishType] /\ WishesFine'
  <2>1. lending' = ls /\ wish \in [Wishes -> WishType] /\ WishesFine
    BY <1>12, CopiesParts DEF Written
  <2>2. /\ \A w \in Wishes : wish[w].status = "fulfilled" =>
             wish[w].met \in Lendings /\ wish[w].met # l
        /\ \A k \in Lendings \ {l} : lending'[k] = lending[k]
    BY <1>2, <1>7, <1>13, <2>1 DEF WishesFine, WishesMet, WishType
  <2>3. CASE p.for = NoWish
    <3>1. wish' = wish
      BY <1>12, <2>3 DEF IssueWish
    <3> QED BY <2>1, <2>2, <3>1 DEF WishesFine, WishesMet
  <2>4. CASE p.for # NoWish
    <3>1. PICK w \in Wishes : w = p.for
      BY <2>4
    <3>2. PICK v \in WishType : v = wish[w]
      BY <2>1
    <3>0. PICK n : n = [v EXCEPT !.status = "fulfilled", !.met = l]
      OBVIOUS
    <3>3. n = [status |-> "fulfilled", by |-> v.by, met |-> l]
      BY <3>0 DEF WishType
    <3>4. v.status \in {"requested", "ready"} /\ v.by = m
      BY <1>1, <1>12, <2>4, <3>1, <3>2 DEF IssueWish
    <3>5. wish' = [wish EXCEPT ![w] = n]
      <4>1. wish' = [wish EXCEPT ![w].status = "fulfilled", ![w].met = l]
        BY <1>1, <1>12, <2>4, <3>1 DEF IssueWish
      <4> QED BY <2>1, <3>0, <3>2, <4>1
    <3>6. n \in WishType
      BY <3>3 DEF WishType
    <3>7. \A x \in Wishes : wish'[x] = IF x = w THEN n ELSE wish[x]
      BY <2>1, <3>5
    <3>8. wish' \in [Wishes -> WishType]
      BY <2>1, <3>5, <3>6
    <3>9. lending'[l] = r /\ l # NoLending
      BY <1>13, <2>1, CopyValues
    <3>10. \A x \in Wishes : wish'[x].met = NoLending <=> wish'[x].status # "fulfilled"
      BY <2>1, <3>3, <3>7, <3>9 DEF WishesFine
    <3>11. WishesMet'
      <4> SUFFICES ASSUME NEW x \in Wishes, wish'[x].status = "fulfilled"
                   PROVE  /\ lending'[(wish'[x].met)].by = wish'[x].by
                          /\ lending'[(wish'[x].met)].status \in {"issued", "returned"}
                          /\ \A y \in Wishes \ {x} : wish'[y].met # wish'[x].met
        BY DEF WishesMet
      <4>1. CASE x = w
        <5>1. wish'[x] = n
          BY <3>7, <4>1
        <5>2. \A y \in Wishes \ {x} : wish'[y].met # l
          BY <2>1, <2>2, <3>7, <3>9, <4>1 DEF WishesFine
        <5> QED BY <1>4, <3>3, <3>4, <3>9, <5>1, <5>2
      <4>2. CASE x # w
        <5>1. wish'[x] = wish[x] /\ wish[x].met \in Lendings /\ wish[x].met # l
          BY <2>2, <3>7, <4>2
        <5>2. /\ lending[(wish[x].met)].by = wish[x].by
              /\ lending[(wish[x].met)].status \in {"issued", "returned"}
              /\ \A y \in Wishes \ {x} : wish[y].met # wish[x].met
          BY <2>1, <5>1 DEF WishesFine, WishesMet
        <5>3. \A y \in Wishes \ {x} : wish'[y].met # wish'[x].met
          BY <3>3, <3>7, <5>1, <5>2
        <5> QED BY <2>2, <5>1, <5>2, <5>3
      <4> QED BY <4>1, <4>2
    <3> QED BY <3>8, <3>10, <3>11 DEF WishesFine
  <2> QED BY <2>3, <2>4
<1>22. c.ver > book[b].ver /\ book[b].at # "withdrawn" /\ c.reg = "registered"
       /\ (c.at # "withdrawn" => c.shelf \in usable)
  BY <1>2, <1>8, <1>9
<1> QED
  BY <1>5, <1>8, <1>9, <1>12, <1>13, <1>14, <1>15, <1>16, <1>18, <1>20, <1>21, <1>22, BatchKeeps

LEMMA ReturnKeeps ==
  ASSUME CopiesInv, NEW p, ReturnBatch(p), p.book \in Books, p.row \in Lendings, p.shelf \in Shelves,
         lending[p.row].of = p.book, desk' \in [Desks -> DeskPlan \cup {Rested}], DesksStay
  PROVE  CopiesInv' /\ CopiesOnward
<1>1. PICK b \in Books, l \in Lendings, s \in Shelves : b = p.book /\ l = p.row /\ s = p.shelf
  OBVIOUS
<1>2. PICK o \in BookType, q \in LendingType : o = book[b] /\ q = lending[l]
  BY CopiesParts
<1>3. PICK c : c = [o EXCEPT !.at = "on_shelf", !.shelf = s, !.ver = @ + 1]
  OBVIOUS
<1>4. PICK r : r = [q EXCEPT !.status = "returned", !.ver = @ + 1]
  OBVIOUS
<1>5. PICK bs, ls : bs = [book EXCEPT ![b] = c] /\ ls = [lending EXCEPT ![l] = r]
  OBVIOUS
<1>6. q.status = "issued" /\ q.of = b /\ o.at = "on_loan" /\ s \in usable
  BY <1>1, <1>2 DEF ReturnBatch
<1>7. /\ [book EXCEPT ![b].at = "on_shelf", ![b].shelf = s, ![b].ver = @ + 1] = bs
      /\ [lending EXCEPT ![l].status = "returned", ![l].ver = @ + 1] = ls
  BY <1>2, <1>3, <1>4, <1>5, CopiesParts
<1>8. /\ Written(bs, ls, Onto(standing, s)) /\ CopyAgrees(bs, ls, b)
      /\ UNCHANGED <<edition, usable, member, wish>>
  BY <1>1, <1>7 DEF ReturnBatch
<1>9. /\ c \in BookType /\ c.reg = o.reg /\ c.at = "on_shelf" /\ c.shelf = s /\ c.ver > o.ver
  <2>1. c = [reg |-> o.reg, at |-> "on_shelf", shelf |-> s, ver |-> o.ver + 1]
    BY <1>3 DEF BookType
  <2> QED BY <2>1, BookIs DEF BookType
<1>10. /\ r \in LendingType /\ r.status = "returned" /\ r.of = b /\ r.by = q.by /\ r.native = q.native
  <2>1. r = [status |-> "returned", of |-> q.of, by |-> q.by, native |-> q.native, ver |-> q.ver + 1]
    BY <1>4 DEF LendingType
  <2>2. q.ver + 1 \in Nat
    BY LendingIs
  <2> QED BY <1>6, <2>1, <2>2, LendingIs DEF LendingType
<1>11. bs[b] = c /\ \A d \in Books \ {b} : bs[d] = book[d]
  BY <1>5, CopiesParts
<1>12. o.reg = "registered"
  BY <1>8, <1>9, <1>11 DEF CopyAgrees
<1>13. edition.held /\ q.native
  <2>1. edition.held
    BY <1>2, <1>12, CopiesParts DEF EditionFine
  <2> QED BY <1>2, <1>6, <2>1, CopiesParts DEF LendingsFine, LendingFine
<1>14. ls \in [Lendings -> LendingType] /\ \A k \in Lendings : ls[k] = IF k = l THEN r ELSE lending[k]
  BY <1>5, <1>10, CopiesParts
<1>15. RowsOf(b, ls)
  BY <1>2, <1>6, <1>10, <1>14 DEF RowsOf
<1>16. \A k \in Lendings : LendingFine(k, ls[k])
  <2>1. LendingFine(l, r)
    BY <1>2, <1>6, <1>10, CopiesParts DEF LendingsFine, LendingFine, HoldsCopy
  <2> QED BY <1>14, <2>1, CopiesParts DEF LendingsFine
<1>17. ClaimOnce(ls)
  BY <1>10, <1>14, CopiesParts DEF ClaimOnce, OneClaim, HoldsCopy
<1>18. /\ Onto(standing, s) \in [Shelves -> Nat]
       /\ Sum(Onto(standing, s), Shelves) = Sum(standing, Shelves) + 1
  BY ShelfSums, CopiesParts
<1>19. StockCounted(bs, ls, Onto(standing, s))
  <2>1. Lent(ls) = Lent(lending) + (-1)
    <3>1. Lent(ls) = Lent(lending) + LoanOut(ls[l]) - LoanOut(lending[l])
      <4>1. \A k \in Lendings \ {l} : ls[k] = lending[k]
        BY <1>14
      <4> QED BY <4>1, OneLoanChanges
    <3>2. LoanOut(ls[l]) = 0 /\ LoanOut(lending[l]) = 1
      BY <1>2, <1>6, <1>10, <1>13, <1>14 DEF LoanOut
    <3>3. Lent(lending) \in Nat
      BY CopySetsFinite
    <3> QED BY <3>1, <3>2, <3>3
  <2>2. Stock(bs[b]) = 1 /\ Stock(book[b]) = 1
    BY <1>2, <1>6, <1>9, <1>11, <1>12 DEF Stock
  <2>3. \A x \in Shelves : Stood(book[b], x) = 0 /\ Stood(bs[b], x) = IF x = s THEN 1 ELSE 0
    BY <1>2, <1>6, <1>9, <1>11, <1>12 DEF Stood
  <2>4. \A x \in Shelves : Onto(standing, s)[x] = standing[x] + Stood(bs[b], x) - Stood(book[b], x)
    BY <2>3, CopiesParts DEF Onto
  <2>5. Sum(standing, Shelves) \in Nat
    BY ShelfSums, CopiesParts
  <2>6. Sum(Onto(standing, s), Shelves) + (-1) = Sum(standing, Shelves) + Stock(bs[b]) - Stock(book[b])
    BY <1>18, <2>2, <2>5
  <2>7. -1 \in Int
    OBVIOUS
  <2> QED BY <1>11, <1>13, <1>18, <2>1, <2>4, <2>6, <2>7, CountedMoves
<1>20. wish' \in [Wishes -> WishType] /\ WishesFine'
  <2>1. lending' = ls /\ wish' = wish
    BY <1>8 DEF Written
  <2>2. \A w \in Wishes : wish[w].status = "fulfilled" => wish[w].met \in Lendings
    BY CopiesParts DEF WishesFine, WishType
  <2>3. \A k \in Lendings : lending[k].status \in {"issued", "returned"} =>
             lending'[k].status \in {"issued", "returned"} /\ lending'[k].by = lending[k].by
    BY <1>2, <1>10, <1>14, <2>1
  <2> QED BY <2>1, <2>2, <2>3, CopiesParts DEF WishesFine, WishesMet
<1>21. c.ver > book[b].ver /\ book[b].at # "withdrawn" /\ c.reg = "registered"
       /\ (c.at # "withdrawn" => c.shelf \in usable)
  BY <1>2, <1>6, <1>9, <1>12
<1> QED
  BY <1>5, <1>8, <1>9, <1>11, <1>13, <1>14, <1>15, <1>16, <1>17, <1>18, <1>19, <1>20, <1>21, BatchKeeps

(* A batch takes up no row and no copy that another desk has chosen.        *)
LEMMA FinishStays ==
  ASSUME CopiesInv, NEW d \in Desks, desk[d] # Rested, Finish(d),
         \A l \in Lendings : lending[l].status = "none" /\ lending'[l].status # "none" =>
             desk[d].op = "issue" /\ l = desk[d].row,
         \A b \in Books : book[b].reg = "none" /\ book'[b].reg # "none" =>
             desk[d].op = "register" /\ b = desk[d].book
  PROVE  desk' \in [Desks -> DeskPlan \cup {Rested}] /\ DesksStay
<1>1. desk \in [Desks -> DeskPlan \cup {Rested}] /\ desk' = [desk EXCEPT ![d] = Rested]
  BY CopiesParts DEF Finish
<1>2. ASSUME NEW e \in Desks, desk'[e] # Rested
      PROVE  desk'[e] = desk[e] /\ NotTaken(desk[e])
  <2>1. e # d /\ desk'[e] = desk[e] /\ desk[e] # Rested
    BY <1>1, <1>2
  <2>2. PICK p \in DeskPlan : p = desk[e]
    BY <1>1, <2>1
  <2>3. RowsDiffer(p, desk[d]) /\ RowsDiffer(desk[d], p) /\ DeskFine(p)
    BY <2>1, <2>2, CopiesParts DEF DesksDiffer, DesksFine
  <2>4. p.op = "issue" => p.row \in Lendings
    BY PlanIs
  <2>5. p.op = "register" => p.book \in Books /\ book[p.book].reg = "none"
    BY <2>3, PlanIs DEF DeskFine
  <2>6. NotTaken(p)
    BY <2>3, <2>4, <2>5 DEF NotTaken, RowsDiffer
  <2> QED BY <2>1, <2>2, <2>6
<1> QED BY <1>1, <1>2 DEF DesksStay

LEMMA RegisterKeeps ==
  ASSUME CopiesInv, NEW d \in Desks, CommitRegister(d)
  PROVE  CopiesInv' /\ CopiesOnward
<1>1. PICK p \in DeskPlan : p = desk[d]
  BY CopiesParts DEF CommitRegister, Doing
<1>2. p.op = "register" /\ desk[d] # Rested /\ Finish(d) /\ DeskFine(p)
  BY <1>1, CopiesParts DEF CommitRegister, Doing, DesksFine
<1>3. PICK b \in Books, s \in Shelves : b = p.book /\ s = p.shelf
  BY <1>2, PlanIs
<1>4. PICK o \in BookType : o = book[b]
  BY CopiesParts
<1>5. PICK c : c = [reg |-> "registered", at |-> "on_shelf", shelf |-> s, ver |-> 1]
  OBVIOUS
<1>6. PICK bs : bs = [book EXCEPT ![b] = c]
  OBVIOUS
<1>7. /\ Written(bs, lending, Onto(standing, s)) /\ CopyAgrees(bs, lending, b) /\ s \in usable
      /\ UNCHANGED <<edition, usable, member, wish>>
  BY <1>1, <1>3, <1>5, <1>6 DEF CommitRegister
<1>8. edition.held /\ o.reg = "none" /\ o.ver = 0 /\ o.at # "withdrawn"
  BY <1>2, <1>3, <1>4, CopiesParts DEF DeskFine, BooksFine
<1>9. c \in BookType /\ c.reg = "registered" /\ c.at = "on_shelf" /\ c.shelf = s /\ c.ver > o.ver
  BY <1>5, <1>8 DEF BookType
<1>10. bs[b] = c /\ \A x \in Books \ {b} : bs[x] = book[x]
  BY <1>6, CopiesParts
<1>11. book' = bs /\ lending' = lending
  BY <1>7 DEF Written
<1>12. desk' \in [Desks -> DeskPlan \cup {Rested}] /\ DesksStay
  <2>1. \A x \in Books : book[x].reg = "none" /\ book'[x].reg # "none" =>
             desk[d].op = "register" /\ x = desk[d].book
    BY <1>1, <1>2, <1>3, <1>10, <1>11
  <2>2. \A l \in Lendings : lending[l].status = "none" /\ lending'[l].status # "none" =>
             desk[d].op = "issue" /\ l = desk[d].row
    BY <1>11
  <2> QED BY <1>2, <2>1, <2>2, FinishStays
<1>13. RowsOf(b, lending) /\ ClaimOnce(lending) /\ \A k \in Lendings : LendingFine(k, lending[k])
  BY CopiesParts DEF RowsOf, ClaimOnce, OneClaim, LendingsFine
<1>14. /\ Onto(standing, s) \in [Shelves -> Nat]
       /\ Sum(Onto(standing, s), Shelves) = Sum(standing, Shelves) + 1
  BY ShelfSums, CopiesParts
<1>15. StockCounted(bs, lending, Onto(standing, s))
  <2>0. Lent(lending) \in Nat
    BY CopySetsFinite
  <2>1. Lent(lending) = Lent(lending) + 0 /\ 0 \in Int
    BY <2>0
  <2>2. Stock(bs[b]) = 1 /\ Stock(book[b]) = 0
    BY <1>4, <1>8, <1>9, <1>10 DEF Stock
  <2>3. \A x \in Shelves : Stood(book[b], x) = 0 /\ Stood(bs[b], x) = IF x = s THEN 1 ELSE 0
    BY <1>4, <1>8, <1>9, <1>10 DEF Stood
  <2>4. \A x \in Shelves : Onto(standing, s)[x] = standing[x] + Stood(bs[b], x) - Stood(book[b], x)
    BY <2>3, CopiesParts DEF Onto
  <2>5. Sum(standing, Shelves) \in Nat
    BY ShelfSums, CopiesParts
  <2>6. Sum(Onto(standing, s), Shelves) + 0 = Sum(standing, Shelves) + Stock(bs[b]) - Stock(book[b])
    BY <1>14, <2>2, <2>5
  <2> QED BY <1>8, <1>10, <1>14, <2>1, <2>4, <2>6, CountedMoves
<1>16. wish' \in [Wishes -> WishType] /\ WishesFine'
  BY <1>7, <1>11, CopiesParts DEF WishesFine, WishesMet
<1>17. c.ver > book[b].ver /\ book[b].at # "withdrawn" /\ (c.at # "withdrawn" => c.shelf \in usable)
  BY <1>4, <1>7, <1>8, <1>9
<1> QED
  BY <1>6, <1>7, <1>8, <1>9, <1>12, <1>13, <1>14, <1>15, <1>16, <1>17, BatchKeeps, CopiesParts

LEMMA ShelfMoveKeeps ==
  ASSUME CopiesInv, NEW d \in Desks, CommitMoveCopy(d)
  PROVE  CopiesInv' /\ CopiesOnward
<1>1. PICK p \in DeskPlan : p = desk[d]
  BY CopiesParts DEF CommitMoveCopy, Doing
<1>2. p.op = "move" /\ desk[d] # Rested /\ Finish(d) /\ DeskFine(p)
  BY <1>1, CopiesParts DEF CommitMoveCopy, Doing, DesksFine
<1>3. PICK b \in Books, s \in Shelves, t \in Shelves \cup {Nowhere} : b = p.book /\ s = p.shelf /\ t = p.to
  BY <1>2, PlanIs
<1>4. PICK o \in BookType : o = book[b]
  BY CopiesParts
<1>5. PICK c : c = [o EXCEPT !.at = IF t = Nowhere THEN "withdrawn" ELSE "on_shelf",
                             !.shelf = IF t = Nowhere THEN @ ELSE t, !.ver = @ + 1]
  OBVIOUS
<1>6. PICK bs : bs = [book EXCEPT ![b] = c]
  OBVIOUS
<1>7. PICK st : st = IF t = Nowhere THEN standing ELSE Onto(standing, t)
  OBVIOUS
<1>8. bs = [book EXCEPT ![b].at = IF t = Nowhere THEN "withdrawn" ELSE "on_shelf",
                        ![b].shelf = IF t = Nowhere THEN @ ELSE t,
                        ![b].ver = @ + 1]
  BY <1>4, <1>5, <1>6, CopiesParts
<1>9. /\ Written(bs, lending, Less(st, s)) /\ CopyAgrees(bs, lending, b)
      /\ Leaves(st, s, p.rest) /\ (t = Nowhere \/ t \in usable) /\ CopyAsRead(b, p.cver) /\ Shelved(b)
      /\ UNCHANGED <<edition, usable, member, wish>>
  BY <1>1, <1>3, <1>7, <1>8 DEF CommitMoveCopy
<1>10. edition.held /\ o.reg = "registered" /\ o.at = "on_shelf" /\ o.shelf = s /\ t # s
  <2>1. o.shelf = s /\ t # s
    BY <1>2, <1>3, <1>4, <1>9 DEF DeskFine, ShelfRead, CopyAsRead
  <2> QED BY <1>4, <1>9, <2>1, ShelvedFacts DEF Shelved
<1>11. /\ c \in BookType /\ c.reg = "registered" /\ c.ver > o.ver
       /\ IF t = Nowhere THEN c.at = "withdrawn" ELSE c.at = "on_shelf" /\ c.shelf = t
  <2>1. c = [reg |-> o.reg, at |-> IF t = Nowhere THEN "withdrawn" ELSE "on_shelf",
             shelf |-> IF t = Nowhere THEN o.shelf ELSE t, ver |-> o.ver + 1]
    BY <1>5 DEF BookType
  <2> QED BY <1>10, <2>1, BookIs DEF BookType
<1>12. bs[b] = c /\ \A x \in Books \ {b} : bs[x] = book[x]
  BY <1>6, CopiesParts
<1>13. book' = bs /\ lending' = lending
  BY <1>9 DEF Written
<1>14. desk' \in [Desks -> DeskPlan \cup {Rested}] /\ DesksStay
  <2>1. \A x \in Books : book[x].reg = "none" /\ book'[x].reg # "none" =>
             desk[d].op = "register" /\ x = desk[d].book
    BY <1>4, <1>10, <1>12, <1>13
  <2>2. \A l \in Lendings : lending[l].status = "none" /\ lending'[l].status # "none" =>
             desk[d].op = "issue" /\ l = desk[d].row
    BY <1>13
  <2> QED BY <1>2, <2>1, <2>2, FinishStays
<1>15. RowsOf(b, lending) /\ ClaimOnce(lending) /\ \A k \in Lendings : LendingFine(k, lending[k])
  BY CopiesParts DEF RowsOf, ClaimOnce, OneClaim, LendingsFine
<1>16. /\ st \in [Shelves -> Nat]
       /\ Sum(st, Shelves) = Sum(standing, Shelves) + IF t = Nowhere THEN 0 ELSE 1
       /\ \A x \in Shelves : st[x] = IF x = t THEN standing[x] + 1 ELSE standing[x]
  <2>1. CASE t = Nowhere
    BY <1>7, <2>1, ShelfSums, CopiesParts, CopyValues
  <2>2. CASE t # Nowhere
    <3>1. t \in Shelves /\ st = Onto(standing, t)
      BY <1>7, <2>2
    <3>2. \A x \in Shelves : st[x] = IF x = t THEN standing[x] + 1 ELSE standing[x]
      BY <3>1, CopiesParts DEF Onto
    <3> QED BY <2>2, <3>1, <3>2, ShelfSums, CopiesParts
  <2> QED BY <2>1, <2>2
<1>17. st[s] > 0
  BY <1>9, <1>16 DEF Leaves
<1>18. Less(st, s) \in [Shelves -> Nat] /\ Sum(Less(st, s), Shelves) = Sum(st, Shelves) - 1
  BY <1>16, <1>17, ShelfSums
<1>19. StockCounted(bs, lending, Less(st, s))
  <2>0. Lent(lending) \in Nat
    BY CopySetsFinite
  <2>1. Lent(lending) = Lent(lending) + 0 /\ 0 \in Int
    BY <2>0
  <2>2. Stock(bs[b]) = (IF t = Nowhere THEN 0 ELSE 1) /\ Stock(book[b]) = 1
    BY <1>4, <1>10, <1>11, <1>12 DEF Stock
  <2>3. \A x \in Shelves : /\ Stood(book[b], x) = IF x = s THEN 1 ELSE 0
                           /\ Stood(bs[b], x) = IF x = t THEN 1 ELSE 0
    BY <1>4, <1>10, <1>11, <1>12, CopyValues DEF Stood
  <2>4. \A x \in Shelves : Less(st, s)[x] = IF x = s THEN st[x] - 1 ELSE st[x]
    BY <1>16 DEF Less
  <2>5. \A x \in Shelves : Less(st, s)[x] = standing[x] + Stood(bs[b], x) - Stood(book[b], x)
    BY <1>10, <1>16, <2>3, <2>4, CopiesParts
  <2>6. Sum(standing, Shelves) \in Nat
    BY ShelfSums, CopiesParts
  <2>7. Sum(Less(st, s), Shelves) + 0 = Sum(standing, Shelves) + Stock(bs[b]) - Stock(book[b])
    BY <1>16, <1>18, <2>2, <2>6
  <2> QED BY <1>10, <1>12, <1>18, <2>1, <2>5, <2>7, CountedMoves
<1>20. wish' \in [Wishes -> WishType] /\ WishesFine'
  BY <1>9, <1>13, CopiesParts DEF WishesFine, WishesMet
<1>21. c.ver > book[b].ver /\ book[b].at # "withdrawn" /\ (c.at # "withdrawn" => c.shelf \in usable)
  BY <1>4, <1>9, <1>10, <1>11
<1> QED
  BY <1>6, <1>9, <1>10, <1>11, <1>14, <1>15, <1>18, <1>19, <1>20, <1>21, BatchKeeps, CopiesParts

LEMMA ReceiveKeeps ==
  ASSUME CopiesInv, NEW d \in Desks, CommitReceiveTwin(d)
  PROVE  CopiesInv' /\ CopiesOnward
<1>1. PICK p \in DeskPlan : p = desk[d]
  BY CopiesParts DEF CommitReceiveTwin, Doing
<1>2. p.op = "receive" /\ desk[d] # Rested /\ Finish(d) /\ DeskFine(p)
  BY <1>1, CopiesParts DEF CommitReceiveTwin, Doing, DesksFine
<1>3. PICK s \in Shelves : s = p.shelf
  BY <1>2, PlanIs
<1>4. /\ book' = book /\ lending' = lending /\ standing' = Onto(standing, s)
      /\ tally' = TallyOf(Onto(standing, s), lending)
      /\ ~edition.held /\ UNCHANGED <<edition, usable, member, wish>>
  BY <1>1, <1>3 DEF CommitReceiveTwin, Written, StillTextbook
<1>5. edition.twin
  BY <1>2 DEF DeskFine
<1>6. /\ Onto(standing, s) \in [Shelves -> Nat]
      /\ Sum(Onto(standing, s), Shelves) \in Nat
  BY ShelfSums, CopiesParts
<1>7. tally' \in [total : Nat, lent : Nat]
  <2>1. Lent(lending) \in Nat
    BY CopySetsFinite
  <2>2. tally' = [total |-> Sum(Onto(standing, s), Shelves) + Lent(lending), lent |-> Lent(lending)]
    BY <1>4 DEF TallyOf, Sum
  <2> QED BY <1>6, <2>1, <2>2
<1>8. desk' \in [Desks -> DeskPlan \cup {Rested}] /\ DesksStay
  <2>1. /\ \A l \in Lendings : lending[l].status = "none" /\ lending'[l].status # "none" =>
             desk[d].op = "issue" /\ l = desk[d].row
        /\ \A b \in Books : book[b].reg = "none" /\ book'[b].reg # "none" =>
             desk[d].op = "register" /\ b = desk[d].book
    BY <1>4
  <2> QED BY <1>2, <2>1, FinishStays
<1>9. CopiesTypeOK'
  BY <1>4, <1>6, <1>7, <1>8, CopiesParts DEF CopiesTypeOK
<1>10. EditionFine' /\ CountsFine'
  BY <1>4, <1>5, CopiesParts DEF EditionFine, CountsFine
<1>11. BooksFine' /\ LendingsFine' /\ OneClaim' /\ WishesFine'
  BY <1>4, CopiesParts DEF BooksFine, LendingsFine, LendingFine, OneClaim, WishesFine, WishesMet
<1>12. CopiesOnward
  BY <1>4 DEF CopiesOnward, CirculationStep
<1>13. DesksFine' /\ DesksDiffer'
  BY <1>4, <1>8, <1>12, DesksKeep, CopiesParts
<1> QED BY <1>9, <1>10, <1>11, <1>12, <1>13 DEF CopiesInv, CopyRowsFine

(* The imported edition enters the stock: its copies are counted from the   *)
(* loans that were open when the handler read, and are still open.          *)
LEMMA EditionActivateKeeps ==
  ASSUME CopiesInv, NEW d \in Desks, CommitActivateEdition(d)
  PROVE  CopiesInv' /\ CopiesOnward
<1>1. PICK p \in DeskPlan : p = desk[d]
  BY CopiesParts DEF CommitActivateEdition, Doing
<1>2. p.op = "activate" /\ desk[d] # Rested /\ Finish(d) /\ DeskFine(p)
  BY <1>1, CopiesParts DEF CommitActivateEdition, Doing, DesksFine
<1>3. PICK bs : bs = [b \in Books |-> IF b \notin Waiting THEN book[b] ELSE
                 [reg |-> "registered", shelf |-> MainShelf, ver |-> book[b].ver + 1,
                  at |-> IF OpenOn(lending, b) # {} THEN "on_loan" ELSE "on_shelf"]]
  OBVIOUS
<1>4. PICK ls : ls = [l \in Lendings |-> IF lending[l].of \notin Books \/ lending[l].native
                                  THEN lending[l]
                                  ELSE [lending[l] EXCEPT !.native = TRUE, !.ver = @ + 1]]
  OBVIOUS
<1>5. PICK st : st = [standing EXCEPT ![MainShelf] = @ + p.copies - p.lent]
  OBVIOUS
<1>6. /\ edition.state = "draft" /\ ~edition.held /\ MainShelf \in usable
      /\ IF p.match THEN edition.twin /\ \A s \in Shelves : standing[s] = 0 ELSE ~edition.twin
      /\ Cardinality(Waiting) = p.copies
      /\ Written(bs, ls, st)
      /\ tally' = [total |-> p.copies, lent |-> p.lent]
      /\ edition' = [edition EXCEPT !.held = TRUE, !.state = "published", !.ver = @ + 1]
      /\ UNCHANGED <<usable, member, wish>>
  BY <1>1, <1>3, <1>4, <1>5 DEF CommitActivateEdition
<1>7. book' = bs /\ lending' = ls /\ standing' = st /\ tally' = TallyOf(st, ls)
  BY <1>6 DEF Written
<1>8. p.lent = Cardinality(LentHere)
  BY <1>2, <1>6 DEF DeskFine
<1>9. /\ edition'.held /\ edition'.state = "published" /\ edition'.twin = edition.twin
      /\ edition' \in EditionType
  <2>1. PICK e \in EditionType : e = edition
    BY CopiesParts
  <2>2. PICK f : f = [e EXCEPT !.held = TRUE, !.state = "published", !.ver = @ + 1]
    OBVIOUS
  <2>3. f = [state |-> "published", held |-> TRUE, twin |-> e.twin, ver |-> e.ver + 1]
    BY <2>2 DEF EditionType
  <2>4. e.twin \in BOOLEAN /\ e.ver + 1 \in Nat
    BY DEF EditionType
  <2>5. edition' = f
    BY <1>6, <2>1, <2>2
  <2> QED BY <2>1, <2>3, <2>4, <2>5 DEF EditionType
(* the copies *)
<1>10. ASSUME NEW b \in Books, b \in Waiting
       PROVE  /\ bs[b] \in BookType /\ bs[b].reg = "registered" /\ bs[b].shelf = MainShelf
              /\ bs[b].ver > book[b].ver
              /\ bs[b].at = IF OpenOn(lending, b) # {} THEN "on_loan" ELSE "on_shelf"
  <2>1. book[b].ver \in Nat
    BY CopiesParts, BookIs
  <2> QED BY <1>3, <1>10, <2>1, CopyValues DEF BookType
<1>11. ASSUME NEW b \in Books, b \notin Waiting
       PROVE  bs[b] = book[b] /\ book[b] \in BookType /\ book[b].reg = "none"
  <2>1. bs[b] = book[b]
    BY <1>3, <1>11
  <2>2. book[b].reg # "registered" /\ book[b].reg # "source"
    BY <1>6, <1>11, CopiesParts DEF EditionFine, Waiting
  <2>3. book[b] \in BookType
    BY CopiesParts
  <2> QED BY <2>1, <2>2, <2>3, BookIs
<1>12. bs \in [Books -> BookType]
  <2>1. \A b \in Books : bs[b] \in BookType
    BY <1>10, <1>11
  <2> QED BY <1>3, <2>1
(* the loans *)
<1>13. ASSUME NEW l \in Lendings
       PROVE  /\ ls[l] \in LendingType /\ ls[l].status = lending[l].status
              /\ ls[l].of = lending[l].of /\ ls[l].by = lending[l].by
              /\ lending[l].of \in Books => ls[l].native
  <2>1. PICK q \in LendingType : q = lending[l]
    BY CopiesParts
  <2>2. CASE q.of \notin Books \/ q.native
    BY <1>4, <2>1, <2>2
  <2>3. CASE ~(q.of \notin Books \/ q.native)
    <3>1. PICK r : r = [q EXCEPT !.native = TRUE, !.ver = @ + 1]
      OBVIOUS
    <3>2. r = [status |-> q.status, of |-> q.of, by |-> q.by, native |-> TRUE, ver |-> q.ver + 1]
      BY <3>1 DEF LendingType
    <3>3. q.ver + 1 \in Nat
      BY LendingIs
    <3>4. r \in LendingType
      BY <3>2, <3>3, LendingIs DEF LendingType
    <3>5. ls[l] = r
      BY <1>4, <2>1, <2>3, <3>1
    <3> QED BY <2>1, <3>2, <3>4, <3>5
  <2> QED BY <2>2, <2>3
<1>14. ls \in [Lendings -> LendingType]
  BY <1>4, <1>13
<1>15. \A b \in Books : OpenOn(ls, b) = OpenOn(lending, b)
  BY <1>13 DEF OpenOn
(* the counts *)
<1>16. \A s \in Shelves : standing[s] = 0
  <2>1. CASE p.match
    BY <1>6, <2>1
  <2>2. CASE ~p.match
    BY <1>6, <2>2, CopiesParts DEF EditionFine
  <2> QED BY <2>1, <2>2
<1>17. /\ LentHere \subseteq Waiting /\ Waiting \subseteq Books
       /\ IsFiniteSet(Waiting)
  <2>1. LentHere \subseteq Waiting /\ Waiting \subseteq Books
    BY DEF LentHere, Waiting
  <2> QED BY <2>1, CopyFinite, FS_Subset
<1>18. /\ p.copies \in Nat /\ p.lent \in Nat /\ p.lent <= p.copies
       /\ Cardinality(Waiting \ LentHere) = p.copies - p.lent
  <2>1. p.copies \in Nat /\ p.lent \in Nat
    BY <1>2, PlanIs
  <2>2. Cardinality(LentHere) <= Cardinality(Waiting)
    BY <1>17, FS_Subset
  <2>3. Waiting \cap LentHere = LentHere
    BY <1>17
  <2>4. Cardinality(Waiting \ LentHere) = Cardinality(Waiting) - Cardinality(Waiting \cap LentHere)
    BY <1>17, FS_Difference
  <2> QED BY <1>6, <1>8, <2>1, <2>2, <2>3, <2>4
<1>19. \A s \in Shelves : st[s] = IF s = MainShelf THEN p.copies - p.lent ELSE 0
  BY <1>5, <1>16, <1>18, CopiesParts
<1>20. st \in [Shelves -> Nat]
  <2>1. \A s \in Shelves : st[s] \in Nat
    BY <1>18, <1>19
  <2>2. DOMAIN st = Shelves /\ st = [s \in Shelves |-> st[s]]
    BY <1>5, CopiesParts
  <2> QED BY <2>1, <2>2
<1>21. OnShelf(bs, MainShelf) = Waiting \ LentHere
  <2>1. \A b \in Waiting : b \in OnShelf(bs, MainShelf) <=> b \notin LentHere
    BY <1>10, <1>17 DEF OnShelf, LentHere
  <2>2. \A b \in Books \ Waiting : b \notin OnShelf(bs, MainShelf)
    BY <1>11 DEF OnShelf
  <2>3. OnShelf(bs, MainShelf) \subseteq Books
    BY DEF OnShelf
  <2> QED BY <1>17, <2>1, <2>2, <2>3
<1>22. \A s \in Shelves \ {MainShelf} : OnShelf(bs, s) = {}
  BY <1>10, <1>11 DEF OnShelf
<1>23. StockOf(bs) = Waiting
  BY <1>10, <1>11, <1>17 DEF StockOf
<1>24. StockCounted(bs, ls, st)
  <2>1. ASSUME NEW s \in Shelves PROVE st[s] = Cardinality(OnShelf(bs, s))
    <3>1. CASE s = MainShelf
      BY <1>18, <1>19, <1>21, <3>1
    <3>2. CASE s # MainShelf
      BY <1>19, <1>22, <3>2, FS_EmptySet
    <3> QED BY <3>1, <3>2
  <2>2. TallyOf(st, ls).total = Sum(st, Shelves) + Lent(ls)
    BY DEF TallyOf, Sum
  <2>3. Sum(st, Shelves) + Lent(ls) = Cardinality(StockOf(bs))
    BY <1>6, <1>7, <1>23, <2>2
  <2> QED BY <2>1, <2>3 DEF StockCounted
(* the invariant *)
<1>25. desk' \in [Desks -> DeskPlan \cup {Rested}] /\ DesksStay
  <2>1. \A l \in Lendings : lending[l].status = "none" /\ lending'[l].status # "none" =>
             desk[d].op = "issue" /\ l = desk[d].row
    BY <1>7, <1>13
  <2>2. \A b \in Books : book[b].reg = "none" /\ book'[b].reg # "none" =>
             desk[d].op = "register" /\ b = desk[d].book
    BY <1>7, <1>11 DEF Waiting
  <2> QED BY <1>2, <2>1, <2>2, FinishStays
<1>26. CopiesTypeOK'
  <2>1. tally' \in [total : Nat, lent : Nat]
    BY <1>6, <1>18
  <2> QED BY <1>6, <1>7, <1>9, <1>12, <1>14, <1>20, <1>25, <2>1, CopiesParts DEF CopiesTypeOK
<1>27. EditionFine'
  BY <1>6, <1>7, <1>9, <1>10, <1>11 DEF EditionFine
<1>28. ASSUME NEW b \in Waiting PROVE CopyAgrees(bs, ls, b)
  <2>0. b \in Books
    BY <1>17
  <2>1. CASE OpenOn(lending, b) = {}
    BY <1>10, <1>15, <2>0, <2>1 DEF CopyAgrees
  <2>2. CASE OpenOn(lending, b) # {}
    <3>1. PICK l \in OpenOn(lending, b) : TRUE
      BY <2>2
    <3>2. l \in Lendings /\ lending[l].of = b /\ lending[l].status = "issued"
      BY <3>1 DEF OpenOn
    <3>3. \A k \in OpenOn(lending, b) : k \in Lendings /\ k = l
      BY <3>2, CopiesParts DEF OpenOn, OneClaim, HoldsCopy
    <3>4. {k \in OpenOn(ls, b) : ls[k].native} = {l}
      BY <1>13, <1>15, <2>0, <3>1, <3>2, <3>3
    <3>5. Cardinality({l}) = 1
      BY FS_Singleton
    <3> QED BY <1>10, <2>0, <2>2, <3>4, <3>5 DEF CopyAgrees
  <2> QED BY <2>1, <2>2
<1>29. BooksFine'
  <2> SUFFICES ASSUME NEW b \in Books
               PROVE  /\ bs[b].at = "withdrawn" => bs[b].reg = "registered"
                      /\ bs[b].reg = "none" => bs[b].ver = 0
                      /\ bs[b].reg = "registered" => CopyAgrees(bs, ls, b)
                      /\ bs[b].reg = "registered" /\ bs[b].at # "withdrawn" => bs[b].shelf \in usable
    BY <1>6, <1>7 DEF BooksFine
  <2>1. CASE b \in Waiting
    BY <1>6, <1>10, <1>28, <2>1
  <2>2. CASE b \notin Waiting
    BY <1>11, <2>2, CopiesParts DEF BooksFine
  <2> QED BY <2>1, <2>2
<1>30. LendingsFine'
  <2> SUFFICES ASSUME NEW l \in Lendings, NEW r, r = lending'[l] PROVE LendingFine(l, r)'
    BY DEF LendingsFine
  <2>1. LendingFine(l, lending[l])
    BY CopiesParts DEF LendingsFine
  <2> QED BY <1>6, <1>7, <1>9, <1>13, <2>1 DEF LendingFine, HoldsCopy
<1>31. OneClaim'
  BY <1>7, <1>13, CopiesParts DEF OneClaim, HoldsCopy
<1>32. WishesFine'
  <2>1. \A w \in Wishes : wish[w].status = "fulfilled" => wish[w].met \in Lendings
    BY CopiesParts DEF WishesFine, WishType
  <2> QED BY <1>6, <1>7, <1>13, <2>1, CopiesParts DEF WishesFine, WishesMet
<1>33. CountsFine'
  BY <1>7, <1>24 DEF CountsFine
<1>34. CirculationStep
  <2>1. \A b \in Books : book[b].at = "withdrawn" => book'[b] = book[b]
    BY <1>6, CopiesParts DEF BooksFine, EditionFine
  <2>2. \A b \in Books : book[b].reg # "registered"
    BY <1>6, CopiesParts DEF EditionFine
  <2> QED BY <1>7, <1>13, <2>1, <2>2 DEF CirculationStep
<1>35. CopiesOnward
  BY <1>7, <1>9, <1>10, <1>11, <1>13, <1>34 DEF CopiesOnward
<1>36. DesksFine' /\ DesksDiffer'
  BY <1>7, <1>12, <1>25, <1>35, DesksKeep
<1> QED
  BY <1>26, <1>27, <1>29, <1>30, <1>31, <1>32, <1>33, <1>35, <1>36 DEF CopiesInv, CopyRowsFine

-----------------------------------------------------------------------------
(* What the handlers read is true when they read it *)

LEMMA CopyPlansKeep ==
  ASSUME CopiesInv, NEW d \in Desks,
         \/ \E match \in BOOLEAN : PlanActivateEdition(d, match)
         \/ \E b \in Books, m \in Members, l \in Lendings, w \in Wishes \cup {NoWish} :
               PlanIssueCopy(d, b, m, l, w)
         \/ \E l \in Lendings, s \in Shelves : PlanReturnCopy(d, l, s)
         \/ \E b \in Books, s \in Shelves : PlanRegister(d, b, s)
         \/ \E b \in Books, s \in Shelves \cup {Nowhere} : PlanMoveCopy(d, b, s)
         \/ \E s \in Shelves : PlanReceiveTwin(d, s)
  PROVE  CopiesInv' /\ CopiesOnward
<1>1. ASSUME NEW match \in BOOLEAN, PlanActivateEdition(d, match) PROVE CopiesInv' /\ CopiesOnward
  <2>1. PICK p : p = [op |-> "activate", ever |-> edition.ver, match |-> match,
                      copies |-> Cardinality(Waiting), lent |-> Cardinality(LentHere)]
    OBVIOUS
  <2>2. Reads(d, p)
    BY <1>1, <2>1 DEF PlanActivateEdition, LentHere
  <2>3. IsFiniteSet(Waiting) /\ IsFiniteSet(LentHere)
    <3>1. \A T \in SUBSET Books : IsFiniteSet(T)
      BY CopyFinite, FS_Subset
    <3> QED BY <3>1 DEF Waiting, LentHere
  <2>4. Cardinality(Waiting) \in Nat /\ Cardinality(LentHere) \in Nat
    BY <2>3, FS_CardinalityType
  <2>5. edition.ver \in Nat
    BY CopiesParts DEF EditionType
  <2>6. p \in DeskPlan
    BY <2>1, <2>4, <2>5 DEF DeskPlan
  <2>7. DeskFine(p) /\ \A q : RowsDiffer(p, q) /\ RowsDiffer(q, p)
    BY <2>1 DEF DeskFine, RowsDiffer
  <2> QED BY <2>2, <2>6, <2>7, ReadsKeep
<1>2. ASSUME NEW b \in Books, NEW m \in Members, NEW l \in Lendings, NEW w \in Wishes \cup {NoWish},
             PlanIssueCopy(d, b, m, l, w)
      PROVE  CopiesInv' /\ CopiesOnward
  <2>1. PICK p : p = [op |-> "issue", book |-> b, cver |-> book[b].ver, shelf |-> book[b].shelf,
                 rest |-> standing[book[b].shelf], by |-> m, mver |-> member[m].ver,
                 row |-> l, rver |-> lending[l].ver, for |-> w]
    OBVIOUS
  <2>2. Reads(d, p)
    BY <1>2, <2>1 DEF PlanIssueCopy
  <2>3. book[b].shelf \in Shelves
    BY <1>2, ShelvedFacts DEF PlanIssueCopy
  <2>4. /\ book[b].ver \in Nat /\ standing[book[b].shelf] \in Nat /\ member[m].ver \in Nat
        /\ lending[l].ver \in Nat
    BY <2>3, CopiesParts, BookIs, LendingIs
  <2>5. p \in DeskPlan
    BY <2>1, <2>3, <2>4 DEF DeskPlan
  <2>6. /\ p.op = "issue" /\ p.book = b /\ p.row = l /\ p.by = m
        /\ p.cver = book[b].ver /\ p.shelf = book[b].shelf
    BY <2>1
  <2>7. ShelfRead(p) /\ RowOf(p.row, p.book, p.by)
    BY <1>2, <2>4, <2>6 DEF ShelfRead, RowOf, PlanIssueCopy, NewRow
  <2>8. DeskFine(p)
    BY <2>6, <2>7 DEF DeskFine
  <2>9. \A e \in Desks : e # d /\ desk[e] # Rested => RowsDiffer(p, desk[e]) /\ RowsDiffer(desk[e], p)
    <3>1. lending[l].status = "none" => l \notin InPlans
      BY <1>2 DEF PlanIssueCopy, NewRow
    <3> QED BY <2>6, <3>1 DEF RowsDiffer, InPlans
  <2> QED BY <2>2, <2>5, <2>8, <2>9, ReadsKeep
<1>3. ASSUME NEW l \in Lendings, NEW s \in Shelves, PlanReturnCopy(d, l, s)
      PROVE  CopiesInv' /\ CopiesOnward
  <2>1. PICK p : p = [op |-> "return", book |-> lending[l].of, cver |-> book[lending[l].of].ver,
                      row |-> l, rver |-> lending[l].ver, shelf |-> s]
    OBVIOUS
  <2>2. Reads(d, p) /\ lending[l].status = "issued"
    BY <1>3, <2>1 DEF PlanReturnCopy
  <2>3. lending[l].of \in Books
    BY <2>2, CopiesParts DEF LendingsFine, LendingFine
  <2>4. book[lending[l].of].ver \in Nat /\ lending[l].ver \in Nat
    BY <2>3, CopiesParts, BookIs, LendingIs
  <2>5. p \in DeskPlan
    BY <2>1, <2>3, <2>4 DEF DeskPlan
  <2>6. DeskFine(p) /\ \A q : RowsDiffer(p, q) /\ RowsDiffer(q, p)
    BY <2>1, <2>2 DEF DeskFine, RowsDiffer
  <2> QED BY <2>2, <2>5, <2>6, ReadsKeep
<1>4. ASSUME NEW b \in Books, NEW s \in Shelves, PlanRegister(d, b, s)
      PROVE  CopiesInv' /\ CopiesOnward
  <2>1. PICK p : p = [op |-> "register", book |-> b, ever |-> edition.ver, shelf |-> s]
    OBVIOUS
  <2>2. /\ Reads(d, p) /\ book[b].reg = "none" /\ edition.held
        /\ \A e \in Desks : Doing(e, "register") => desk[e].book # b
    BY <1>4, <2>1 DEF PlanRegister
  <2>3. edition.ver \in Nat
    BY CopiesParts DEF EditionType
  <2>4. p \in DeskPlan
    BY <2>1, <2>3 DEF DeskPlan
  <2>5. DeskFine(p)
    BY <2>1, <2>2 DEF DeskFine
  <2>6. \A e \in Desks : e # d /\ desk[e] # Rested => RowsDiffer(p, desk[e]) /\ RowsDiffer(desk[e], p)
    BY <2>1, <2>2 DEF RowsDiffer, Doing
  <2> QED BY <2>2, <2>4, <2>5, <2>6, ReadsKeep
<1>5. ASSUME NEW b \in Books, NEW s \in Shelves \cup {Nowhere}, PlanMoveCopy(d, b, s)
      PROVE  CopiesInv' /\ CopiesOnward
  <2>1. PICK p : p = [op |-> "move", book |-> b, cver |-> book[b].ver, shelf |-> book[b].shelf,
                      rest |-> standing[book[b].shelf], to |-> s]
    OBVIOUS
  <2>2. Reads(d, p) /\ s # book[b].shelf
    BY <1>5, <2>1 DEF PlanMoveCopy
  <2>3. book[b].shelf \in Shelves
    BY <1>5, ShelvedFacts DEF PlanMoveCopy
  <2>4. book[b].ver \in Nat /\ standing[book[b].shelf] \in Nat
    BY <2>3, CopiesParts, BookIs
  <2>5. p \in DeskPlan
    BY <2>1, <2>3, <2>4 DEF DeskPlan
  <2>6. /\ p.op = "move" /\ p.book = b /\ p.cver = book[b].ver /\ p.shelf = book[b].shelf /\ p.to = s
    BY <2>1
  <2>7. DeskFine(p) /\ \A q : RowsDiffer(p, q) /\ RowsDiffer(q, p)
    BY <2>2, <2>4, <2>6 DEF DeskFine, ShelfRead, RowsDiffer
  <2> QED BY <2>2, <2>5, <2>7, ReadsKeep
<1>6. ASSUME NEW s \in Shelves, PlanReceiveTwin(d, s) PROVE CopiesInv' /\ CopiesOnward
  <2>1. PICK p : p = [op |-> "receive", shelf |-> s, rest |-> standing[s]]
    OBVIOUS
  <2>2. Reads(d, p) /\ edition.twin
    BY <1>6, <2>1 DEF PlanReceiveTwin
  <2>3. p \in DeskPlan
    BY <2>1, CopiesParts DEF DeskPlan
  <2>4. DeskFine(p) /\ \A q : RowsDiffer(p, q) /\ RowsDiffer(q, p)
    BY <2>1, <2>2 DEF DeskFine, RowsDiffer
  <2> QED BY <2>2, <2>3, <2>4, ReadsKeep
<1> QED BY <1>1, <1>2, <1>3, <1>4, <1>5, <1>6

-----------------------------------------------------------------------------
(* Steps that move no copy and change no loan *)

LEMMA RowsStay ==
  ASSUME CopiesInv, UNCHANGED <<book, lending, standing>>,
         edition'.twin = edition.twin, edition'.held = edition.held,
         desk' = desk \/ \E d \in Desks : desk[d] # Rested /\ Finish(d)
  PROVE  /\ CopiesOnward /\ DesksFine' /\ DesksDiffer' /\ OneClaim'
         /\ desk' \in [Desks -> DeskPlan \cup {Rested}]
<1>1. CopiesOnward
  BY DEF CopiesOnward, CirculationStep
<1>2. desk' \in [Desks -> DeskPlan \cup {Rested}] /\ DesksStay
  <2>1. CASE desk' = desk
    BY <2>1, CopiesParts DEF DesksStay, NotTaken
  <2>2. ASSUME NEW d \in Desks, desk[d] # Rested, Finish(d)
        PROVE  desk' \in [Desks -> DeskPlan \cup {Rested}] /\ DesksStay
    BY <2>2, FinishStays
  <2> QED BY <2>1, <2>2
<1>3. DesksFine' /\ DesksDiffer'
  BY <1>1, <1>2, DesksKeep, CopiesParts
<1>4. OneClaim'
  BY CopiesParts DEF OneClaim
<1> QED BY <1>1, <1>2, <1>3, <1>4

LEMMA GoneKeeps ==
  ASSUME CopiesInv, NEW d \in Desks, Gone(d)
  PROVE  CopiesInv' /\ CopiesOnward
<1>1. /\ desk[d] # Rested /\ Finish(d)
      /\ UNCHANGED <<edition, book, lending, standing, tally, usable, member, wish>>
  BY DEF Gone
<1>2. /\ CopiesOnward /\ DesksFine' /\ DesksDiffer' /\ OneClaim'
      /\ desk' \in [Desks -> DeskPlan \cup {Rested}]
  BY <1>1, RowsStay
<1>3. CopiesTypeOK'
  BY <1>1, <1>2, CopiesParts DEF CopiesTypeOK
<1>4. EditionFine' /\ BooksFine' /\ LendingsFine' /\ WishesFine' /\ CountsFine'
  BY <1>1, CopiesParts DEF EditionFine, BooksFine, LendingsFine, LendingFine, WishesFine, WishesMet,
                           CountsFine
<1> QED BY <1>2, <1>3, <1>4 DEF CopiesInv, CopyRowsFine

LEMMA EditionKeeps ==
  ASSUME CopiesInv, NEW yes \in BOOLEAN, ArchiveEdition(yes) \/ SaveEdition(yes)
  PROVE  CopiesInv' /\ CopiesOnward
<1>1. PICK e \in EditionType : e = edition
  BY CopiesParts
<1>2. PICK state \in {"draft", "published", "archived"} :
         /\ edition' = [edition EXCEPT !.state = state, !.ver = @ + 1]
         /\ state = "archived" => NoneOut
  BY DEF ArchiveEdition, SaveEdition
<1>3. /\ UNCHANGED <<book, lending, standing, usable, member, wish, desk>>
      /\ tally' = tally \/ tally' = TallyOf(standing, lending)
  BY DEF ArchiveEdition, SaveEdition
<1>4. PICK f : f = [e EXCEPT !.state = state, !.ver = @ + 1]
  OBVIOUS
<1>5. f \in EditionType /\ f.twin = e.twin /\ f.held = e.held /\ f.state = state
  <2>1. f = [state |-> state, held |-> e.held, twin |-> e.twin, ver |-> e.ver + 1]
    BY <1>4 DEF EditionType
  <2>2. e.held \in BOOLEAN /\ e.twin \in BOOLEAN /\ e.ver + 1 \in Nat
    BY DEF EditionType
  <2> QED BY <2>1, <2>2 DEF EditionType
<1>6. edition' = f
  BY <1>1, <1>2, <1>4
<1>7. CopiesOnward /\ DesksFine' /\ DesksDiffer' /\ OneClaim'
  BY <1>1, <1>3, <1>5, <1>6, RowsStay
<1>8. TallyOf(standing, lending) \in [total : Nat, lent : Nat]
  <2>1. Sum(standing, Shelves) \in Nat /\ Lent(lending) \in Nat
    BY ShelfSums, CopySetsFinite, CopiesParts
  <2>2. TallyOf(standing, lending)
          = [total |-> Sum(standing, Shelves) + Lent(lending), lent |-> Lent(lending)]
    BY DEF TallyOf, Sum
  <2> QED BY <2>1, <2>2
<1>9. CopiesTypeOK'
  BY <1>3, <1>5, <1>6, <1>8, CopiesParts DEF CopiesTypeOK
<1>10. EditionFine' /\ BooksFine' /\ WishesFine'
  BY <1>1, <1>3, <1>5, <1>6, CopiesParts DEF EditionFine, BooksFine, WishesFine, WishesMet
<1>11. LendingsFine'
  <2> SUFFICES ASSUME NEW l \in Lendings, NEW r, r = lending'[l] PROVE LendingFine(l, r)'
    BY DEF LendingsFine
  <2>1. LendingFine(l, r) /\ r = lending[l]
    BY <1>3, CopiesParts DEF LendingsFine
  <2>2. HoldsCopy(r) => state # "archived"
    BY <1>2, <2>1 DEF NoneOut, LiveOn, LendingFine, HoldsCopy
  <2> QED BY <1>1, <1>3, <1>5, <1>6, <2>1, <2>2 DEF LendingFine
<1>12. CountsFine'
  BY <1>1, <1>3, <1>5, <1>6, CopiesParts DEF CountsFine
<1> QED BY <1>7, <1>9, <1>10, <1>11, <1>12 DEF CopiesInv, CopyRowsFine

LEMMA MemberKeeps ==
  ASSUME CopiesInv, NEW m \in Members, NEW yes \in BOOLEAN, ArchiveMember(m, yes)
  PROVE  CopiesInv' /\ CopiesOnward
<1>1. /\ NoneBy(m) /\ member' = [member EXCEPT ![m] = [on |-> yes, ver |-> @.ver + 1]]
      /\ UNCHANGED <<edition, book, lending, standing, tally, usable, wish, desk>>
  BY DEF ArchiveMember
<1>2. /\ CopiesOnward /\ DesksFine' /\ DesksDiffer' /\ OneClaim'
      /\ desk' \in [Desks -> DeskPlan \cup {Rested}]
  BY <1>1, RowsStay
<1>3. \A n \in Members \ {m} : member'[n] = member[n]
  BY <1>1, CopiesParts
<1>4. member' \in [Members -> [on : BOOLEAN, ver : Nat]]
  <2>1. [on |-> yes, ver |-> member[m].ver + 1] \in [on : BOOLEAN, ver : Nat]
    BY CopiesParts
  <2> QED BY <1>1, <2>1, CopiesParts
<1>5. CopiesTypeOK'
  BY <1>1, <1>4, CopiesParts DEF CopiesTypeOK
<1>6. EditionFine' /\ BooksFine' /\ WishesFine' /\ CountsFine'
  BY <1>1, CopiesParts DEF EditionFine, BooksFine, WishesFine, WishesMet, CountsFine
<1>7. LendingsFine'
  <2> SUFFICES ASSUME NEW l \in Lendings, NEW r, r = lending'[l] PROVE LendingFine(l, r)'
    BY DEF LendingsFine
  <2>1. LendingFine(l, r) /\ r = lending[l]
    BY <1>1, CopiesParts DEF LendingsFine
  <2>2. HoldsCopy(r) => r.by \in Members \ {m}
    BY <1>1, <2>1 DEF NoneBy, LiveBy, LendingFine, HoldsCopy
  <2> QED BY <1>1, <1>3, <2>1, <2>2 DEF LendingFine
<1> QED BY <1>2, <1>5, <1>6, <1>7 DEF CopiesInv, CopyRowsFine

LEMMA WishKeeps ==
  ASSUME CopiesInv, NEW w \in Wishes,
         \/ \E m \in Members : AskBook(w, m)
         \/ \E to \in {"ready", "closed"} : AnswerWish(w, to)
  PROVE  CopiesInv' /\ CopiesOnward
<1>1. PICK v \in WishType : v = wish[w]
  BY CopiesParts
<1>2. PICK n \in WishType : /\ wish' = [wish EXCEPT ![w] = n]
                            /\ v.status # "fulfilled" /\ n.status # "fulfilled" /\ n.met = v.met
  <2>1. ASSUME NEW m \in Members, AskBook(w, m)
        PROVE  \E n \in WishType : /\ wish' = [wish EXCEPT ![w] = n]
                                   /\ v.status # "fulfilled" /\ n.status # "fulfilled" /\ n.met = v.met
    <3>1. PICK n : n = [v EXCEPT !.status = "requested", !.by = m]
      OBVIOUS
    <3>2. n = [status |-> "requested", by |-> m, met |-> v.met]
      BY <3>1 DEF WishType
    <3>3. n \in WishType
      BY <3>2 DEF WishType
    <3>4. wish' = [wish EXCEPT ![w] = n] /\ v.status = "none"
      BY <1>1, <2>1, <3>1, CopiesParts DEF AskBook
    <3> QED BY <3>2, <3>3, <3>4
  <2>2. ASSUME NEW to \in {"ready", "closed"}, AnswerWish(w, to)
        PROVE  \E n \in WishType : /\ wish' = [wish EXCEPT ![w] = n]
                                   /\ v.status # "fulfilled" /\ n.status # "fulfilled" /\ n.met = v.met
    <3>1. PICK n : n = [v EXCEPT !.status = to]
      OBVIOUS
    <3>2. n = [status |-> to, by |-> v.by, met |-> v.met]
      BY <3>1 DEF WishType
    <3>3. n \in WishType
      BY <3>2 DEF WishType
    <3>4. wish' = [wish EXCEPT ![w] = n] /\ v.status \in {"requested", "ready"}
      BY <1>1, <2>2, <3>1, CopiesParts DEF AnswerWish
    <3> QED BY <3>2, <3>3, <3>4
  <2> QED BY <2>1, <2>2
<1>3. UNCHANGED <<edition, book, lending, standing, tally, usable, member, desk>>
  BY DEF AskBook, AnswerWish
<1>4. CopiesOnward /\ DesksFine' /\ DesksDiffer' /\ OneClaim'
  BY <1>3, RowsStay
<1>5. \A x \in Wishes : wish'[x] = IF x = w THEN n ELSE wish[x]
  BY <1>2, CopiesParts
<1>6. CopiesTypeOK'
  BY <1>2, <1>3, CopiesParts DEF CopiesTypeOK
<1>7. EditionFine' /\ BooksFine' /\ LendingsFine' /\ CountsFine'
  BY <1>3, CopiesParts DEF EditionFine, BooksFine, LendingsFine, LendingFine, CountsFine
<1>8. WishesFine'
  BY <1>1, <1>2, <1>3, <1>5, CopiesParts DEF WishesFine, WishesMet
<1> QED BY <1>4, <1>6, <1>7, <1>8 DEF CopiesInv, CopyRowsFine

LEMMA ShelfKeeps ==
  ASSUME CopiesInv, NEW s \in Shelves, ShutShelf(s) \/ OpenShelf(s)
  PROVE  CopiesInv' /\ CopiesOnward
<1>1. /\ UNCHANGED <<edition, book, lending, standing, tally, member, wish, desk>>
      /\ usable' \in SUBSET Shelves /\ MainShelf \in usable'
  BY CopiesParts DEF ShutShelf, OpenShelf, EditionFine
<1>2. CopiesOnward /\ DesksFine' /\ DesksDiffer' /\ OneClaim'
  BY <1>1, RowsStay
<1>3. CopiesTypeOK'
  BY <1>1, CopiesParts DEF CopiesTypeOK
<1>4. EditionFine' /\ LendingsFine' /\ WishesFine' /\ CountsFine'
  BY <1>1, CopiesParts DEF EditionFine, LendingsFine, LendingFine, WishesFine, WishesMet, CountsFine
<1>5. BooksFine'
  <2>1. \A b \in Books : book[b].reg = "registered" /\ book[b].at # "withdrawn" => book[b].shelf \in usable'
    BY CopiesParts DEF BooksFine, ShutShelf, OpenShelf, Stays
  <2> QED BY <1>1, <2>1, CopiesParts DEF BooksFine
<1> QED BY <1>2, <1>3, <1>4, <1>5 DEF CopiesInv, CopyRowsFine

-----------------------------------------------------------------------------
(* The steps together *)

LEMMA CommitsKeep ==
  ASSUME CopiesInv, NEW d \in Desks, CommitIssueCopy(d) \/ CommitReturnCopy(d)
  PROVE  CopiesInv' /\ CopiesOnward
<1>1. PICK p \in DeskPlan : p = desk[d]
  BY CopiesParts DEF CommitIssueCopy, CommitReturnCopy, Doing
<1>2. desk[d] # Rested /\ Finish(d) /\ DeskFine(p)
  BY <1>1, CopiesParts DEF CommitIssueCopy, CommitReturnCopy, Doing, DesksFine
<1>3. CASE CommitIssueCopy(d)
  <2>1. p.op = "issue" /\ IssueBatch(p)
    BY <1>1, <1>3 DEF CommitIssueCopy, Doing
  <2>2. /\ p.book \in Books /\ p.by \in Members /\ p.row \in Lendings /\ p.for \in Wishes \cup {NoWish}
        /\ p.cver \in Nat
    BY <2>1, PlanIs
  <2>3. ShelfRead(p) /\ RowOf(p.row, p.book, p.by)
    BY <1>2, <2>1 DEF DeskFine
  <2>4. p.shelf = book[p.book].shelf /\ Shelved(p.book)
    BY <2>1, <2>3 DEF IssueBatch, IssueRow, CopyAsRead, ShelfRead
  <2>5. /\ \A x \in Books : book'[x].reg = book[x].reg
        /\ \A k \in Lendings : k # p.row => lending'[k] = lending[k]
    BY <2>1, <2>2, CopiesParts DEF IssueBatch, Written, BookType
  <2>6. desk' \in [Desks -> DeskPlan \cup {Rested}] /\ DesksStay
    <3>1. \A l \in Lendings : lending[l].status = "none" /\ lending'[l].status # "none" =>
             desk[d].op = "issue" /\ l = desk[d].row
      BY <1>1, <2>1, <2>5
    <3>2. \A b \in Books : book[b].reg = "none" /\ book'[b].reg # "none" =>
             desk[d].op = "register" /\ b = desk[d].book
      BY <2>5
    <3> QED BY <1>2, <3>1, <3>2, FinishStays
  <2> QED BY <2>1, <2>2, <2>3, <2>4, <2>6, IssueKeeps
<1>4. CASE CommitReturnCopy(d)
  <2>1. p.op = "return" /\ ReturnBatch(p)
    BY <1>1, <1>4 DEF CommitReturnCopy, Doing
  <2>2. p.book \in Books /\ p.row \in Lendings /\ p.shelf \in Shelves
    BY <2>1, PlanIs
  <2>3. lending[p.row].of = p.book /\ lending[p.row].status = "issued"
    BY <1>2, <2>1 DEF DeskFine, ReturnBatch
  <2>5. /\ \A x \in Books : book'[x].reg = book[x].reg
        /\ \A k \in Lendings : k # p.row => lending'[k] = lending[k]
    BY <2>1, <2>2, CopiesParts DEF ReturnBatch, Written, BookType
  <2>6. desk' \in [Desks -> DeskPlan \cup {Rested}] /\ DesksStay
    <3>1. \A l \in Lendings : lending[l].status = "none" /\ lending'[l].status # "none" =>
             desk[d].op = "issue" /\ l = desk[d].row
      BY <2>3, <2>5
    <3>2. \A b \in Books : book[b].reg = "none" /\ book'[b].reg # "none" =>
             desk[d].op = "register" /\ b = desk[d].book
      BY <2>5
    <3> QED BY <1>2, <3>1, <3>2, FinishStays
  <2> QED BY <2>1, <2>2, <2>3, <2>6, ReturnKeeps
<1> QED BY <1>3, <1>4

LEMMA CopiesMove ==
  ASSUME CopiesInv, CopiesNext
  PROVE  CopiesInv' /\ CopiesOnward
<1>2. CASE AtTheDesk
  <2>1. PICK d \in Desks :
           \/ \E match \in BOOLEAN : PlanActivateEdition(d, match)
           \/ \E b \in Books, m \in Members, l \in Lendings, w \in Wishes \cup {NoWish} :
                 PlanIssueCopy(d, b, m, l, w)
           \/ \E l \in Lendings, s \in Shelves : PlanReturnCopy(d, l, s)
           \/ \E b \in Books, s \in Shelves : PlanRegister(d, b, s)
           \/ \E b \in Books, s \in Shelves \cup {Nowhere} : PlanMoveCopy(d, b, s)
           \/ \E s \in Shelves : PlanReceiveTwin(d, s)
           \/ CommitActivateEdition(d) \/ CommitIssueCopy(d) \/ CommitReturnCopy(d)
           \/ CommitRegister(d) \/ CommitMoveCopy(d) \/ CommitReceiveTwin(d)
           \/ Gone(d)
    BY <1>2 DEF AtTheDesk
  <2> HIDE DEF CopiesInv, CopiesOnward
  <2>2. CASE CommitActivateEdition(d)
    BY <2>2, EditionActivateKeeps
  <2>3. CASE CommitIssueCopy(d) \/ CommitReturnCopy(d)
    BY <2>3, CommitsKeep
  <2>4. CASE CommitRegister(d)
    BY <2>4, RegisterKeeps
  <2>5. CASE CommitMoveCopy(d)
    BY <2>5, ShelfMoveKeeps
  <2>6. CASE CommitReceiveTwin(d)
    BY <2>6, ReceiveKeeps
  <2>7. CASE Gone(d)
    BY <2>7, GoneKeeps
  <2>8. CASE \/ \E match \in BOOLEAN : PlanActivateEdition(d, match)
             \/ \E b \in Books, m \in Members, l \in Lendings, w \in Wishes \cup {NoWish} :
                   PlanIssueCopy(d, b, m, l, w)
             \/ \E l \in Lendings, s \in Shelves : PlanReturnCopy(d, l, s)
             \/ \E b \in Books, s \in Shelves : PlanRegister(d, b, s)
             \/ \E b \in Books, s \in Shelves \cup {Nowhere} : PlanMoveCopy(d, b, s)
             \/ \E s \in Shelves : PlanReceiveTwin(d, s)
    BY <2>8, CopyPlansKeep
  <2> QED BY <2>1, <2>2, <2>3, <2>4, <2>5, <2>6, <2>7, <2>8
<1>3. CASE \E l \in Lendings : \/ \E b \in Books, m \in Members : ReserveCopy(l, b, m)
                               \/ CancelReserve(l) \/ ChangeDue(l)
  <2>1. PICK l \in Lendings : \/ \E b \in Books, m \in Members : ReserveCopy(l, b, m)
                              \/ CancelReserve(l) \/ ChangeDue(l)
    BY <1>3
  <2>2. ASSUME NEW b \in Books, NEW m \in Members, ReserveCopy(l, b, m)
        PROVE  CopiesInv' /\ CopiesOnward
    BY <2>2, ReserveKeeps
  <2>3. CASE CancelReserve(l) \/ ChangeDue(l)
    BY <2>3, CancelKeeps
  <2> QED BY <2>1, <2>2, <2>3
<1>4. CASE \E b \in BOOLEAN : ArchiveEdition(b) \/ SaveEdition(b)
  BY <1>4, EditionKeeps
<1>5. CASE \E m \in Members, b \in BOOLEAN : ArchiveMember(m, b)
  BY <1>5, MemberKeeps
<1>6. CASE \E w \in Wishes : \/ \E m \in Members : AskBook(w, m)
                             \/ \E to \in {"ready", "closed"} : AnswerWish(w, to)
  BY <1>6, WishKeeps
<1>7. CASE \E s \in Shelves : ShutShelf(s) \/ OpenShelf(s)
  BY <1>7, ShelfKeeps
<1> QED BY <1>2, <1>3, <1>4, <1>5, <1>6, <1>7 DEF CopiesNext

LEMMA CopiesRest ==
  ASSUME CopiesInv, UNCHANGED copyVars
  PROVE  CopiesInv' /\ CopiesOnward
<1>1. UNCHANGED <<edition, book, lending, standing, tally, usable, member, wish, desk>>
  BY DEF copyVars
<1>2. CopiesOnward /\ DesksFine' /\ DesksDiffer' /\ OneClaim'
  BY <1>1, RowsStay
<1>3. CopiesTypeOK'
  BY <1>1, CopiesParts DEF CopiesTypeOK
<1>4. EditionFine' /\ BooksFine' /\ LendingsFine' /\ WishesFine' /\ CountsFine'
  BY <1>1, CopiesParts DEF EditionFine, BooksFine, LendingsFine, LendingFine, WishesFine, WishesMet,
                           CountsFine
<1> QED BY <1>2, <1>3, <1>4 DEF CopiesInv, CopyRowsFine

LEMMA CopiesStart ==
  ASSUME CopiesInit
  PROVE  CopiesInv /\ \A l \in Lendings : l \in OldLendings => lending[l].status # "none"
<1>1. /\ edition.state = "draft" /\ ~edition.held /\ edition \in EditionType
      /\ standing = [s \in Shelves |-> 0] /\ tally = [total |-> 0, lent |-> 0]
      /\ usable = Shelves /\ desk = [d \in Desks |-> Rested]
      /\ wish = [w \in Wishes |-> [status |-> "none", by |-> NoMember, met |-> NoLending]]
  BY DEF CopiesInit, EditionType
<1>2. member \in [Members -> [on : BOOLEAN, ver : Nat]]
  BY DEF CopiesInit
<1>3. PICK of \in [OldLendings -> Imported], by \in [OldLendings -> Members],
           as \in [OldLendings -> {"issued", "reserved"}] :
        /\ \A k, l \in OldLendings : of[k] = of[l] => k = l
        /\ lending = [l \in Lendings |->
             IF l \in OldLendings
             THEN [status |-> as[l], of |-> of[l], by |-> by[l], native |-> FALSE, ver |-> 1]
             ELSE [status |-> "none", of |-> NoBook, by |-> NoMember, native |-> FALSE, ver |-> 0]]
        /\ book = [b \in Books |->
             IF b \in Imported
             THEN [reg |-> "source", shelf |-> Nowhere, ver |-> 1,
                   at |-> IF \E l \in OldLendings : of[l] = b /\ as[l] = "issued"
                          THEN "on_loan" ELSE "unknown"]
             ELSE [reg |-> "none", at |-> "unknown", shelf |-> Nowhere, ver |-> 0]]
  BY DEF CopiesInit
<1>4. ASSUME NEW l \in Lendings
      PROVE  /\ lending[l] \in LendingType
             /\ IF l \in OldLendings
                THEN /\ lending[l].of = of[l] /\ lending[l].of \in Books /\ lending[l].by \in Members
                     /\ lending[l].status \in {"issued", "reserved"}
                ELSE lending[l].status = "none" /\ lending[l].of = NoBook
  <2>1. CASE l \in OldLendings
    <3>1. PICK x \in {"issued", "reserved"}, b \in Books, m \in Members :
             x = as[l] /\ b = of[l] /\ m = by[l]
      BY <2>1, CopyValues
    <3>2. lending[l] = [status |-> x, of |-> b, by |-> m, native |-> FALSE, ver |-> 1]
      BY <1>3, <2>1, <3>1
    <3>3. lending[l] \in LendingType
      BY <3>2 DEF LendingType
    <3>4. lending[l].status = x /\ lending[l].of = b /\ lending[l].by = m
      BY <3>2
    <3> QED BY <2>1, <3>1, <3>3, <3>4
  <2>2. CASE l \notin OldLendings
    <3>1. lending[l] = [status |-> "none", of |-> NoBook, by |-> NoMember, native |-> FALSE, ver |-> 0]
      BY <1>3, <2>2
    <3> QED BY <2>2, <3>1 DEF LendingType
  <2> QED BY <2>1, <2>2
<1>5. ASSUME NEW b \in Books
      PROVE  /\ book[b] \in BookType /\ book[b].reg # "registered" /\ book[b].at # "withdrawn"
             /\ book[b].reg = "none" => book[b].ver = 0
  <2>1. CASE b \in Imported
    <3>1. PICK at \in {"on_loan", "unknown"} :
             book[b] = [reg |-> "source", shelf |-> Nowhere, ver |-> 1, at |-> at]
      BY <1>3, <2>1
    <3> QED BY <3>1 DEF BookType
  <2>2. CASE b \notin Imported
    <3>1. book[b] = [reg |-> "none", at |-> "unknown", shelf |-> Nowhere, ver |-> 0]
      BY <1>3, <2>2
    <3> QED BY <3>1 DEF BookType
  <2> QED BY <2>1, <2>2
<1>6. CopiesTypeOK
  <2>1. lending \in [Lendings -> LendingType]
    BY <1>3, <1>4
  <2>2. book \in [Books -> BookType]
    BY <1>3, <1>5
  <2>3. wish \in [Wishes -> WishType]
    BY <1>1 DEF WishType
  <2>4. /\ standing \in [Shelves -> Nat] /\ usable \in SUBSET Shelves /\ tally \in [total : Nat, lent : Nat]
        /\ desk \in [Desks -> DeskPlan \cup {Rested}]
    BY <1>1
  <2> QED BY <1>1, <1>2, <2>1, <2>2, <2>3, <2>4 DEF CopiesTypeOK
<1>7. EditionFine /\ BooksFine /\ CountsFine
  BY <1>1, <1>5, CopyValues DEF EditionFine, BooksFine, CountsFine
<1>8. LendingsFine /\ OneClaim
  BY <1>1, <1>3, <1>4, CopyValues DEF LendingsFine, LendingFine, OneClaim, HoldsCopy
<1>9. WishesFine
  BY <1>1 DEF WishesFine, WishesMet
<1>10. DesksFine /\ DesksDiffer
  BY <1>1 DEF DesksFine, DesksDiffer
<1> QED BY <1>4, <1>6, <1>7, <1>8, <1>9, <1>10 DEF CopiesInv, CopyRowsFine

LEMMA CopiesHold == CopiesSpec => []CopiesInv /\ [][CirculationStep]_copyVars
<1>1. CopiesInit => CopiesInv
  BY CopiesStart
<1>2. CopiesInv /\ [CopiesNext]_copyVars => CopiesInv'
  BY CopiesMove, CopiesRest
<1>3. CopiesInv /\ [CopiesNext]_copyVars => [CirculationStep]_copyVars
  BY CopiesMove DEF CopiesOnward
<1> QED BY <1>1, <1>2, <1>3, PTL DEF CopiesSpec

(* What the invariant says of the three statements.                         *)
LEMMA CopiesAreSound ==
  ASSUME CopiesInv
  PROVE  CopiesSound
<1>1. ShelvesCounted
  <2> SUFFICES ASSUME edition.held
               PROVE  /\ \A s \in Shelves : standing[s] = Cardinality(OnShelf(book, s))
                      /\ tally = TallyOf(standing, lending)
                      /\ tally.total = Cardinality({b \in Books : book[b].reg = "registered"
                                                                  /\ book[b].at # "withdrawn"})
    BY DEF ShelvesCounted
  <2>1. StockCounted(book, lending, standing) /\ tally = TallyOf(standing, lending)
    BY CopiesParts DEF CountsFine
  <2>2. tally.total = Sum(standing, Shelves) + Lent(lending)
    BY <2>1 DEF TallyOf, Sum
  <2> QED BY <2>1, <2>2 DEF StockCounted, StockOf
<1>2. ASSUME NEW b \in Books PROVE Cardinality(LiveOn(b)) <= 1
  <2>1. \A k, l \in LiveOn(b) : k = l
    BY CopiesParts DEF OneClaim, LiveOn, HoldsCopy
  <2>2. CASE LiveOn(b) = {}
    BY <2>2, FS_EmptySet
  <2>3. CASE LiveOn(b) # {}
    <3>1. PICK l : LiveOn(b) = {l}
      BY <2>1, <2>3
    <3>2. Cardinality({l}) = 1
      BY FS_Singleton
    <3> QED BY <3>1, <3>2
  <2> QED BY <2>2, <2>3
<1>3. LentOnce
  BY <1>2, CopiesParts DEF LentOnce, BooksFine, LendingsFine, LendingFine, HoldsCopy
<1>4. WishesMet
  BY CopiesParts DEF WishesFine
<1> QED BY <1>1, <1>3, <1>4 DEF CopiesSound

(* Every variable keeps the type it is declared with.                       *)
THEOREM CopiesTyped == CopiesSpec => []CopiesTypeOK
<1>1. CopiesInv => CopiesTypeOK
  BY DEF CopiesInv
<1> QED BY <1>1, CopiesHold, PTL

(* Shelves, loans and totals add up to the copies of an edition in the      *)
(* stock, a copy is out on one loan exactly when it says so, and a wish was *)
(* met by one loan to its reader: at every moment, whatever passed between  *)
(* a handler's reading and its batch.                                       *)
THEOREM CopiesSafe == CopiesSpec => []CopiesSound
<1>1. CopiesInv => CopiesSound
  BY CopiesAreSound
<1> QED BY <1>1, CopiesHold, PTL

(* What is over is never taken up again: a withdrawn copy stays withdrawn,  *)
(* an ended loan stays ended, and a loan keeps its reader and its copy.     *)
THEOREM CirculationKept == CopiesSpec => [][CirculationStep]_copyVars
BY CopiesHold, PTL

-----------------------------------------------------------------------------
(* The refresh of a loan: the inductive invariant                           *)

(* A source loan is carried by one row, which is a loan.                    *)
MarksFine ==
    /\ \A l \in Lendings : mark[l].src # NoSource =>
           lending[l].status # "none" /\ mark[l].row # "none"
    /\ \A k, l \in Lendings : mark[k].src # NoSource /\ mark[k].src = mark[l].src => k = l

(* What a request has left: the loan issued for it is of its copy and its   *)
(* reader, and nothing else will carry the source id.                       *)
Renewed(l) == mark[l].row = "new"
IssuedFor(x, c) ==
    /\ c.want \in {"issued", "returned"}
    /\ lending[c.issue].status # "none"
    /\ lending[c.issue].of = c.of /\ lending[c.issue].by = c.by
    /\ mark[c.issue].src \in {NoSource, x}
    /\ Carries(x) \subseteq {c.issue}
LeftAlone(c) ==
    /\ c.prior => lending[c.issue].ver = c.rver + (IF c.back THEN 2 ELSE 1)
    /\ ~c.back => lending[c.issue].status = "issued" /\ book[c.of].ver = c.cver + 1
RequestFine(x, c) ==
    /\ edition.held
    /\ c.issue # NoLending => IssuedFor(x, c) /\ (c.alone => LeftAlone(c))
    /\ c.prior => Carries(x) # {}
    /\ ~c.prior => /\ \A l \in Carries(x) : Renewed(l)
                   /\ c.issue # NoLending => c.want = "issued"
                   /\ c.issue = NoLending /\ c.want # "returned" => Carries(x) = {}
    /\ c.back => c.want = "returned" /\ c.issue # NoLending
    /\ c.done => \E l \in Carries(x) : Renewed(l)
RequestsFine == \A x \in SourceLoans : source[x] # NoCall => RequestFine(x, source[x])
IssuesApart ==
    \A x, y \in SourceLoans :
        x # y /\ source[x] # NoCall /\ source[y] # NoCall /\ source[x].issue # NoLending =>
            source[x].issue # source[y].issue

(* Where a call is.                                                         *)
RunFine(g) ==
    LET x == g.for c == source[x] l == g.row IN
    /\ c # NoCall
    /\ g.then = "history" => c.want = "returned" /\ ~c.prior
    /\ g.then = "update" => /\ c.want \in {"reserved", "cancelled"} /\ c.prior
                            /\ l \in Lendings /\ mark[l].src = x
    /\ g.then = "issue" => /\ c.want \in {"issued", "returned"}
                           /\ ~c.prior => c.want = "issued"
                           /\ c.prior => /\ l \in Lendings /\ mark[l].src = x
                                         /\ lending[l].of = c.of /\ lending[l].by = c.by
    /\ g.then = "return" => c.want = "returned" /\ c.issue # NoLending /\ l = c.issue
    /\ g.then = "link" => l \in Lendings /\ (l = c.issue \/ (mark[l].src = x /\ Renewed(l)))
    /\ g.then = "complete" => l \in Lendings /\ mark[l].src = x /\ Renewed(l)
RunsFine == \A h \in Runs : run[h] # Rested => RunFine(run[h])

RefreshFine == MarksFine /\ RequestsFine /\ IssuesApart /\ RunsFine
RefreshInv == CopiesInv /\ RefreshTypeOK /\ RefreshFine

(* What no step of a refresh undoes.                                        *)
MarksOn ==
    \A l \in Lendings : mark[l].src # NoSource =>
        /\ mark'[l].src = mark[l].src
        /\ Renewed(l) => mark'[l].row = "new"
SameRequest(c, e) ==
    /\ e.want = c.want /\ e.of = c.of /\ e.by = c.by /\ e.prior = c.prior
    /\ c.issue # NoLending => e.issue = c.issue
RequestsOn ==
    \A x \in SourceLoans : source[x] # NoCall =>
        source'[x] # NoCall /\ SameRequest(source[x], source'[x])

LEMMA RefreshParts ==
  ASSUME RefreshInv
  PROVE  /\ mark \in [Lendings -> MarkType] /\ source \in [SourceLoans -> SourceType \cup {NoCall}]
         /\ run \in [Runs -> RunType \cup {Rested}]
         /\ CopiesInv /\ MarksFine /\ RequestsFine /\ IssuesApart /\ RunsFine
BY DEF RefreshInv, RefreshTypeOK, RefreshFine

LEMMA SourceIs ==
  ASSUME NEW c \in SourceType
  PROVE  /\ c.want \in Wanted /\ c.of \in Books /\ c.by \in Members /\ c.prior \in BOOLEAN
         /\ c.rver \in Nat /\ c.cver \in Nat /\ c.mver \in Nat
         /\ c.issue \in Lendings \cup {NoLending} /\ c.back \in BOOLEAN /\ c.done \in BOOLEAN
         /\ c.alone \in BOOLEAN
BY DEF SourceType

LEMMA RunIs ==
  ASSUME NEW g \in RunType
  PROVE  /\ g.for \in SourceLoans /\ g.row \in Lendings \cup {NoLending}
         /\ g.then \in {"history", "update", "issue", "return", "link", "complete"}
BY DEF RunType

LEMMA MarkIs ==
  ASSUME RefreshInv, NEW l \in Lendings
  PROVE  mark[l].src \in SourceLoans \cup {NoSource} /\ mark[l].row \in {"none", "old", "new"}
BY RefreshParts DEF MarkType

LEMMA RunStays ==
  ASSUME RefreshInv, CopiesOnward, MarksOn, RequestsOn, NEW g \in RunType, RunFine(g)
  PROVE  RunFine(g)'
<1>1. PICK x \in SourceLoans : x = g.for
  BY RunIs
<1>2. source[x] # NoCall /\ source'[x] # NoCall
  BY <1>1 DEF RunFine, RequestsOn
<1>3. PICK c, e : c = source[x] /\ e = source'[x]
  OBVIOUS
<1>4. SameRequest(c, e)
  BY <1>2, <1>3 DEF RequestsOn
<1>5. x # NoSource
  BY SourceValues
<1>6. \A l \in Lendings : mark[l].src = x =>
         /\ mark'[l].src = x /\ (Renewed(l) => mark'[l].row = "new")
         /\ lending'[l].of = lending[l].of /\ lending'[l].by = lending[l].by
  BY <1>5, RefreshParts DEF MarksOn, MarksFine, CopiesOnward, CirculationStep
<1>7. NoLending \notin Lendings
  BY CopyValues
<1>8. CASE g.then = "history"
  BY <1>1, <1>2, <1>3, <1>4, <1>8 DEF RunFine, SameRequest
<1>9. CASE g.then = "update"
  BY <1>1, <1>2, <1>3, <1>4, <1>6, <1>9 DEF RunFine, SameRequest
<1>10. CASE g.then = "issue"
  BY <1>1, <1>2, <1>3, <1>4, <1>6, <1>10 DEF RunFine, SameRequest
<1>11. CASE g.then = "return"
  BY <1>1, <1>2, <1>3, <1>4, <1>11 DEF RunFine, SameRequest
<1>12. CASE g.then = "link"
  BY <1>1, <1>2, <1>3, <1>4, <1>6, <1>7, <1>12 DEF RunFine, SameRequest, Renewed
<1>13. CASE g.then = "complete"
  BY <1>1, <1>2, <1>3, <1>6, <1>13 DEF RunFine, Renewed
<1> QED BY <1>8, <1>9, <1>10, <1>11, <1>12, <1>13, RunIs

LEMMA RequestStays ==
  ASSUME RefreshInv, CopiesOnward, MarksOn, NEW x \in SourceLoans, NEW c \in SourceType,
         RequestFine(x, c), NEW e \in SourceType, e = c \/ e = [c EXCEPT !.alone = FALSE],
         \A l \in Lendings : mark'[l].src = x <=> mark[l].src = x,
         c.issue # NoLending => mark'[c.issue].src \in {NoSource, x},
         c.issue # NoLending /\ e.alone /\ LeftAlone(c) => LeftAlone(c)'
  PROVE  RequestFine(x, e)'
<1>1. SameRequest(c, e) /\ e.issue = c.issue /\ e.back = c.back /\ e.done = c.done /\ e.rver = c.rver
      /\ e.cver = c.cver /\ (e.alone => c.alone)
  BY DEF SourceType, SameRequest
<1>2. Carries(x)' = Carries(x)
  BY DEF Carries
<1>3. edition'.held /\ edition.held
  BY DEF RequestFine, CopiesOnward
<1>4. \A l \in Carries(x) : Renewed(l) => Renewed(l)'
  BY SourceValues DEF Carries, MarksOn, Renewed
<1>5. ASSUME c.issue # NoLending PROVE IssuedFor(x, e)' /\ (e.alone => LeftAlone(e)')
  <2>1. IssuedFor(x, c) /\ (c.alone => LeftAlone(c)) /\ c.issue \in Lendings
    BY <1>5, SourceIs DEF RequestFine
  <2>2. IssuedFor(x, e)'
    BY <1>1, <1>2, <1>5, <2>1 DEF IssuedFor, SameRequest, CopiesOnward, CirculationStep
  <2>3. e.alone => LeftAlone(c)'
    BY <1>1, <1>5, <2>1
  <2> QED BY <1>1, <2>2, <2>3 DEF LeftAlone, SameRequest
<1> QED BY <1>1, <1>2, <1>3, <1>4, <1>5 DEF RequestFine, SameRequest

LEMMA RunsKeep ==
  ASSUME RefreshInv, CopiesOnward, MarksOn, RequestsOn, NEW h \in Runs, NEW g \in RunType \cup {Rested},
         \A k \in Runs : run'[k] = IF k = h THEN g ELSE run[k],
         g = Rested \/ RunFine(g)'
  PROVE  RunsFine'
<1> SUFFICES ASSUME NEW k \in Runs, run'[k] # Rested, NEW c, c = run'[k] PROVE RunFine(c)'
  BY DEF RunsFine
<1>1. CASE k = h
  BY <1>1
<1>2. CASE k # h
  <2>1. c = run[k] /\ c \in RunType /\ RunFine(c)
    BY <1>2, RefreshParts DEF RunsFine
  <2> QED BY <2>1, RunStays
<1> QED BY <1>1, <1>2

LEMMA RunsRest ==
  ASSUME RefreshInv, CopiesOnward, MarksOn, RequestsOn, run' = run
  PROVE  RunsFine'
<1> SUFFICES ASSUME NEW k \in Runs, run'[k] # Rested, NEW c, c = run'[k] PROVE RunFine(c)'
  BY DEF RunsFine
<1>1. c \in RunType /\ RunFine(c)
  BY RefreshParts DEF RunsFine
<1> QED BY <1>1, RunStays

(* A step for one request leaves what the others have left.                 *)
LEMMA OthersStay ==
  ASSUME RefreshInv, CopiesOnward, MarksOn, NEW x \in SourceLoans,
         \A y \in SourceLoans \ {x} : source'[y] = source[y],
         \A l \in Lendings : mark'[l] = mark[l] \/ (mark'[l].src = x /\ mark[l].src \in {NoSource, x}),
         \A y \in SourceLoans \ {x} : source[y] # NoCall /\ source[y].issue # NoLending =>
             /\ mark'[source[y].issue] = mark[source[y].issue]
             /\ lending'[source[y].issue] = lending[source[y].issue]
             /\ lending[source[y].issue].status = "issued" => book'[source[y].of] = book[source[y].of],
         NEW y \in SourceLoans \ {x}, source'[y] # NoCall, NEW e, e = source'[y]
  PROVE  RequestFine(y, e)'
<1>1. e = source[y] /\ e \in SourceType /\ RequestFine(y, e)
  BY RefreshParts DEF RequestsFine
<1>2. \A l \in Lendings : mark'[l].src = y <=> mark[l].src = y
  BY SourceValues
<1>3. e.issue # NoLending =>
          /\ mark'[e.issue] = mark[e.issue] /\ lending'[e.issue] = lending[e.issue]
          /\ lending[e.issue].status = "issued" => book'[e.of] = book[e.of]
  BY <1>1
<1>4. e.issue # NoLending => mark'[e.issue].src \in {NoSource, y}
  BY <1>1, <1>3 DEF RequestFine, IssuedFor
<1>5. e.issue # NoLending /\ e.alone /\ LeftAlone(e) => LeftAlone(e)'
  BY <1>3 DEF LeftAlone
<1> QED BY <1>1, <1>2, <1>4, <1>5, RequestStays

LEMMA MarksRest ==
  ASSUME RefreshInv, CopiesOnward, mark' = mark
  PROVE  MarksFine' /\ MarksOn
BY RefreshParts DEF MarksFine, MarksOn, CopiesOnward, Renewed

(* Someone else at work: who touches the copy or the loan is noticed.       *)
LEMMA ElsewhereKeeps ==
  ASSUME RefreshInv, Elsewhere
  PROVE  RefreshInv' /\ CopiesOnward
<1>1. CopiesInv' /\ CopiesOnward /\ mark' = mark /\ run' = run
  BY CopiesMove, RefreshParts DEF Elsewhere
<1>2. MarksFine' /\ MarksOn
  BY <1>1, MarksRest
<1>3. ASSUME NEW x \in SourceLoans, source[x] # NoCall, NEW c, c = source[x], NEW e, e = source'[x]
      PROVE  /\ c \in SourceType /\ e \in SourceType /\ (e = c \/ e = [c EXCEPT !.alone = FALSE])
             /\ SameRequest(c, e) /\ e.issue = c.issue
             /\ e.alone => ~Meddled(x)
  <2>1. c \in SourceType
    BY <1>3, RefreshParts
  <2>2. CASE Meddled(x)
    <3>1. e = [c EXCEPT !.alone = FALSE]
      BY <1>3, <2>2 DEF Elsewhere
    <3>2. e \in SourceType /\ ~e.alone /\ SameRequest(c, e) /\ e.issue = c.issue
      BY <2>1, <3>1 DEF SourceType, SameRequest
    <3> QED BY <2>1, <3>1, <3>2
  <2>3. CASE ~Meddled(x)
    <3>1. e = c
      BY <1>3, <2>3 DEF Elsewhere
    <3> QED BY <2>1, <2>3, <3>1 DEF SameRequest
  <2> QED BY <2>2, <2>3
<1>4. ASSUME NEW x \in SourceLoans, source[x] = NoCall PROVE source'[x] = NoCall
  BY <1>4 DEF Elsewhere, Meddled
<1>5. source' \in [SourceLoans -> SourceType \cup {NoCall}]
  <2>1. \A x \in SourceLoans : source'[x] \in SourceType \cup {NoCall}
    BY <1>3, <1>4
  <2> QED BY <2>1 DEF Elsewhere
<1>6. RequestsOn
  BY <1>3, RequestAssumption DEF RequestsOn
<1>7. RefreshTypeOK'
  BY <1>1, <1>5, RefreshParts DEF RefreshTypeOK
<1>8. RequestsFine'
  <2> SUFFICES ASSUME NEW x \in SourceLoans, source'[x] # NoCall, NEW e, e = source'[x]
               PROVE  RequestFine(x, e)'
    BY DEF RequestsFine
  <2>1. source[x] # NoCall
    BY <1>4
  <2>2. PICK c : c = source[x]
    OBVIOUS
  <2>3. /\ c \in SourceType /\ e \in SourceType /\ (e = c \/ e = [c EXCEPT !.alone = FALSE])
        /\ RequestFine(x, c) /\ (e.alone => ~Meddled(x))
    BY <1>3, <2>1, <2>2, RefreshParts DEF RequestsFine
  <2>4. \A l \in Lendings : mark'[l].src = x <=> mark[l].src = x
    BY <1>1
  <2>5. c.issue # NoLending => mark'[c.issue].src \in {NoSource, x}
    BY <1>1, <2>3 DEF RequestFine, IssuedFor
  <2>6. c.issue # NoLending /\ e.alone /\ LeftAlone(c) => LeftAlone(c)'
    <3>1. ~Meddled(x) /\ c.issue # NoLending =>
             book'[c.of] = book[c.of] /\ lending'[c.issue] = lending[c.issue]
      BY <2>1, <2>2, <2>3, SourceIs DEF Meddled, Mine
    <3> QED BY <2>3, <3>1 DEF LeftAlone
  <2> QED BY <1>1, <1>2, <2>3, <2>4, <2>5, <2>6, RequestStays
<1>9. IssuesApart'
  <2> SUFFICES ASSUME NEW x \in SourceLoans, NEW y \in SourceLoans, x # y, source'[x] # NoCall,
                      source'[y] # NoCall, source'[x].issue # NoLending
               PROVE  source'[x].issue # source'[y].issue
    BY DEF IssuesApart
  <2>1. source[x] # NoCall /\ source[y] # NoCall
    BY <1>4
  <2>2. source'[x].issue = source[x].issue /\ source'[y].issue = source[y].issue
    BY <1>3, <2>1
  <2> QED BY <2>1, <2>2, RefreshParts DEF IssuesApart
<1>10. RunsFine'
  BY <1>1, <1>2, <1>6, RunsRest
<1> QED BY <1>1, <1>2, <1>7, <1>8, <1>9, <1>10 DEF RefreshInv, RefreshFine

-----------------------------------------------------------------------------
(* Where a call goes *)

LEMMA RunMoves ==
  ASSUME RefreshInv, NEW h \in Runs, NEW g \in RunType \cup {Rested}, run' = [run EXCEPT ![h] = g],
         UNCHANGED <<copyVars, mark, source>>, g = Rested \/ RunFine(g)
  PROVE  RefreshInv' /\ CopiesOnward
<1>1. CopiesInv' /\ CopiesOnward /\ mark' = mark /\ source' = source
      /\ UNCHANGED <<edition, book, lending>>
  BY CopiesRest, RefreshParts DEF copyVars
<1>2. MarksFine' /\ MarksOn /\ RequestsOn
  BY <1>1, MarksRest DEF RequestsOn, SameRequest
<1>3. \A k \in Runs : run'[k] = IF k = h THEN g ELSE run[k]
  BY RefreshParts
<1>4. g = Rested \/ RunFine(g)'
  <2>1. RunFine(g) => RunFine(g)'
    BY <1>1 DEF RunFine, Renewed
  <2> QED BY <2>1
<1>5. RunsFine'
  BY <1>1, <1>2, <1>3, <1>4, RunsKeep
<1>6. RefreshTypeOK'
  BY <1>1, RefreshParts DEF RefreshTypeOK
<1>7. RequestsFine' /\ IssuesApart'
  BY <1>1, RefreshParts DEF RequestsFine, RequestFine, IssuedFor, LeftAlone, Carries, Renewed, IssuesApart
<1> QED BY <1>1, <1>2, <1>5, <1>6, <1>7 DEF RefreshInv, RefreshFine

LEMMA WayIs ==
  ASSUME RefreshInv, NEW x \in SourceLoans, source[x] # NoCall, NEW c, c = source[x],
         NEW n, n = Now(Carries(x)), NEW w, w = Way(x), w # "refuse"
  PROVE  /\ Carries(x) # {} => n \in Carries(x) /\ n \in Lendings /\ mark[n].src = x
         /\ \/ Carries(x) = {} /\ ~c.prior /\ c.want = "returned" /\ w = "history"
            \/ Carries(x) = {} /\ ~c.prior /\ c.want = "issued" /\ w = "issue"
            \/ Carries(x) # {} /\ Renewed(n) /\ w = "complete"
            \/ Carries(x) # {} /\ AsExpected(x, n) /\ c.want \notin {"issued", "returned"} /\ w = "update"
            \/ Carries(x) # {} /\ AsExpected(x, n) /\ c.want \in {"issued", "returned"} /\ w = "issue"
<1>1. Carries(x) # {} => n \in Carries(x)
  BY DEF Now
<1>2. n \in Carries(x) => n \in Lendings /\ mark[n].src = x
  BY DEF Carries
<1>3. CASE Carries(x) = {}
  BY <1>3 DEF Way
<1>4. CASE Carries(x) # {}
  <2>1. w = IF Renewed(n) THEN "complete"
            ELSE IF ~AsExpected(x, n) THEN "refuse"
            ELSE IF c.want \notin {"issued", "returned"}
                 THEN IF lending[n].status = "reserved" THEN "update" ELSE "refuse"
            ELSE IF lending[n].status = "reserved" \/ c.issue = n THEN "issue" ELSE "refuse"
    BY <1>4 DEF Way, Renewed
  <2> QED BY <1>1, <1>2, <1>4, <2>1
<1> QED BY <1>1, <1>2, <1>3, <1>4

LEMMA BeginKeeps ==
  ASSUME RefreshInv, NEW h \in Runs, NEW x \in SourceLoans, Begin(h, x)
  PROVE  RefreshInv' /\ CopiesOnward
<1>1. source[x] # NoCall /\ Way(x) # "refuse" /\ UNCHANGED <<copyVars, mark, source>>
  BY DEF Begin
<1>2. PICK c \in SourceType : c = source[x]
  BY <1>1, RefreshParts
<1>3. PICK n, w : n = Now(Carries(x)) /\ w = Way(x)
  OBVIOUS
<1>4. PICK g : g = [for |-> x, then |-> w, row |-> IF Carries(x) = {} THEN NoLending ELSE n]
  OBVIOUS
<1>5. run' = [run EXCEPT ![h] = g]
  BY <1>3, <1>4 DEF Begin
<1>6. /\ Carries(x) # {} => n \in Carries(x) /\ n \in Lendings /\ mark[n].src = x
      /\ \/ Carries(x) = {} /\ ~c.prior /\ c.want = "returned" /\ w = "history"
         \/ Carries(x) = {} /\ ~c.prior /\ c.want = "issued" /\ w = "issue"
         \/ Carries(x) # {} /\ Renewed(n) /\ w = "complete"
         \/ Carries(x) # {} /\ AsExpected(x, n) /\ c.want \notin {"issued", "returned"} /\ w = "update"
         \/ Carries(x) # {} /\ AsExpected(x, n) /\ c.want \in {"issued", "returned"} /\ w = "issue"
  BY <1>1, <1>2, <1>3, WayIs
<1>7. AsExpected(x, n) => c.prior /\ lending[n].of = c.of /\ lending[n].by = c.by
  BY <1>2 DEF AsExpected
<1>8. g \in RunType
  BY <1>4, <1>6 DEF RunType
<1>9. g.for = x /\ g.then = w /\ g.row = IF Carries(x) = {} THEN NoLending ELSE n
  BY <1>4
<1>10. RunFine(g)
  <2>1. c.want \in {"issued", "returned", "reserved", "cancelled"}
    BY SourceIs DEF Wanted
  <2> QED BY <1>1, <1>2, <1>6, <1>7, <1>9, <2>1 DEF RunFine
<1> QED BY <1>1, <1>5, <1>8, <1>10, RunMoves

LEMMA RunNow ==
  ASSUME RefreshInv, NEW h \in Runs, run[h] # Rested, NEW g, g = run[h]
  PROVE  /\ g \in RunType /\ RunFine(g) /\ g.for \in SourceLoans
         /\ source[g.for] # NoCall /\ source[g.for] \in SourceType
         /\ RequestFine(g.for, source[g.for])
<1>1. g \in RunType /\ RunFine(g)
  BY RefreshParts DEF RunsFine
<1>2. g.for \in SourceLoans /\ source[g.for] # NoCall
  BY <1>1, RunIs DEF RunFine
<1> QED BY <1>1, <1>2, RefreshParts DEF RequestsFine

LEMMA AgainKeeps ==
  ASSUME RefreshInv, NEW h \in Runs, IssueAgain(h) \/ ReturnAgain(h) \/ Stop(h)
  PROVE  RefreshInv' /\ CopiesOnward
<1>1. PICK f : f = run[h]
  OBVIOUS
<1>2. run[h] # Rested /\ UNCHANGED <<copyVars, mark, source>>
  BY DEF IssueAgain, ReturnAgain, Stop, AtStep
<1>3. f \in RunType /\ RunFine(f) /\ f.for \in SourceLoans
  BY <1>1, <1>2, RunNow
<1>4. PICK x \in SourceLoans, c \in SourceType : x = f.for /\ c = source[x] /\ c # NoCall
  BY <1>1, <1>2, RunNow
<1>5. CASE Stop(h)
  <2>1. run' = [run EXCEPT ![h] = Rested]
    BY <1>5 DEF Stop
  <2> QED BY <1>2, <2>1, RunMoves
<1>6. CASE IssueAgain(h)
  <2>1. f.then = "issue" /\ c.issue # NoLending
    BY <1>1, <1>4, <1>6 DEF IssueAgain, AtStep
  <2>2. PICK g : g = [f EXCEPT !.then = Following(x), !.row = c.issue]
    OBVIOUS
  <2>3. g.for = x /\ g.then = Following(x) /\ g.row = c.issue /\ g \in RunType
    <3>1. Following(x) \in {"return", "link"}
      BY DEF Following
    <3>2. c.issue \in Lendings \cup {NoLending}
      BY SourceIs
    <3>3. g = [for |-> x, then |-> Following(x), row |-> c.issue]
      BY <1>3, <1>4, <2>2 DEF RunType
    <3> QED BY <3>1, <3>2, <3>3 DEF RunType
  <2>4. run' = [run EXCEPT ![h] = g]
    BY <1>1, <1>4, <1>6, <2>2, RefreshParts DEF IssueAgain, Goes
  <2>5. RunFine(g)
    <3>1. c.issue \in Lendings
      BY <2>1, SourceIs
    <3> QED BY <1>4, <2>1, <2>3, <3>1 DEF RunFine, Following
  <2> QED BY <1>2, <2>3, <2>4, <2>5, RunMoves
<1>7. CASE ReturnAgain(h)
  <2>1. f.then = "return"
    BY <1>1, <1>7 DEF ReturnAgain, AtStep
  <2>2. PICK g : g = [f EXCEPT !.then = "link", !.row = f.row]
    OBVIOUS
  <2>3. g.for = x /\ g.then = "link" /\ g.row = f.row /\ g \in RunType
    <3>1. g = [for |-> x, then |-> "link", row |-> f.row]
      BY <1>3, <1>4, <2>2 DEF RunType
    <3> QED BY <1>3, <3>1, RunIs DEF RunType
  <2>4. run' = [run EXCEPT ![h] = g]
    BY <1>1, <1>7, <2>2, RefreshParts DEF ReturnAgain, Goes
  <2>5. c.issue # NoLending /\ f.row = c.issue
    BY <1>3, <1>4, <2>1 DEF RunFine
  <2>6. RunFine(g)
    <3>1. c.issue \in Lendings
      BY <2>5, SourceIs
    <3> QED BY <1>4, <2>3, <2>5, <3>1 DEF RunFine
  <2> QED BY <1>2, <2>3, <2>4, <2>6, RunMoves
<1> QED BY <1>5, <1>6, <1>7

LEMMA RequestKeeps ==
  ASSUME RefreshInv, NEW x \in SourceLoans, NEW want \in Wanted, NEW b \in Books, NEW m \in Members,
         Request(x, want, b, m)
  PROVE  RefreshInv' /\ CopiesOnward
<1>1. /\ CopiesInv' /\ CopiesOnward /\ mark' = mark /\ run' = run
      /\ UNCHANGED <<edition, book, lending>> /\ source[x] = NoCall /\ book[b].reg = "registered"
  BY CopiesRest, RefreshParts DEF Request, copyVars
<1>2. edition.held
  BY <1>1, RefreshParts, CopiesParts DEF EditionFine
<1>3. PICK v, n : /\ v = (IF Carries(x) = {} THEN 0 ELSE lending[n].ver)
                  /\ n = Now(Carries(x))
  OBVIOUS
<1>4. PICK prior, cver, mver : /\ prior \in BOOLEAN /\ prior = (Carries(x) # {})
                               /\ cver = book[b].ver /\ mver = member[m].ver
  OBVIOUS
<1>5. PICK c : c = [want |-> want, of |-> b, by |-> m, prior |-> prior, rver |-> v, cver |-> cver,
                    mver |-> mver, issue |-> NoLending, back |-> FALSE, done |-> FALSE, alone |-> TRUE]
  OBVIOUS
<1>6. source' = [source EXCEPT ![x] = c]
  BY <1>3, <1>4, <1>5 DEF Request
<1>7. c \in SourceType
  <2>1. v \in Nat
    <3>1. Carries(x) # {} => n \in Lendings
      BY <1>3 DEF Now, Carries
    <3> QED BY <1>3, <3>1, RefreshParts, CopiesParts, LendingIs
  <2>2. cver \in Nat /\ mver \in Nat
    BY <1>4, RefreshParts, CopiesParts, BookIs
  <2>3. prior \in BOOLEAN
    BY <1>4
  <2> QED BY <1>5, <2>1, <2>2, <2>3 DEF SourceType
<1>8. \A y \in SourceLoans : source'[y] = IF y = x THEN c ELSE source[y]
  BY <1>6, RefreshParts
<1>9. MarksFine' /\ MarksOn /\ RequestsOn
  BY <1>1, <1>8, MarksRest DEF RequestsOn, SameRequest
<1>10. RunsFine'
  BY <1>1, <1>9, RunsRest
<1>11. RefreshTypeOK'
  <2>1. source' \in [SourceLoans -> SourceType \cup {NoCall}]
    BY <1>6, <1>7, RefreshParts
  <2> QED BY <1>1, <2>1, RefreshParts DEF RefreshTypeOK
<1>12. RequestsFine'
  <2> SUFFICES ASSUME NEW y \in SourceLoans, source'[y] # NoCall, NEW e, e = source'[y]
               PROVE  RequestFine(y, e)'
    BY DEF RequestsFine
  <2>1. CASE y = x
    <3>1. e = c
      BY <1>8, <2>1
    <3>2. Carries(x)' = Carries(x)
      BY <1>1 DEF Carries
    <3>3. c.issue = NoLending /\ ~c.back /\ ~c.done /\ (c.prior <=> Carries(x) # {})
      BY <1>4, <1>5
    <3>4. RequestFine(x, c)'
      BY <1>1, <1>2, <3>2, <3>3 DEF RequestFine
    <3> QED BY <2>1, <3>1, <3>4
  <2>2. CASE y # x
    <3>1. e = source[y] /\ RequestFine(y, e)
      BY <1>8, <2>2, RefreshParts DEF RequestsFine
    <3> QED BY <1>1, <3>1 DEF RequestFine, IssuedFor, LeftAlone, Carries, Renewed
  <2> QED BY <2>1, <2>2
<1>13. IssuesApart'
  <2>1. ASSUME NEW y \in SourceLoans, source[y] # NoCall, source[y].issue # NoLending
        PROVE  c.issue # source[y].issue
    BY <1>5, <2>1
  <2>2. c.issue = NoLending
    BY <1>5
  <2> QED BY <1>8, <2>1, <2>2, RefreshParts DEF IssuesApart
<1> QED BY <1>1, <1>9, <1>10, <1>11, <1>12, <1>13 DEF RefreshInv, RefreshFine

LEMMA CompleteKeeps ==
  ASSUME RefreshInv, NEW h \in Runs, Complete(h)
  PROVE  RefreshInv' /\ CopiesOnward
<1>1. PICK f : f = run[h]
  OBVIOUS
<1>2. run[h] # Rested /\ f.then = "complete" /\ UNCHANGED <<copyVars, mark>>
  BY <1>1 DEF Complete, AtStep
<1>3. /\ CopiesInv' /\ CopiesOnward /\ mark' = mark
      /\ UNCHANGED <<edition, book, lending>>
  BY <1>2, CopiesRest, RefreshParts DEF copyVars
<1>4. PICK x \in SourceLoans, c \in SourceType : x = f.for /\ c = source[x] /\ c # NoCall
  BY <1>1, <1>2, RunNow
<1>5. RunFine(f) /\ RequestFine(x, c)
  BY <1>1, <1>2, <1>4, RunNow
<1>6. PICK e : e = [c EXCEPT !.done = TRUE]
  OBVIOUS
<1>7. source' = [source EXCEPT ![x] = e]
  BY <1>1, <1>4, <1>6, RefreshParts DEF Complete
<1>8. /\ e \in SourceType /\ e.want = c.want /\ e.of = c.of /\ e.by = c.by /\ e.prior = c.prior
      /\ e.rver = c.rver /\ e.cver = c.cver /\ e.issue = c.issue /\ e.back = c.back /\ e.alone = c.alone
  BY <1>6 DEF SourceType
<1>9. \A y \in SourceLoans : source'[y] = IF y = x THEN e ELSE source[y]
  BY <1>7, RefreshParts
<1>10. e # NoCall
  BY <1>8, RequestAssumption
<1>11. MarksFine' /\ MarksOn /\ RequestsOn
  BY <1>3, <1>4, <1>8, <1>9, <1>10, MarksRest DEF RequestsOn, SameRequest
<1>12. run' = [run EXCEPT ![h] = Rested]
  BY DEF Complete
<1>13. RunsFine'
  <2>1. \A k \in Runs : run'[k] = IF k = h THEN Rested ELSE run[k]
    BY <1>12, RefreshParts
  <2> QED BY <1>3, <1>11, <2>1, RunsKeep
<1>14. RefreshTypeOK'
  BY <1>3, <1>7, <1>8, <1>12, RefreshParts DEF RefreshTypeOK
<1>15. RequestsFine'
  <2> SUFFICES ASSUME NEW y \in SourceLoans, source'[y] # NoCall, NEW r, r = source'[y]
               PROVE  RequestFine(y, r)'
    BY DEF RequestsFine
  <2>1. CASE y = x
    <3>1. r = e
      BY <1>9, <2>1
    <3>2. PICK l \in Lendings : mark[l].src = x /\ Renewed(l)
      BY <1>2, <1>4, <1>5 DEF RunFine
    <3>3. \E k \in Carries(x) : Renewed(k)
      BY <3>2 DEF Carries
    <3>4. RequestFine(x, e)
      <4>1. /\ edition.held /\ (c.issue # NoLending => IssuedFor(x, c) /\ (c.alone => LeftAlone(c)))
            /\ c.prior => Carries(x) # {}
            /\ ~c.prior => /\ \A k \in Carries(x) : Renewed(k)
                           /\ c.issue # NoLending => c.want = "issued"
                           /\ c.issue = NoLending /\ c.want # "returned" => Carries(x) = {}
            /\ c.back => c.want = "returned" /\ c.issue # NoLending
        BY <1>5 DEF RequestFine
      <4>2. (IssuedFor(x, c) => IssuedFor(x, e)) /\ (LeftAlone(c) => LeftAlone(e))
        BY <1>8 DEF IssuedFor, LeftAlone
      <4> QED BY <1>8, <3>3, <4>1, <4>2 DEF RequestFine
    <3> QED BY <1>3, <2>1, <3>1, <3>4 DEF RequestFine, IssuedFor, LeftAlone, Carries, Renewed
  <2>2. CASE y # x
    <3>1. r = source[y] /\ RequestFine(y, r)
      BY <1>9, <2>2, RefreshParts DEF RequestsFine
    <3> QED BY <1>3, <3>1 DEF RequestFine, IssuedFor, LeftAlone, Carries, Renewed
  <2> QED BY <2>1, <2>2
<1>16. IssuesApart'
  <2>1. \A y \in SourceLoans : source'[y] # NoCall =>
           source[y] # NoCall /\ source'[y].issue = source[y].issue
    BY <1>4, <1>8, <1>9
  <2> QED BY <2>1, RefreshParts DEF IssuesApart
<1> QED BY <1>3, <1>11, <1>13, <1>14, <1>15, <1>16 DEF RefreshInv, RefreshFine

(* The loan gets the source id.                                             *)
LEMMA LinkKeeps ==
  ASSUME RefreshInv, NEW h \in Runs, Link(h)
  PROVE  RefreshInv' /\ CopiesOnward
<1>1. PICK f : f = run[h]
  OBVIOUS
<1>2. run[h] # Rested /\ f.then = "link" /\ UNCHANGED <<copyVars, source>>
  BY <1>1 DEF Link, AtStep
<1>3. /\ CopiesInv' /\ CopiesOnward /\ source' = source
      /\ UNCHANGED <<edition, book, lending>>
  BY <1>2, CopiesRest, RefreshParts DEF copyVars
<1>4. PICK x \in SourceLoans, c \in SourceType : x = f.for /\ c = source[x] /\ c # NoCall
  BY <1>1, <1>2, RunNow
<1>5. RunFine(f) /\ RequestFine(x, c) /\ f \in RunType
  BY <1>1, <1>2, <1>4, RunNow
<1>6. PICK l \in Lendings : l = f.row /\ (l = c.issue \/ (mark[l].src = x /\ Renewed(l)))
  BY <1>2, <1>4, <1>5 DEF RunFine
<1>7. /\ mark[l].src \in {NoSource, x} /\ \A k \in Lendings \ {l} : mark[k].src # x
      /\ mark' = [mark EXCEPT ![l] = [src |-> x, row |-> "new"]]
      /\ run' = [run EXCEPT ![h].then = "complete", ![h].row = l]
  BY <1>1, <1>4, <1>6 DEF Link, Goes
<1>8. /\ mark'[l].src = x /\ mark'[l].row = "new"
      /\ \A k \in Lendings : k # l => mark'[k] = mark[k]
  BY <1>7, RefreshParts
<1>9. /\ l # NoLending /\ x # NoSource
      /\ lending[l].status # "none"
      /\ c.issue # NoLending => l = c.issue
  <2>1. l # NoLending /\ x # NoSource
    BY CopyValues, SourceValues
  <2>2. CASE l = c.issue
    BY <1>5, <2>1, <2>2 DEF RequestFine, IssuedFor
  <2>3. CASE mark[l].src = x
    BY <1>5, <2>1, <2>3, RefreshParts DEF MarksFine, RequestFine, IssuedFor, Carries
  <2> QED BY <1>6, <2>1, <2>2, <2>3
<1>10. MarksFine'
  BY <1>3, <1>7, <1>8, <1>9, RefreshParts DEF MarksFine
<1>11. MarksOn /\ RequestsOn
  <2>1. MarksOn
    BY <1>7, <1>8 DEF MarksOn, Renewed
  <2>2. RequestsOn
    BY <1>3 DEF RequestsOn, SameRequest
  <2> QED BY <2>1, <2>2
<1>12. PICK g : g = [f EXCEPT !.then = "complete", !.row = l]
  OBVIOUS
<1>13. g \in RunType /\ g.for = x /\ g.then = "complete" /\ g.row = l
  BY <1>4, <1>5, <1>12 DEF RunType
<1>14. run' = [run EXCEPT ![h] = g]
  BY <1>1, <1>7, <1>12, RefreshParts
<1>15. RunFine(g)'
  BY <1>3, <1>4, <1>8, <1>13 DEF RunFine, Renewed
<1>16. RunsFine'
  <2>1. \A k \in Runs : run'[k] = IF k = h THEN g ELSE run[k]
    BY <1>14, RefreshParts
  <2> QED BY <1>3, <1>11, <1>13, <1>15, <2>1, RunsKeep
<1>17. RefreshTypeOK'
  <2>1. [src |-> x, row |-> "new"] \in MarkType
    BY DEF MarkType
  <2> QED BY <1>3, <1>7, <1>13, <1>14, <2>1, RefreshParts DEF RefreshTypeOK
<1>18. RequestFine(x, c)'
  <2>1. Carries(x)' = {l}
    BY <1>7, <1>8 DEF Carries
  <2>2. edition'.held
    BY <1>3, <1>5 DEF RequestFine
  <2>3. c.issue # NoLending => IssuedFor(x, c)' /\ (c.alone => LeftAlone(c)')
    BY <1>3, <1>5, <1>8, <1>9, <2>1 DEF RequestFine, IssuedFor, LeftAlone
  <2>4. c.issue = NoLending /\ c.want # "returned" => c.prior
    <3>1. l # c.issue => l \in Carries(x)
      BY <1>6 DEF Carries
    <3> QED BY <1>5, <1>9, <3>1 DEF RequestFine
  <2>5. Renewed(l)'
    BY <1>8 DEF Renewed
  <2>6. (~c.prior /\ c.issue # NoLending => c.want = "issued")
        /\ (c.back => c.want = "returned" /\ c.issue # NoLending)
    BY <1>5 DEF RequestFine
  <2> QED BY <2>1, <2>2, <2>3, <2>4, <2>5, <2>6 DEF RequestFine
<1>19. RequestsFine'
  <2> SUFFICES ASSUME NEW y \in SourceLoans, source'[y] # NoCall, NEW e, e = source'[y]
               PROVE  RequestFine(y, e)'
    BY DEF RequestsFine
  <2>1. CASE y = x
    BY <1>3, <1>4, <1>18, <2>1
  <2>2. CASE y # x
    <3>1. \A z \in SourceLoans \ {x} : source'[z] = source[z]
      BY <1>3
    <3>2. \A k \in Lendings : mark'[k] = mark[k] \/ (mark'[k].src = x /\ mark[k].src \in {NoSource, x})
      BY <1>7, <1>8
    <3>3. ASSUME NEW z \in SourceLoans \ {x}, source[z] # NoCall, source[z].issue # NoLending
          PROVE  /\ mark'[source[z].issue] = mark[source[z].issue]
                 /\ lending'[source[z].issue] = lending[source[z].issue]
                 /\ lending[source[z].issue].status = "issued" => book'[source[z].of] = book[source[z].of]
      <4>1. PICK d \in SourceType : d = source[z]
        BY <3>3, RefreshParts
      <4>2. RequestFine(z, d) /\ d.issue \in Lendings
        BY <3>3, <4>1, RefreshParts, SourceIs DEF RequestsFine
      <4>3. mark[d.issue].src \in {NoSource, z}
        BY <3>3, <4>1, <4>2 DEF RequestFine, IssuedFor
      <4>4. d.issue # l
        <5>1. l = c.issue => d.issue # l
          BY <1>4, <1>9, <3>3, <4>1, RefreshParts DEF IssuesApart
        <5>2. mark[l].src = x => d.issue # l
          BY <1>9, <4>3
        <5> QED BY <1>6, <5>1, <5>2
      <4> QED BY <1>3, <1>8, <4>1, <4>2, <4>4
    <3> QED BY <1>3, <1>11, <2>2, <3>1, <3>2, <3>3, OthersStay
  <2> QED BY <2>1, <2>2
<1>20. IssuesApart'
  BY <1>3, RefreshParts DEF IssuesApart
<1> QED BY <1>3, <1>10, <1>16, <1>17, <1>19, <1>20 DEF RefreshInv, RefreshFine

-----------------------------------------------------------------------------
(* The steps that write a loan *)

(* A loan that is over, and a reservation that is not lent.                 *)
LEMMA HistoryKeeps ==
  ASSUME RefreshInv, NEW h \in Runs, History(h)
  PROVE  RefreshInv' /\ CopiesOnward
<1>1. PICK f : f = run[h]
  OBVIOUS
<1>2. run[h] # Rested /\ f.then = "history"
  BY <1>1 DEF History, AtStep
<1>3. PICK x \in SourceLoans, c \in SourceType : x = f.for /\ c = source[x] /\ c # NoCall
  BY <1>1, <1>2, RunNow
<1>4. RunFine(f) /\ RequestFine(x, c) /\ f \in RunType
  BY <1>1, <1>2, <1>3, RunNow
<1>5. c.want = "returned" /\ ~c.prior /\ c.issue = NoLending /\ ~c.back
  BY <1>2, <1>3, <1>4 DEF RunFine, RequestFine
<1>6. /\ Carries(x) = {}
      /\ UNCHANGED <<edition, book, standing, tally, usable, member, wish, desk, source>>
  BY <1>1, <1>3 DEF History
<1>7. PICK l \in Lendings :
         /\ NewRow(l)
         /\ lending' = [lending EXCEPT ![l] = [status |-> "returned", of |-> c.of, by |-> c.by,
                                               native |-> TRUE, ver |-> 1]]
         /\ mark' = [mark EXCEPT ![l] = [src |-> x, row |-> "new"]]
         /\ run' = [run EXCEPT ![h].then = "link", ![h].row = l]
  BY <1>1, <1>3 DEF History, Goes
<1>8. PICK r : r = [status |-> "returned", of |-> c.of, by |-> c.by, native |-> TRUE, ver |-> 1]
  OBVIOUS
<1>9. r \in LendingType /\ r.status = "returned" /\ r.of \in Books /\ r.by \in Members /\ r.native
  BY <1>8, SourceIs DEF LendingType
<1>10. lending[l].status = "none" /\ l \notin InPlans /\ mark[l].src = NoSource /\ x # NoSource
  BY <1>7, RefreshParts, SourceValues DEF NewRow, MarksFine
<1>11. MayBecome(l, lending[l], r)
  BY <1>9, <1>10 DEF MayBecome, LendingFine, HoldsCopy
<1>12. CopiesInv' /\ CopiesOnward
  BY <1>6, <1>7, <1>8, <1>9, <1>10, <1>11, LoanKeeps, RefreshParts
<1>13. /\ mark'[l].src = x /\ mark'[l].row = "new" /\ lending'[l] = r
       /\ \A k \in Lendings : k # l => mark'[k] = mark[k] /\ lending'[k] = lending[k]
  BY <1>7, <1>8, RefreshParts, CopiesParts
<1>14. MarksFine'
  <2>1. \A k \in Lendings : mark'[k].src # NoSource =>
             lending'[k].status # "none" /\ mark'[k].row # "none"
    BY <1>9, <1>13, RefreshParts DEF MarksFine
  <2>2. \A k \in Lendings : mark[k].src # x
    BY <1>6 DEF Carries
  <2> QED BY <1>13, <2>1, <2>2, RefreshParts DEF MarksFine
<1>15. MarksOn
  BY <1>10, <1>13 DEF MarksOn, Renewed
<1>16. RequestsOn
  BY <1>6 DEF RequestsOn, SameRequest
<1>17. PICK g : g = [f EXCEPT !.then = "link", !.row = l]
  OBVIOUS
<1>18. g \in RunType /\ g.for = x /\ g.then = "link" /\ g.row = l
  BY <1>3, <1>4, <1>17 DEF RunType
<1>19. run' = [run EXCEPT ![h] = g]
  BY <1>1, <1>7, <1>17, RefreshParts
<1>20. RunFine(g)'
  BY <1>3, <1>6, <1>13, <1>18 DEF RunFine, Renewed
<1>21. RunsFine'
  <2>1. \A k \in Runs : run'[k] = IF k = h THEN g ELSE run[k]
    BY <1>19, RefreshParts
  <2> QED BY <1>12, <1>15, <1>16, <1>18, <1>20, <2>1, RunsKeep
<1>22. RefreshTypeOK'
  <2>1. [src |-> x, row |-> "new"] \in MarkType
    BY DEF MarkType
  <2> QED BY <1>6, <1>7, <1>18, <1>19, <2>1, RefreshParts DEF RefreshTypeOK
<1>23. RequestFine(x, c)'
  <2>1. Carries(x)' = {l}
    BY <1>6, <1>13 DEF Carries
  <2>2. Renewed(l)' /\ edition'.held
    BY <1>4, <1>6, <1>13 DEF Renewed, RequestFine
  <2> QED BY <1>5, <2>1, <2>2 DEF RequestFine
<1>24. RequestsFine'
  <2> SUFFICES ASSUME NEW y \in SourceLoans, source'[y] # NoCall, NEW e, e = source'[y]
               PROVE  RequestFine(y, e)'
    BY DEF RequestsFine
  <2>1. CASE y = x
    BY <1>3, <1>6, <1>23, <2>1
  <2>2. CASE y # x
    <3>1. \A z \in SourceLoans \ {x} : source'[z] = source[z]
      BY <1>6
    <3>2. \A k \in Lendings : mark'[k] = mark[k] \/ (mark'[k].src = x /\ mark[k].src \in {NoSource, x})
      BY <1>10, <1>13
    <3>3. ASSUME NEW z \in SourceLoans \ {x}, source[z] # NoCall, source[z].issue # NoLending
          PROVE  /\ mark'[source[z].issue] = mark[source[z].issue]
                 /\ lending'[source[z].issue] = lending[source[z].issue]
                 /\ lending[source[z].issue].status = "issued" => book'[source[z].of] = book[source[z].of]
      <4>1. PICK d \in SourceType : d = source[z]
        BY <3>3, RefreshParts
      <4>2. RequestFine(z, d) /\ d.issue \in Lendings
        BY <3>3, <4>1, RefreshParts, SourceIs DEF RequestsFine
      <4>3. d.issue # l
        BY <1>10, <3>3, <4>1, <4>2 DEF RequestFine, IssuedFor
      <4> QED BY <1>6, <1>13, <4>1, <4>2, <4>3
    <3> QED BY <1>12, <1>15, <2>2, <3>1, <3>2, <3>3, OthersStay
  <2> QED BY <2>1, <2>2
<1>25. IssuesApart'
  BY <1>6, RefreshParts DEF IssuesApart
<1> QED BY <1>12, <1>14, <1>21, <1>22, <1>24, <1>25 DEF RefreshInv, RefreshFine

LEMMA AmendKeeps ==
  ASSUME RefreshInv, NEW h \in Runs, Amend(h)
  PROVE  RefreshInv' /\ CopiesOnward
<1>1. PICK f : f = run[h]
  OBVIOUS
<1>2. run[h] # Rested /\ f.then = "update"
  BY <1>1 DEF Amend, AtStep
<1>3. PICK x \in SourceLoans, c \in SourceType : x = f.for /\ c = source[x] /\ c # NoCall
  BY <1>1, <1>2, RunNow
<1>4. RunFine(f) /\ RequestFine(x, c) /\ f \in RunType
  BY <1>1, <1>2, <1>3, RunNow
<1>5. PICK l \in Lendings : l = f.row /\ mark[l].src = x
  BY <1>2, <1>3, <1>4 DEF RunFine
<1>6. c.want \in {"reserved", "cancelled"} /\ c.prior /\ c.issue = NoLending
  BY <1>2, <1>3, <1>4 DEF RunFine, RequestFine, IssuedFor
<1>7. /\ lending[l].status = "reserved"
      /\ lending' = [lending EXCEPT ![l].status = c.want, ![l].ver = @ + 1]
      /\ mark' = [mark EXCEPT ![l].row = "new"]
      /\ run' = [run EXCEPT ![h].then = "link", ![h].row = l]
      /\ UNCHANGED <<edition, book, standing, tally, usable, member, wish, desk, source>>
  BY <1>1, <1>3, <1>5 DEF Amend, Goes
<1>8. PICK q \in LendingType : q = lending[l]
  BY RefreshParts, CopiesParts
<1>9. PICK r : r = [q EXCEPT !.status = c.want, !.ver = @ + 1]
  OBVIOUS
<1>10. /\ r \in LendingType /\ r.status = c.want /\ r.of = q.of /\ r.by = q.by /\ r.native = q.native
  <2>1. r = [status |-> c.want, of |-> q.of, by |-> q.by, native |-> q.native, ver |-> q.ver + 1]
    BY <1>9 DEF LendingType
  <2>2. q.ver + 1 \in Nat
    BY LendingIs
  <2> QED BY <1>6, <2>1, <2>2, LendingIs DEF LendingType
<1>11. lending' = [lending EXCEPT ![l] = r]
  BY <1>7, <1>8, <1>9, RefreshParts, CopiesParts
<1>12. /\ LendingFine(l, q)
       /\ \A k \in Lendings : HoldsCopy(q) /\ HoldsCopy(lending[k]) /\ lending[k].of = q.of => k = l
  BY <1>8, RefreshParts, CopiesParts DEF LendingsFine, OneClaim
<1>13. MayBecome(l, q, r)
  BY <1>6, <1>7, <1>8, <1>10, <1>12 DEF MayBecome, LendingFine, HoldsCopy
<1>14. CopiesInv' /\ CopiesOnward
  <2>1. lending[l].status # "none" /\ MayBecome(l, lending[l], r)
    BY <1>7, <1>8, <1>13
  <2> QED BY <1>7, <1>10, <1>11, <2>1, LoanKeeps, RefreshParts
<1>15. PICK n \in MarkType : n = mark[l]
  BY RefreshParts
<1>16. PICK nn : nn = [n EXCEPT !.row = "new"]
  OBVIOUS
<1>17. nn = [src |-> x, row |-> "new"] /\ nn \in MarkType
  <2>1. nn = [src |-> n.src, row |-> "new"]
    BY <1>16 DEF MarkType
  <2> QED BY <1>5, <1>15, <2>1 DEF MarkType
<1>18. mark' = [mark EXCEPT ![l] = nn]
  BY <1>7, <1>15, <1>16, RefreshParts
<1>19. /\ mark'[l].src = x /\ mark'[l].row = "new" /\ lending'[l] = r
       /\ \A k \in Lendings : k # l => mark'[k] = mark[k] /\ lending'[k] = lending[k]
  BY <1>11, <1>17, <1>18, RefreshParts, CopiesParts
<1>20. x # NoSource
  BY SourceValues
<1>21. MarksFine'
  BY <1>5, <1>6, <1>10, <1>19, RefreshParts DEF MarksFine
<1>22. MarksOn
  BY <1>5, <1>19 DEF MarksOn, Renewed
<1>23. RequestsOn
  BY <1>7 DEF RequestsOn, SameRequest
<1>24. PICK g : g = [f EXCEPT !.then = "link", !.row = l]
  OBVIOUS
<1>25. g \in RunType /\ g.for = x /\ g.then = "link" /\ g.row = l
  BY <1>3, <1>4, <1>24 DEF RunType
<1>26. run' = [run EXCEPT ![h] = g]
  BY <1>1, <1>7, <1>24, RefreshParts
<1>27. RunFine(g)'
  BY <1>3, <1>7, <1>19, <1>25 DEF RunFine, Renewed
<1>28. RunsFine'
  <2>1. \A k \in Runs : run'[k] = IF k = h THEN g ELSE run[k]
    BY <1>26, RefreshParts
  <2> QED BY <1>14, <1>22, <1>23, <1>25, <1>27, <2>1, RunsKeep
<1>29. RefreshTypeOK'
  <2>1. mark' \in [Lendings -> MarkType]
    BY <1>17, <1>18, RefreshParts
  <2>2. run' \in [Runs -> RunType \cup {Rested}]
    BY <1>25, <1>26, RefreshParts
  <2> QED BY <1>7, <2>1, <2>2, RefreshParts DEF RefreshTypeOK
<1>30. RequestsFine'
  <2> SUFFICES ASSUME NEW y \in SourceLoans, source'[y] # NoCall, NEW e, e = source'[y]
               PROVE  RequestFine(y, e)'
    BY DEF RequestsFine
  <2>1. e = source[y] /\ e \in SourceType /\ RequestFine(y, e)
    BY <1>7, RefreshParts DEF RequestsFine
  <2>2. \A k \in Lendings : mark'[k].src = y <=> mark[k].src = y
    BY <1>5, <1>19
  <2>3. e.issue # NoLending => /\ e.issue \in Lendings /\ mark[e.issue].src \in {NoSource, y}
                               /\ lending[e.issue].status # "none"
    BY <2>1, SourceIs DEF RequestFine, IssuedFor
  <2>4. e.issue # NoLending => e.issue # l
    <3>1. CASE y = x
      BY <1>3, <1>6, <2>1, <3>1
    <3>2. CASE y # x
      BY <1>5, <1>20, <2>3, <3>2
    <3> QED BY <3>1, <3>2
  <2>5. e.issue # NoLending => mark'[e.issue].src \in {NoSource, y}
    BY <1>19, <2>3, <2>4
  <2>6. e.issue # NoLending /\ e.alone /\ LeftAlone(e) => LeftAlone(e)'
    BY <1>7, <1>19, <2>3, <2>4 DEF LeftAlone
  <2> QED BY <1>14, <1>22, <2>1, <2>2, <2>5, <2>6, RequestStays
<1>31. IssuesApart'
  BY <1>7, RefreshParts DEF IssuesApart
<1> QED BY <1>14, <1>21, <1>28, <1>29, <1>30, <1>31 DEF RefreshInv, RefreshFine

-----------------------------------------------------------------------------
(* The child commands *)

LEMMA IssueDoes ==
  ASSUME CopiesInv, NEW p, IssueBatch(p), p.book \in Books, p.row \in Lendings
  PROVE  /\ lending[p.row].status \in {"none", "reserved"} /\ OpenOn(lending, p.book) = {}
         /\ book[p.book].ver = p.cver /\ edition' = edition
         /\ lending'[p.row].status = "issued" /\ lending'[p.row].of = p.book
         /\ lending'[p.row].by = p.by /\ lending'[p.row].ver = lending[p.row].ver + 1
         /\ \A k \in Lendings : k # p.row => lending'[k] = lending[k]
         /\ book'[p.book].ver = book[p.book].ver + 1
         /\ \A b \in Books : book'[b].reg = book[b].reg /\ (b # p.book => book'[b] = book[b])
<1>1. PICK o \in BookType : o = book[p.book]
  BY CopiesParts
<1>2. PICK c : c = [o EXCEPT !.at = "on_loan", !.ver = @ + 1]
  OBVIOUS
<1>3. c.ver = o.ver + 1 /\ c.reg = o.reg
  BY <1>2 DEF BookType
<1>4. book' = [book EXCEPT ![p.book] = c]
  BY <1>1, <1>2, CopiesParts DEF IssueBatch, Written
<1>5. \A b \in Books : book'[b] = IF b = p.book THEN c ELSE book[b]
  BY <1>4, CopiesParts
<1>6. /\ lending' = [lending EXCEPT ![p.row] = [status |-> "issued", of |-> p.book, by |-> p.by,
                                                native |-> TRUE, ver |-> @.ver + 1]]
  BY DEF IssueBatch, Written
<1>7. /\ lending'[p.row] = [status |-> "issued", of |-> p.book, by |-> p.by, native |-> TRUE,
                            ver |-> lending[p.row].ver + 1]
      /\ \A k \in Lendings : k # p.row => lending'[k] = lending[k]
  BY <1>6, CopiesParts
<1>8. /\ lending[p.row].status \in {"none", "reserved"} /\ OpenOn(lending, p.book) = {}
      /\ book[p.book].ver = p.cver /\ edition' = edition
  BY DEF IssueBatch, IssueRow, CopyAsRead
<1> QED BY <1>1, <1>3, <1>5, <1>7, <1>8

LEMMA ReturnDoes ==
  ASSUME CopiesInv, NEW p, ReturnBatch(p), p.book \in Books, p.row \in Lendings
  PROVE  /\ lending[p.row].status = "issued" /\ lending[p.row].ver = p.rver /\ edition' = edition
         /\ lending'[p.row].ver = lending[p.row].ver + 1
         /\ \A k \in Lendings : k # p.row => lending'[k] = lending[k]
         /\ \A b \in Books : book'[b].reg = book[b].reg /\ (b # p.book => book'[b] = book[b])
<1>1. PICK o \in BookType, q \in LendingType : o = book[p.book] /\ q = lending[p.row]
  BY CopiesParts
<1>2. PICK c, r : /\ c = [o EXCEPT !.at = "on_shelf", !.shelf = p.shelf, !.ver = @ + 1]
                  /\ r = [q EXCEPT !.status = "returned", !.ver = @ + 1]
  OBVIOUS
<1>3. c.reg = o.reg /\ r.ver = q.ver + 1
  BY <1>2 DEF BookType, LendingType
<1>4. book' = [book EXCEPT ![p.book] = c] /\ lending' = [lending EXCEPT ![p.row] = r]
  BY <1>1, <1>2, CopiesParts DEF ReturnBatch, Written
<1>5. /\ \A b \in Books : book'[b] = IF b = p.book THEN c ELSE book[b]
      /\ \A k \in Lendings : lending'[k] = IF k = p.row THEN r ELSE lending[k]
  BY <1>4, CopiesParts
<1>6. lending[p.row].status = "issued" /\ lending[p.row].ver = p.rver /\ edition' = edition
  BY DEF ReturnBatch
<1> QED BY <1>1, <1>3, <1>5, <1>6

(* A child command that takes up no row and no copy of a desk.              *)
LEMMA DesksUntouched ==
  ASSUME CopiesInv, desk' = desk, \A b \in Books : book'[b].reg = book[b].reg,
         \A l \in Lendings : lending[l].status = "none" /\ lending'[l].status # "none" => l \notin InPlans
  PROVE  desk' \in [Desks -> DeskPlan \cup {Rested}] /\ DesksStay
<1>1. ASSUME NEW e \in Desks, desk[e] # Rested PROVE NotTaken(desk[e])
  <2>1. PICK p \in DeskPlan : p = desk[e]
    BY <1>1, CopiesParts
  <2>2. p.op = "issue" => p.row \in InPlans /\ p.row \in Lendings
    BY <1>1, <2>1, PlanIs DEF InPlans
  <2>3. p.op = "register" => p.book \in Books
    BY PlanIs
  <2> QED BY <2>1, <2>2, <2>3 DEF NotTaken
<1> QED BY <1>1, CopiesParts DEF DesksStay

LEMMA IssueChildKeeps ==
  ASSUME RefreshInv, NEW h \in Runs, IssueChild(h)
  PROVE  RefreshInv' /\ CopiesOnward
<1>1. PICK f : f = run[h]
  OBVIOUS
<1>2. run[h] # Rested /\ f.then = "issue" /\ desk' = desk /\ mark' = mark
  BY <1>1 DEF IssueChild, AtStep
<1>3. PICK x \in SourceLoans, c \in SourceType : x = f.for /\ c = source[x] /\ c # NoCall
  BY <1>1, <1>2, RunNow
<1>4. RunFine(f) /\ RequestFine(x, c) /\ f \in RunType
  BY <1>1, <1>2, <1>3, RunNow
<1>5. PICK l \in Lendings :
         /\ IF c.prior THEN l = f.row /\ lending[l].ver = c.rver ELSE NewRow(l)
         /\ IssueBatch(IssuePlan(x, l))
         /\ source' = [source EXCEPT ![x].issue = l]
         /\ run' = [run EXCEPT ![h].then = Following(x), ![h].row = l]
  BY <1>1, <1>3 DEF IssueChild, Goes
<1>6. c.issue = NoLending
  BY <1>1, <1>3 DEF IssueChild
<1>7. PICK p : p = IssuePlan(x, l)
  OBVIOUS
<1>8. /\ p.book = c.of /\ p.cver = c.cver /\ p.shelf = book[c.of].shelf /\ p.by = c.by /\ p.row = l
      /\ p.for = NoWish
  BY <1>3, <1>7 DEF IssuePlan
<1>9. c.of \in Books /\ c.by \in Members /\ IssueBatch(p) /\ CopiesInv
  BY <1>5, <1>7, SourceIs, RefreshParts
<1>10. /\ lending[l].status \in {"none", "reserved"} /\ OpenOn(lending, c.of) = {}
       /\ book[c.of].ver = c.cver /\ edition' = edition
       /\ lending'[l].status = "issued" /\ lending'[l].of = c.of
       /\ lending'[l].by = c.by /\ lending'[l].ver = lending[l].ver + 1
       /\ \A k \in Lendings : k # l => lending'[k] = lending[k]
       /\ book'[c.of].ver = book[c.of].ver + 1
       /\ \A b \in Books : book'[b].reg = book[b].reg /\ (b # c.of => book'[b] = book[b])
  BY <1>8, <1>9, IssueDoes
<1>11. /\ c.prior => mark[l].src = x /\ lending[l].of = c.of /\ lending[l].by = c.by
       /\ ~c.prior => lending[l].status = "none" /\ l \notin InPlans /\ mark[l].src = NoSource
       /\ x # NoSource
  BY <1>2, <1>3, <1>4, <1>5, RefreshParts, SourceValues DEF RunFine, NewRow, MarksFine
<1>12. CopiesInv' /\ CopiesOnward
  <2>1. RowOf(p.row, p.book, p.by)
    BY <1>8, <1>11 DEF RowOf
  <2>2. lending[l].status = "none" => l \notin InPlans
    BY <1>11, <1>3, RefreshParts DEF MarksFine
  <2>3. desk' \in [Desks -> DeskPlan \cup {Rested}] /\ DesksStay
    <3>1. \A k \in Lendings : lending[k].status = "none" /\ lending'[k].status # "none" => k \notin InPlans
      BY <1>10, <2>2
    <3>2. \A b \in Books : book'[b].reg = book[b].reg
      BY <1>10
    <3> QED BY <1>2, <1>9, <3>1, <3>2, DesksUntouched
  <2> QED BY <1>8, <1>9, <2>1, <2>3, IssueKeeps
<1>13. PICK e : e = [c EXCEPT !.issue = l]
  OBVIOUS
<1>14. /\ e \in SourceType /\ e.want = c.want /\ e.of = c.of /\ e.by = c.by /\ e.prior = c.prior
       /\ e.rver = c.rver /\ e.cver = c.cver /\ e.issue = l /\ e.back = c.back /\ e.alone = c.alone
       /\ e.done = c.done
  <2>1. e = [want |-> c.want, of |-> c.of, by |-> c.by, prior |-> c.prior, rver |-> c.rver,
             cver |-> c.cver, mver |-> c.mver, issue |-> l, back |-> c.back, done |-> c.done,
             alone |-> c.alone]
    BY <1>13 DEF SourceType
  <2>2. e \in SourceType
    BY <2>1, SourceIs DEF SourceType
  <2> QED BY <2>1, <2>2
<1>15. source' = [source EXCEPT ![x] = e]
  BY <1>3, <1>5, <1>13, RefreshParts
<1>16. \A y \in SourceLoans : source'[y] = IF y = x THEN e ELSE source[y]
  BY <1>15, RefreshParts
<1>17. e # NoCall /\ l # NoLending
  BY <1>14, RequestAssumption, CopyValues
<1>18. MarksFine' /\ MarksOn
  BY <1>2, <1>12, MarksRest
<1>19. RequestsOn
  BY <1>3, <1>6, <1>14, <1>16, <1>17 DEF RequestsOn, SameRequest
<1>20. PICK g : g = [f EXCEPT !.then = Following(x), !.row = l]
  OBVIOUS
<1>21. g \in RunType /\ g.for = x /\ g.then = Following(x) /\ g.row = l
  <2>1. Following(x) \in {"return", "link"}
    BY DEF Following
  <2>2. g = [for |-> x, then |-> Following(x), row |-> l]
    BY <1>3, <1>4, <1>20 DEF RunType
  <2> QED BY <2>1, <2>2 DEF RunType
<1>22. run' = [run EXCEPT ![h] = g]
  BY <1>1, <1>5, <1>20, RefreshParts
<1>23. RunFine(g)'
  <2>1. g.then = "return" => c.want = "returned"
    BY <1>3, <1>21 DEF Following
  <2>2. g.then \in {"return", "link"}
    BY <1>21 DEF Following
  <2> QED BY <1>14, <1>16, <1>17, <1>21, <2>1, <2>2 DEF RunFine
<1>24. RunsFine'
  <2>1. \A k \in Runs : run'[k] = IF k = h THEN g ELSE run[k]
    BY <1>22, RefreshParts
  <2> QED BY <1>12, <1>18, <1>19, <1>21, <1>23, <2>1, RunsKeep
<1>25. RefreshTypeOK'
  <2>1. source' \in [SourceLoans -> SourceType \cup {NoCall}]
    BY <1>14, <1>15, RefreshParts
  <2>2. run' \in [Runs -> RunType \cup {Rested}]
    BY <1>21, <1>22, RefreshParts
  <2> QED BY <1>2, <2>1, <2>2, RefreshParts DEF RefreshTypeOK
<1>26. c.want \in {"issued", "returned"} /\ (~c.prior => c.want = "issued")
  BY <1>2, <1>3, <1>4 DEF RunFine
<1>27. Carries(x) \subseteq {l} /\ Carries(x)' = Carries(x)
  <2>1. c.prior => \A k \in Lendings : mark[k].src = x => k = l
    BY <1>11, RefreshParts DEF MarksFine
  <2>2. ~c.prior => Carries(x) = {}
    BY <1>4, <1>6, <1>26 DEF RequestFine
  <2> QED BY <1>2, <2>1, <2>2 DEF Carries
<1>28. RequestFine(x, e)'
  <2>1. IssuedFor(x, e)'
    BY <1>2, <1>10, <1>11, <1>14, <1>26, <1>27 DEF IssuedFor
  <2>2. ~c.back
    BY <1>4, <1>6 DEF RequestFine
  <2>3. LeftAlone(e)'
    BY <1>5, <1>10, <1>14, <2>2 DEF LeftAlone
  <2>4. /\ edition'.held /\ (c.prior => Carries(x) # {})
        /\ ~c.prior => \A k \in Carries(x) : Renewed(k)
        /\ c.done => \E k \in Carries(x) : Renewed(k)
    BY <1>4, <1>10 DEF RequestFine
  <2>5. \A k : Renewed(k)' <=> Renewed(k)
    BY <1>2 DEF Renewed
  <2> QED BY <1>14, <1>17, <1>26, <1>27, <2>1, <2>2, <2>3, <2>4, <2>5 DEF RequestFine
<1>29. ASSUME NEW z \in SourceLoans \ {x}, source[z] # NoCall, source[z].issue # NoLending
       PROVE  source[z].issue # l /\ source[z].issue \in Lendings
  <2>1. PICK d \in SourceType : d = source[z]
    BY <1>29, RefreshParts
  <2>2. RequestFine(z, d) /\ d.issue \in Lendings
    BY <1>29, <2>1, RefreshParts, SourceIs DEF RequestsFine
  <2>3. mark[d.issue].src \in {NoSource, z} /\ lending[d.issue].status # "none"
    BY <1>29, <2>1, <2>2 DEF RequestFine, IssuedFor
  <2> QED BY <1>11, <2>1, <2>2, <2>3
<1>30. RequestsFine'
  <2> SUFFICES ASSUME NEW y \in SourceLoans, source'[y] # NoCall, NEW r, r = source'[y]
               PROVE  RequestFine(y, r)'
    BY DEF RequestsFine
  <2>1. CASE y = x
    BY <1>16, <1>28, <2>1
  <2>2. CASE y # x
    <3>1. \A z \in SourceLoans \ {x} : source'[z] = source[z]
      BY <1>16
    <3>2. \A k \in Lendings : mark'[k] = mark[k] \/ (mark'[k].src = x /\ mark[k].src \in {NoSource, x})
      BY <1>2
    <3>3. ASSUME NEW z \in SourceLoans \ {x}, source[z] # NoCall, source[z].issue # NoLending
          PROVE  /\ mark'[source[z].issue] = mark[source[z].issue]
                 /\ lending'[source[z].issue] = lending[source[z].issue]
                 /\ lending[source[z].issue].status = "issued" => book'[source[z].of] = book[source[z].of]
      <4>1. PICK d \in SourceType : d = source[z]
        BY <3>3, RefreshParts
      <4>2. RequestFine(z, d) /\ d.of \in Books
        BY <3>3, <4>1, RefreshParts, SourceIs DEF RequestsFine
      <4>3. lending[d.issue].of = d.of /\ d.issue # l /\ d.issue \in Lendings
        BY <1>29, <3>3, <4>1, <4>2 DEF RequestFine, IssuedFor
      <4>4. lending[d.issue].status = "issued" => d.of # c.of
        BY <1>10, <4>3 DEF OpenOn
      <4> QED BY <1>2, <1>10, <4>1, <4>2, <4>3, <4>4
    <3> QED BY <1>12, <1>18, <2>2, <3>1, <3>2, <3>3, OthersStay
  <2> QED BY <2>1, <2>2
<1>31. IssuesApart'
  <2> SUFFICES ASSUME NEW y \in SourceLoans, NEW z \in SourceLoans, y # z, source'[y] # NoCall,
                      source'[z] # NoCall, source'[y].issue # NoLending
               PROVE  source'[y].issue # source'[z].issue
    BY DEF IssuesApart
  <2>1. CASE y = x
    BY <1>14, <1>16, <1>17, <1>29, <2>1
  <2>2. CASE z = x
    BY <1>14, <1>16, <1>29, <2>2
  <2>3. CASE y # x /\ z # x
    BY <1>16, <2>3, RefreshParts DEF IssuesApart
  <2> QED BY <2>1, <2>2, <2>3
<1> QED BY <1>12, <1>18, <1>24, <1>25, <1>30, <1>31 DEF RefreshInv, RefreshFine

LEMMA ReturnChildKeeps ==
  ASSUME RefreshInv, NEW h \in Runs, ReturnChild(h)
  PROVE  RefreshInv' /\ CopiesOnward
<1>1. PICK f : f = run[h]
  OBVIOUS
<1>2. run[h] # Rested /\ f.then = "return" /\ desk' = desk /\ mark' = mark
  BY <1>1 DEF ReturnChild, AtStep
<1>3. PICK x \in SourceLoans, c \in SourceType : x = f.for /\ c = source[x] /\ c # NoCall
  BY <1>1, <1>2, RunNow
<1>4. RunFine(f) /\ RequestFine(x, c) /\ f \in RunType
  BY <1>1, <1>2, <1>3, RunNow
<1>5. c.want = "returned" /\ c.issue # NoLending /\ f.row = c.issue /\ c.prior /\ IssuedFor(x, c)
  BY <1>2, <1>3, <1>4 DEF RunFine, RequestFine
<1>6. PICK l \in Lendings : l = c.issue /\ l = f.row
  BY <1>5, SourceIs
<1>7. /\ ReturnBatch(ReturnPlan(x, l)) /\ source' = [source EXCEPT ![x].back = TRUE] /\ ~c.back
      /\ run' = [run EXCEPT ![h].then = "link", ![h].row = l]
  BY <1>1, <1>3, <1>6 DEF ReturnChild, Goes
<1>8. PICK p : p = ReturnPlan(x, l)
  OBVIOUS
<1>9. p.book = c.of /\ p.row = l /\ p.rver = c.rver + 1 /\ p.shelf = MainShelf
  BY <1>3, <1>8 DEF ReturnPlan
<1>10. c.of \in Books /\ MainShelf \in Shelves /\ ReturnBatch(p) /\ CopiesInv
  BY <1>7, <1>8, SourceIs, RefreshParts, CopyValues
<1>11. /\ lending[l].status = "issued" /\ lending[l].ver = c.rver + 1 /\ edition' = edition
       /\ lending'[l].ver = lending[l].ver + 1
       /\ \A k \in Lendings : k # l => lending'[k] = lending[k]
       /\ \A b \in Books : book'[b].reg = book[b].reg /\ (b # c.of => book'[b] = book[b])
  BY <1>9, <1>10, ReturnDoes
<1>12. lending[l].of = c.of /\ x # NoSource
  BY <1>5, <1>6, SourceValues DEF IssuedFor
<1>13. CopiesInv' /\ CopiesOnward
  <2>1. desk' \in [Desks -> DeskPlan \cup {Rested}] /\ DesksStay
    <3>1. \A k \in Lendings : lending[k].status = "none" /\ lending'[k].status # "none" => k \notin InPlans
      BY <1>11
    <3>2. \A b \in Books : book'[b].reg = book[b].reg
      BY <1>11
    <3> QED BY <1>2, <1>10, <3>1, <3>2, DesksUntouched
  <2> QED BY <1>9, <1>10, <1>12, <2>1, ReturnKeeps
<1>14. PICK e : e = [c EXCEPT !.back = TRUE]
  OBVIOUS
<1>15. /\ e \in SourceType /\ e.want = c.want /\ e.of = c.of /\ e.by = c.by /\ e.prior = c.prior
       /\ e.rver = c.rver /\ e.cver = c.cver /\ e.issue = c.issue /\ e.back /\ e.alone = c.alone
       /\ e.done = c.done
  <2>1. e = [want |-> c.want, of |-> c.of, by |-> c.by, prior |-> c.prior, rver |-> c.rver,
             cver |-> c.cver, mver |-> c.mver, issue |-> c.issue, back |-> TRUE, done |-> c.done,
             alone |-> c.alone]
    BY <1>14 DEF SourceType
  <2>2. e \in SourceType
    BY <2>1, SourceIs DEF SourceType
  <2> QED BY <2>1, <2>2
<1>16. source' = [source EXCEPT ![x] = e]
  BY <1>3, <1>7, <1>14, RefreshParts
<1>17. \A y \in SourceLoans : source'[y] = IF y = x THEN e ELSE source[y]
  BY <1>16, RefreshParts
<1>18. e # NoCall
  BY <1>15, RequestAssumption
<1>19. MarksFine' /\ MarksOn
  BY <1>2, <1>13, MarksRest
<1>20. RequestsOn
  BY <1>3, <1>15, <1>17, <1>18 DEF RequestsOn, SameRequest
<1>21. PICK g : g = [f EXCEPT !.then = "link", !.row = l]
  OBVIOUS
<1>22. g \in RunType /\ g.for = x /\ g.then = "link" /\ g.row = l
  BY <1>3, <1>4, <1>21 DEF RunType
<1>23. run' = [run EXCEPT ![h] = g]
  BY <1>1, <1>7, <1>21, RefreshParts
<1>24. RunFine(g)'
  BY <1>6, <1>15, <1>17, <1>18, <1>22 DEF RunFine
<1>25. RunsFine'
  <2>1. \A k \in Runs : run'[k] = IF k = h THEN g ELSE run[k]
    BY <1>23, RefreshParts
  <2> QED BY <1>13, <1>19, <1>20, <1>22, <1>24, <2>1, RunsKeep
<1>26. RefreshTypeOK'
  <2>1. source' \in [SourceLoans -> SourceType \cup {NoCall}]
    BY <1>15, <1>16, RefreshParts
  <2>2. run' \in [Runs -> RunType \cup {Rested}]
    BY <1>22, <1>23, RefreshParts
  <2> QED BY <1>2, <2>1, <2>2, RefreshParts DEF RefreshTypeOK
<1>27. RequestFine(x, e)'
  <2>1. Carries(x)' = Carries(x) /\ \A k : Renewed(k)' <=> Renewed(k)
    BY <1>2 DEF Carries, Renewed
  <2>2. IssuedFor(x, e)'
    BY <1>2, <1>5, <1>6, <1>13, <1>15, <2>1 DEF IssuedFor, CopiesOnward, CirculationStep
  <2>3. LeftAlone(e)'
    <3>1. c.rver \in Nat
      BY SourceIs
    <3>2. lending'[l].ver = c.rver + 2
      BY <1>11, <3>1
    <3> QED BY <1>6, <1>15, <3>2 DEF LeftAlone
  <2>4. edition'.held /\ Carries(x) # {} /\ (c.done => \E k \in Carries(x) : Renewed(k))
    BY <1>4, <1>5, <1>11 DEF RequestFine
  <2> QED BY <1>5, <1>15, <2>1, <2>2, <2>3, <2>4 DEF RequestFine
<1>28. RequestsFine'
  <2> SUFFICES ASSUME NEW y \in SourceLoans, source'[y] # NoCall, NEW r, r = source'[y]
               PROVE  RequestFine(y, r)'
    BY DEF RequestsFine
  <2>1. CASE y = x
    BY <1>17, <1>27, <2>1
  <2>2. CASE y # x
    <3>1. \A z \in SourceLoans \ {x} : source'[z] = source[z]
      BY <1>17
    <3>2. \A k \in Lendings : mark'[k] = mark[k] \/ (mark'[k].src = x /\ mark[k].src \in {NoSource, x})
      BY <1>2
    <3>3. ASSUME NEW z \in SourceLoans \ {x}, source[z] # NoCall, source[z].issue # NoLending
          PROVE  /\ mark'[source[z].issue] = mark[source[z].issue]
                 /\ lending'[source[z].issue] = lending[source[z].issue]
                 /\ lending[source[z].issue].status = "issued" => book'[source[z].of] = book[source[z].of]
      <4>1. PICK d \in SourceType : d = source[z]
        BY <3>3, RefreshParts
      <4>2. RequestFine(z, d) /\ d.of \in Books /\ d.issue \in Lendings
        BY <3>3, <4>1, RefreshParts, SourceIs DEF RequestsFine
      <4>3. lending[d.issue].of = d.of
        BY <3>3, <4>1, <4>2 DEF RequestFine, IssuedFor
      <4>4. d.issue # l
        BY <1>3, <1>5, <1>6, <3>3, <4>1, RefreshParts DEF IssuesApart
      <4>5. lending[d.issue].status = "issued" => d.of # c.of
        BY <1>10, <1>11, <1>12, <4>2, <4>3, <4>4, CopiesParts DEF OneClaim, HoldsCopy
      <4> QED BY <1>2, <1>11, <4>1, <4>2, <4>4, <4>5
    <3> QED BY <1>13, <1>19, <2>2, <3>1, <3>2, <3>3, OthersStay
  <2> QED BY <2>1, <2>2
<1>29. IssuesApart'
  <2>1. \A y \in SourceLoans : source'[y] # NoCall =>
           source[y] # NoCall /\ source'[y].issue = source[y].issue
    BY <1>3, <1>15, <1>17
  <2> QED BY <2>1, RefreshParts DEF IssuesApart
<1> QED BY <1>13, <1>19, <1>25, <1>26, <1>28, <1>29 DEF RefreshInv, RefreshFine

-----------------------------------------------------------------------------
(* The steps of a refresh together *)

LEMMA RefreshStart ==
  ASSUME RefreshInit
  PROVE  RefreshInv
<1>1. CopiesInv
  BY CopiesStart DEF RefreshInit
<1>2. source = [x \in SourceLoans |-> NoCall] /\ run = [h \in Runs |-> Rested]
  BY DEF RefreshInit
<1>3. PICK id \in [OldLendings -> SourceLoans] :
        /\ \A k, l \in OldLendings : id[k] = id[l] => k = l
        /\ mark = [l \in Lendings |-> IF l \in OldLendings THEN [src |-> id[l], row |-> "old"]
                                      ELSE [src |-> NoSource, row |-> "none"]]
  BY DEF RefreshInit
<1>4. ASSUME NEW l \in Lendings
      PROVE  /\ mark[l] \in MarkType
             /\ mark[l].src = IF l \in OldLendings THEN id[l] ELSE NoSource
             /\ mark[l].row = IF l \in OldLendings THEN "old" ELSE "none"
  BY <1>3 DEF MarkType
<1>5. RefreshTypeOK
  <2>1. mark \in [Lendings -> MarkType]
    BY <1>3, <1>4
  <2> QED BY <1>2, <2>1 DEF RefreshTypeOK
<1>6. MarksFine
  <2>1. \A l \in Lendings : l \in OldLendings => lending[l].status # "none"
    BY CopiesStart DEF RefreshInit
  <2> QED BY <1>3, <1>4, <2>1 DEF MarksFine
<1>7. RequestsFine /\ IssuesApart /\ RunsFine
  BY <1>2 DEF RequestsFine, IssuesApart, RunsFine
<1> QED BY <1>1, <1>5, <1>6, <1>7 DEF RefreshInv, RefreshFine

LEMMA RefreshStep ==
  ASSUME RefreshInv, RefreshNext
  PROVE  RefreshInv' /\ CopiesOnward
<1>1. CASE Elsewhere
  BY <1>1, ElsewhereKeeps
<1>2. CASE \E x \in SourceLoans, want \in Wanted, b \in Books, m \in Members : Request(x, want, b, m)
  BY <1>2, RequestKeeps
<1>3. ASSUME NEW h \in Runs,
             \/ \E x \in SourceLoans : Begin(h, x)
             \/ History(h) \/ Amend(h) \/ IssueChild(h) \/ IssueAgain(h)
             \/ ReturnChild(h) \/ ReturnAgain(h) \/ Link(h) \/ Complete(h) \/ Stop(h)
      PROVE  RefreshInv' /\ CopiesOnward
  <2> HIDE DEF RefreshInv, CopiesOnward
  <2>1. CASE \E x \in SourceLoans : Begin(h, x)
    BY <2>1, BeginKeeps
  <2>2. CASE History(h)
    BY <2>2, HistoryKeeps
  <2>3. CASE Amend(h)
    BY <2>3, AmendKeeps
  <2>4. CASE IssueChild(h)
    BY <2>4, IssueChildKeeps
  <2>5. CASE ReturnChild(h)
    BY <2>5, ReturnChildKeeps
  <2>6. CASE IssueAgain(h) \/ ReturnAgain(h) \/ Stop(h)
    BY <2>6, AgainKeeps
  <2>7. CASE Link(h)
    BY <2>7, LinkKeeps
  <2>8. CASE Complete(h)
    BY <2>8, CompleteKeeps
  <2> QED BY <1>3, <2>1, <2>2, <2>3, <2>4, <2>5, <2>6, <2>7, <2>8
<1> QED BY <1>1, <1>2, <1>3 DEF RefreshNext

LEMMA RefreshRest ==
  ASSUME RefreshInv, UNCHANGED <<copyVars, refreshVars>>
  PROVE  RefreshInv' /\ CopiesOnward
<1>1. /\ CopiesInv' /\ CopiesOnward /\ mark' = mark /\ run' = run /\ source' = source
      /\ UNCHANGED <<edition, book, lending>>
  BY CopiesRest, RefreshParts DEF copyVars, refreshVars
<1>2. MarksFine' /\ MarksOn /\ RequestsOn
  BY <1>1, MarksRest DEF RequestsOn, SameRequest
<1>3. RunsFine'
  BY <1>1, <1>2, RunsRest
<1>4. RefreshTypeOK'
  BY <1>1, RefreshParts DEF RefreshTypeOK
<1>5. RequestsFine' /\ IssuesApart'
  BY <1>1, RefreshParts DEF RequestsFine, RequestFine, IssuedFor, LeftAlone, Carries, Renewed, IssuesApart
<1> QED BY <1>1, <1>2, <1>3, <1>4, <1>5 DEF RefreshInv, RefreshFine

LEMMA RefreshHolds == RefreshSpec => []RefreshInv /\ [][CirculationStep]_copyVars
<1>1. RefreshInit => RefreshInv
  BY RefreshStart
<1>2. RefreshInv /\ [RefreshNext]_<<copyVars, refreshVars>> => RefreshInv'
  BY RefreshStep, RefreshRest
<1>3. RefreshInv /\ [RefreshNext]_<<copyVars, refreshVars>> => [CirculationStep]_copyVars
  BY RefreshStep, RefreshRest DEF CopiesOnward
<1> QED BY <1>1, <1>2, <1>3, PTL DEF RefreshSpec

LEMMA RefreshIsSound ==
  ASSUME RefreshInv
  PROVE  RefreshSound
<1>1. CopiesSound
  BY RefreshParts, CopiesAreSound
<1>2. ASSUME NEW x \in SourceLoans PROVE Cardinality(Carries(x)) <= 1
  <2>1. \A k, l \in Carries(x) : k = l
    BY SourceValues, RefreshParts DEF MarksFine, Carries
  <2>2. CASE Carries(x) = {}
    BY <2>2, FS_EmptySet
  <2>3. CASE Carries(x) # {}
    <3>1. PICK l : Carries(x) = {l}
      BY <2>1, <2>3
    <3>2. Cardinality({l}) = 1
      BY FS_Singleton
    <3> QED BY <3>1, <3>2
  <2> QED BY <2>2, <2>3
<1>3. SourceOnce
  <2>1. ASSUME NEW x \in SourceLoans, source[x] # NoCall
        PROVE  /\ source[x].issue # NoLending => Carries(x) \subseteq {source[x].issue}
               /\ source[x].done => \E l \in Carries(x) : mark[l].row = "new"
    <3>1. PICK c : c = source[x]
      OBVIOUS
    <3>2. RequestFine(x, c)
      BY <2>1, <3>1, RefreshParts DEF RequestsFine
    <3> QED BY <3>1, <3>2 DEF RequestFine, IssuedFor, Renewed
  <2> QED BY <1>2, <2>1 DEF SourceOnce
<1>4. ASSUME NEW x \in SourceLoans, source[x] # NoCall, NEW c, c = source[x]
      PROVE  /\ ~c.done /\ c.alone /\ (c.issue # NoLending \/ \E l \in Carries(x) : mark[l].row = "new")
                  => Way(x) # "refuse"
             /\ c.alone /\ c.issue # NoLending /\ c.want = "returned" /\ ~c.back =>
                  /\ CopyAsRead(c.of, c.cver + 1) /\ lending[c.issue].ver = c.rver + 1
                  /\ lending[c.issue].status = "issued" /\ MainShelf \in usable
  <2>1. c \in SourceType /\ RequestFine(x, c)
    BY <1>4, RefreshParts DEF RequestsFine
  <2>2. MainShelf \in usable
    BY RefreshParts, CopiesParts DEF EditionFine
  <2>3. ASSUME c.alone, c.issue # NoLending, c.want = "returned", ~c.back
        PROVE  /\ CopyAsRead(c.of, c.cver + 1) /\ lending[c.issue].ver = c.rver + 1
               /\ lending[c.issue].status = "issued" /\ MainShelf \in usable
    <3>1. LeftAlone(c) /\ c.prior
      BY <2>1, <2>3, SourceIs DEF RequestFine
    <3> QED BY <2>2, <2>3, <3>1 DEF LeftAlone, CopyAsRead
  <2>4. ASSUME c.alone, c.issue # NoLending \/ \E l \in Carries(x) : mark[l].row = "new"
        PROVE  Way(x) # "refuse"
    <3>1. c.want \in {"issued", "returned"} \/ Carries(x) # {}
      BY <2>1, <2>4 DEF RequestFine, IssuedFor
    <3>2. CASE Carries(x) = {}
      <4>1. c.issue # NoLending
        BY <2>4, <3>2
      <4>2. ~c.prior /\ c.want = "issued"
        BY <2>1, <3>2, <4>1 DEF RequestFine
      <4> QED BY <1>4, <3>2, <4>2 DEF Way
    <3>3. CASE Carries(x) # {}
      <4>1. PICK n \in Carries(x) : n = Now(Carries(x))
        BY <3>3 DEF Now
      <4>2. CASE Renewed(n)
        BY <1>4, <3>3, <4>1, <4>2 DEF Way, Renewed
      <4>3. CASE ~Renewed(n)
        <5>1. n \in Lendings /\ mark[n].src = x /\ \A l \in Carries(x) : l = n
          BY <4>1, SourceValues, RefreshParts DEF Carries, MarksFine
        <5>2. c.issue # NoLending /\ c.prior
          BY <2>1, <2>4, <4>1, <4>3, <5>1, SourceIs DEF RequestFine, Renewed
        <5>3. IssuedFor(x, c) /\ LeftAlone(c) /\ edition.held
          BY <2>1, <2>4, <5>2 DEF RequestFine
        <5>4. n = c.issue
          BY <4>1, <5>3 DEF IssuedFor
        <5>5. lending[n].native
          <6>1. LendingFine(n, lending[n]) /\ lending[n].of \in Books
            BY <2>1, <5>1, <5>3, <5>4, RefreshParts, CopiesParts, SourceIs DEF LendingsFine, IssuedFor
          <6> QED BY <5>3, <6>1 DEF LendingFine
        <5>6. mark[n].row = "old"
          <6>1. mark[n].row \in {"none", "old", "new"} /\ mark[n].row # "none"
            BY <5>1, MarkIs, SourceValues, RefreshParts DEF MarksFine
          <6> QED BY <4>3, <6>1 DEF Renewed
        <5>7. lending[n].ver = c.rver + OwnSteps(x, n)
          BY <1>4, <5>2, <5>3, <5>4 DEF LeftAlone, OwnSteps
        <5>8. AsExpected(x, n)
          BY <1>4, <5>2, <5>3, <5>4, <5>5, <5>6, <5>7 DEF AsExpected, IssuedFor
        <5> QED BY <1>4, <3>3, <4>1, <4>3, <5>3, <5>4, <5>8 DEF Way, IssuedFor, Renewed
      <4> QED BY <4>2, <4>3
    <3> QED BY <3>2, <3>3
  <2> QED BY <2>3, <2>4
<1>5. Resumable
  BY <1>4 DEF Resumable
<1> QED BY <1>1, <1>3, <1>5 DEF RefreshSound

(* Every variable keeps the type it is declared with, those of the copies   *)
(* and those of the refresh.                                                *)
THEOREM RefreshTyped == RefreshSpec => [](CopiesTypeOK /\ RefreshTypeOK)
<1>1. RefreshInv => CopiesTypeOK /\ RefreshTypeOK
  BY DEF RefreshInv, CopiesInv
<1> QED BY <1>1, RefreshHolds, PTL

(* A source loan becomes one loan here however often its request is begun,  *)
(* and a request that wrote something can go on, while everything a desk    *)
(* does keeps the copies counted and lent once.                             *)
THEOREM RefreshSafe == RefreshSpec => []RefreshSound
<1>1. RefreshInv => RefreshSound
  BY RefreshIsSound
<1> QED BY <1>1, RefreshHolds, PTL

(* What is over is not taken up again by a refresh either.                  *)
THEOREM RefreshKept == RefreshSpec => [][CirculationStep]_copyVars
BY RefreshHolds, PTL

=============================================================================
