----------------------------- MODULE HostedImport -----------------------------
(***************************************************************************)
(* The one import of the library: src/app/api/internal/library-import/*,   *)
(* src/lib/staging-import-api.ts and src/lib/d1-import-runtime.ts.  A plan *)
(* is uploaded to a private object, compared with the empty database,      *)
(* written by one batch, verified, and its object removed.  One row of     *)
(* migration_import_runs says how far the plan came; the gate has a        *)
(* deadline, after which only verify and cleanup are served.               *)
(*                                                                         *)
(* A handler reads the row, then touches bucket and database one await at  *)
(* a time.  Other handlers, the deadline, a crash or an error may come     *)
(* between any two.                                                        *)
(*                                                                         *)
(* Abstractions: one pinned plan, one gate and one owner; the rows of the  *)
(* plan are all there or not, as their one batch leaves them; the checks   *)
(* of the bytes of the object, of its metadata and of the search index are *)
(* left out, as are writes of the librarian, which the gate's              *)
(* configuration forbids while it is on.                                   *)
(***************************************************************************)
EXTENDS Integers, FiniteSets

CONSTANTS
    ImportRuns,       \* ids of runs, which name their object too
    Importers,      \* concurrently running handler invocations
    Staging,        \* TRUE where the target may be reset
    Calm, NoImport     \* model values

ASSUME ImportAssumption ==
    /\ Staging \in BOOLEAN
    /\ NoImport \notin ImportRuns

VARIABLES
    active,     \* the gate's deadline has not passed
    attempt,    \* the row of migration_import_runs
    stored,     \* the runs whose private object exists
    loaded,     \* the run whose rows the database holds
    importer,   \* handler -> where it is
    minted,     \* run ids that were drawn
    stray       \* runs whose object a call that died, or a reset, gave up

importVars == <<active, attempt, stored, loaded, importer, minted, stray>>

RunStages == {"uploaded", "preflighted", "committed", "verified", "cleaned"}
ImportCalls == {"upload", "replay", "preflight", "commit", "verify", "cleanup"}
ImportPoints == {"put", "insert", "settle", "head", "repair", "deadline", "reload",
                 "load", "inspect", "write", "claim", "sweep", "remove"}
NoRunRow == [id |-> NoImport, status |-> "uploaded", abandoned |-> FALSE]
ImportRow == [id : ImportRuns \cup {NoImport}, status : RunStages, abandoned : BOOLEAN]
ImportPlan == [call : ImportCalls, at : ImportPoints, id : ImportRuns, status : RunStages]

ASSUME CalmAssumption == Calm \notin ImportPlan

ImportTypeOK ==
    /\ active \in BOOLEAN
    /\ attempt \in ImportRow
    /\ stored \subseteq ImportRuns
    /\ loaded \in ImportRuns \cup {NoImport}
    /\ importer \in [Importers -> ImportPlan \cup {Calm}]
    /\ minted \subseteq ImportRuns
    /\ stray \subseteq ImportRuns

ImportInit ==
    /\ active = TRUE
    /\ attempt = NoRunRow
    /\ stored = {}
    /\ loaded = NoImport
    /\ importer = [w \in Importers |-> Calm]
    /\ minted = {}
    /\ stray = {}

AtPoint(w, p) == importer[w] # Calm /\ importer[w].at = p
Proceed(w, p) == importer' = [importer EXCEPT ![w].at = p]
Answer(w) == importer' = [importer EXCEPT ![w] = Calm]

(* The row is read; what the call does next depends on what was read.  The
   expired gate is accepted by verify and cleanup only, and a run nobody
   verified is abandoned only once it expired.                             *)
Mint(w, s) ==
    /\ importer[w] = Calm
    /\ active
    /\ attempt.id = NoImport
    /\ s \notin minted
    /\ minted' = minted \cup {s}
    /\ importer' = [importer EXCEPT ![w] =
         [call |-> "upload", at |-> "put", id |-> s, status |-> "uploaded"]]
    /\ UNCHANGED <<active, attempt, stored, loaded, stray>>

ServesCall(c, status) ==
    \/ c = "replay" /\ active /\ status # "cleaned"
    \/ c = "preflight" /\ active /\ status = "uploaded"
    \/ c = "commit" /\ active /\ status = "preflighted"
    \/ c = "verify" /\ status = "committed"
    \/ c = "cleanup" /\ status \in {"verified", "cleaned"}
    \/ c = "cleanup" /\ ~active /\ status \in {"uploaded", "preflighted"}

StartsAt(c, status) ==
    CASE c = "replay" -> "head"
      [] c = "cleanup" -> IF status = "cleaned" THEN "sweep" ELSE "claim"
      [] OTHER -> "load"

Require(w, c) ==
    /\ importer[w] = Calm
    /\ attempt.id # NoImport
    /\ ServesCall(c, attempt.status)
    /\ importer' = [importer EXCEPT ![w] =
         [call |-> c, at |-> StartsAt(c, attempt.status),
          id |-> attempt.id, status |-> attempt.status]]
    /\ UNCHANGED <<active, attempt, stored, loaded, minted, stray>>

(* The first upload stores the object, then its row.  When the row cannot be
   stored, or nobody knows whether it was, the row is read again: an object
   that is not its own is removed.                                         *)
PutPlan(w) ==
    /\ AtPoint(w, "put")
    /\ IF active
       THEN stored' = stored \cup {importer[w].id} /\ Proceed(w, "insert")
       ELSE stored' = stored /\ Answer(w)
    /\ UNCHANGED <<active, attempt, loaded, minted, stray>>

Accepted(s) == attempt' = [NoRunRow EXCEPT !.id = s]

InsertRun(w) ==
    /\ AtPoint(w, "insert")
    /\ IF active /\ attempt.id = NoImport
       THEN \/ Accepted(importer[w].id) /\ (Answer(w) \/ Proceed(w, "settle"))
            \/ attempt' = attempt /\ Proceed(w, "settle")
       ELSE attempt' = attempt /\ Proceed(w, "settle")
    /\ UNCHANGED <<active, stored, loaded, minted, stray>>

SettleUpload(w) ==
    /\ AtPoint(w, "settle")
    /\ IF attempt.id = importer[w].id THEN Answer(w) ELSE Proceed(w, "remove")
    /\ UNCHANGED <<active, attempt, stored, loaded, minted, stray>>

(* A repeated upload repairs a missing object.  A cleanup may have removed it
   since the row was read, so the row is read again after.                 *)
HeadReplay(w) ==
    /\ AtPoint(w, "head")
    /\ Proceed(w, IF importer[w].id \in stored THEN "reload" ELSE "repair")
    /\ UNCHANGED <<active, attempt, stored, loaded, minted, stray>>

RepairPlan(w) ==
    /\ AtPoint(w, "repair")
    /\ IF active
       THEN stored' = stored \cup {importer[w].id} /\ Proceed(w, "deadline")
       ELSE stored' = stored /\ Answer(w)
    /\ UNCHANGED <<active, attempt, loaded, minted, stray>>

MeetDeadline(w) ==
    /\ AtPoint(w, "deadline")
    /\ Proceed(w, IF active THEN "reload" ELSE "remove")
    /\ UNCHANGED <<active, attempt, stored, loaded, minted, stray>>

ReloadRun(w) ==
    /\ AtPoint(w, "reload")
    /\ IF attempt.id = importer[w].id /\ attempt.status = "cleaned"
       THEN Proceed(w, "remove")
       ELSE Answer(w)
    /\ UNCHANGED <<active, attempt, stored, loaded, minted, stray>>

(* preflight, commit and verify read the plan back from the bucket.  The
   database is inspected: preflight wants it empty, verify exactly full.   *)
LoadPlan(w) ==
    /\ AtPoint(w, "load")
    /\ IF importer[w].id \in stored
       THEN Proceed(w, IF importer[w].call = "commit" THEN "write" ELSE "inspect")
       ELSE Answer(w)
    /\ UNCHANGED <<active, attempt, stored, loaded, minted, stray>>

Inspect(w) ==
    /\ AtPoint(w, "inspect")
    /\ IF (loaded = NoImport) = (importer[w].call = "preflight")
       THEN Proceed(w, "write")
       ELSE Answer(w)
    /\ UNCHANGED <<active, attempt, stored, loaded, minted, stray>>

(* The UPDATE of the row names the status it starts from; the batch of a
   commit has the rows of the plan in it, and aborts without its proof.    *)
Still(w, status) == attempt.id = importer[w].id /\ attempt.status = status
MarkStage(status) == attempt' = [attempt EXCEPT !.status = status]

MarkPreflighted(w) ==
    /\ AtPoint(w, "write") /\ importer[w].call = "preflight"
    /\ IF Still(w, "uploaded") THEN MarkStage("preflighted") ELSE attempt' = attempt
    /\ Answer(w)
    /\ UNCHANGED <<active, stored, loaded, minted, stray>>

CommitPlan(w) ==
    /\ AtPoint(w, "write") /\ importer[w].call = "commit"
    /\ IF Still(w, "preflighted") /\ loaded = NoImport
       THEN MarkStage("committed") /\ loaded' = importer[w].id
       ELSE UNCHANGED <<attempt, loaded>>
    /\ Answer(w)
    /\ UNCHANGED <<active, stored, minted, stray>>

MarkVerified(w) ==
    /\ AtPoint(w, "write") /\ importer[w].call = "verify"
    /\ IF Still(w, "committed") THEN MarkStage("verified") ELSE attempt' = attempt
    /\ Answer(w)
    /\ UNCHANGED <<active, stored, loaded, minted, stray>>

(* cleanup claims the run before it touches the object. *)
ClaimCleanup(w) ==
    /\ AtPoint(w, "claim")
    /\ IF Still(w, importer[w].status)
       THEN /\ attempt' = [attempt EXCEPT !.status = "cleaned",
                             !.abandoned = importer[w].status # "verified"]
            /\ Proceed(w, "sweep")
       ELSE attempt' = attempt /\ Answer(w)
    /\ UNCHANGED <<active, stored, loaded, minted, stray>>

HeadCleanup(w) ==
    /\ AtPoint(w, "sweep")
    /\ IF importer[w].id \in stored THEN Proceed(w, "remove") ELSE Answer(w)
    /\ UNCHANGED <<active, attempt, stored, loaded, minted, stray>>

RemovePlan(w) ==
    /\ AtPoint(w, "remove")
    /\ stored' = stored \ {importer[w].id}
    /\ stray' = stray \ {s \in {attempt.id} : s = importer[w].id}
    /\ Answer(w)
    /\ UNCHANGED <<active, attempt, loaded, minted>>

(* One batch empties the database, the rows of the import with it; no object
   is removed.                                                             *)
ResetTarget ==
    /\ Staging /\ active
    /\ attempt' = NoRunRow
    /\ loaded' = NoImport
    /\ stray' = stray \cup ({attempt.id} \cap ImportRuns)
    /\ UNCHANGED <<active, stored, importer, minted>>

(* A crash, or an error of the bucket or of the database.  A call that still
   had to decide about its object leaves it behind; a bucket that stored the
   object and answered with an error is a crash right after it.            *)
Owing == {"insert", "settle", "deadline", "reload", "sweep", "remove"}

Break(w) ==
    /\ importer[w] # Calm
    /\ stray' = IF importer[w].at \in Owing THEN stray \cup {importer[w].id} ELSE stray
    /\ Answer(w)
    /\ UNCHANGED <<active, attempt, stored, loaded, minted>>

Expire ==
    /\ active
    /\ active' = FALSE
    /\ UNCHANGED <<attempt, stored, loaded, importer, minted, stray>>

ImportNext ==
    \/ \E w \in Importers, s \in ImportRuns : Mint(w, s)
    \/ \E w \in Importers, c \in ImportCalls : Require(w, c)
    \/ \E w \in Importers :
          \/ PutPlan(w) \/ InsertRun(w) \/ SettleUpload(w)
          \/ HeadReplay(w) \/ RepairPlan(w) \/ MeetDeadline(w) \/ ReloadRun(w)
          \/ LoadPlan(w) \/ Inspect(w)
          \/ MarkPreflighted(w) \/ CommitPlan(w) \/ MarkVerified(w)
          \/ ClaimCleanup(w) \/ HeadCleanup(w) \/ RemovePlan(w)
          \/ Break(w)
    \/ ResetTarget
    \/ Expire

ImportSpec == ImportInit /\ [][ImportNext]_importVars

-------------------------------------------------------------------------------
Wrote == \/ attempt.status \in {"committed", "verified"}
         \/ attempt.status = "cleaned" /\ ~attempt.abandoned

(* The database holds the rows of a plan exactly when the row of the run that
   wrote them says so: a commit that lost to a cleanup or to a reset left
   nothing, and an abandoned run never wrote
   (d1-import-runtime.ts, bindHostedImportCommitGuard; cleanup/route.ts).  *)
LoadedByItsRun == loaded = (IF Wrote THEN attempt.id ELSE NoImport)

(* The plan of a run that can still go on is never removed, by a stale repeat
   or by a cleanup that lost its claim (cleanup/route.ts: the file is kept
   when the state changed).                                                *)
PlanKept ==
    attempt.id # NoImport /\ attempt.status # "cleaned" => attempt.id \in stored

(* Any other object is about to be removed by a call under way, or a call
   that died or a reset left it: the loser of two uploads removes its own, and
   a repair that comes after the cleanup is undone
   (upload/route.ts; d1-import-runtime.ts, settleHostedImportUploadReplay). *)
NothingLeft ==
    \A s \in stored \ stray :
      \/ attempt.id = s /\ attempt.status # "cleaned"
      \/ \E w \in Importers : importer[w] # Calm /\ importer[w].id = s
                               /\ importer[w].at \in Owing

ImportSound == LoadedByItsRun /\ PlanKept /\ NothingLeft
===============================================================================
