------------------------------ MODULE CoverStore ------------------------------
(***************************************************************************)
(* The cover of one title: src/lib/library-cover-mutation.ts.  The picture *)
(* is an object of the bucket, under a key made from its content; the row  *)
(* of material_cover_assets says which key is the cover.  Bucket and       *)
(* database share no transaction, so a handler goes through them one await *)
(* at a time, and other handlers, a crash, an error or the repetition of   *)
(* the request may come between any two.                                   *)
(*                                                                         *)
(* The plan of a change is stored with its command before the bucket is    *)
(* touched; whoever repeats the request goes on from there.                *)
(*                                                                         *)
(* Abstractions: pictures with equal bytes are one member of Images; the   *)
(* temporary photo the picture comes from, and an object put under the key *)
(* by somebody else, are left out; a handler that finds its command        *)
(* already stored gives up and the repetition goes on (Take).              *)
(***************************************************************************)
EXTENDS Integers, FiniteSets

CONSTANTS
    Images,         \* contents of pictures (sha256)
    Changes,        \* client request ids
    PictureOf,      \* request -> the picture it brings
    Uploaders,      \* concurrently running handler invocations
    Off, NoImage, NoChange      \* model values

ASSUME CoverAssumption ==
    /\ PictureOf \in [Changes -> Images]
    /\ NoImage \notin Images /\ NoChange \notin Changes

VARIABLES
    title,      \* "active" | "archived" | "literature"
    cover,      \* row of material_cover_assets; version 0 is no row
    object,     \* picture -> the request that stored its object
    change,     \* request -> row of mutation_commands, with its durable plan
    uploader    \* handler -> where it is

coverVars == <<title, cover, object, change, uploader>>

Phases == {"insert", "look", "put", "commit", "refused", "judge", "fail", "clean", "delete"}
Codes == {"none", "conflict", "gone", "literature"}
ChangeType == [status : {"none", "processing", "completed", "failed"}, ver : Nat,
               code : Codes]
UploaderPlan == [at : Phases, change : Changes, ver : Nat,
                 seen : Images \cup {NoImage}, code : Codes]

CoverTypeOK ==
    /\ title \in {"active", "archived", "literature"}
    /\ cover \in [key : Images \cup {NoImage}, ver : Nat]
    /\ object \in [Images -> Changes \cup {NoChange}]
    /\ change \in [Changes -> ChangeType]
    /\ uploader \in [Uploaders -> UploaderPlan \cup {Off}]

CoverInit ==
    /\ title = "active"
    /\ cover = [key |-> NoImage, ver |-> 0]
    /\ object = [g \in Images |-> NoChange]
    /\ change = [r \in Changes |-> [status |-> "none", ver |-> 0, code |-> "none"]]
    /\ uploader = [w \in Uploaders |-> Off]

-----------------------------------------------------------------------------

Reached(w, phase) == uploader[w] # Off /\ uploader[w].at = phase
Image(w) == PictureOf[uploader[w].change]
Row(status, v, code) == [status |-> status, ver |-> v, code |-> code]
Visit(phase, r, v, seen, code) ==
    [at |-> phase, change |-> r, ver |-> v, seen |-> seen, code |-> code]
GoesOn(w, phase) ==
    LET p == uploader[w] IN
    uploader' = [uploader EXCEPT ![w] = Visit(phase, p.change, p.ver, p.seen, p.code)]
Ends(w) == uploader' = [uploader EXCEPT ![w] = Off]
(* readCurrentCover finds only the cover of an active title *)
CurrentKey == IF title = "active" THEN cover.key ELSE NoImage

(* replayCompletedMaterialCover, replaceMaterialCoverDirect up to its      *)
(* insert, resumeOrReplay, and retryFailedCleanup up to its reading        *)
Take(w, r) ==
    /\ uploader[w] = Off
    /\ \/ /\ change[r].status = "none" /\ title = "active"
          /\ uploader' = [uploader EXCEPT ![w] = Visit("insert", r, cover.ver, NoImage, "none")]
       \/ /\ change[r].status = "processing" /\ title # "literature"
          /\ uploader' = [uploader EXCEPT ![w] =
                 Visit("look", r, change[r].ver, NoImage, "none")]
       \/ /\ change[r].status = "failed" /\ change[r].code \in {"conflict", "gone"}
          /\ uploader' = [uploader EXCEPT ![w] =
                 Visit("clean", r, 0, CurrentKey, "none")]
    /\ UNCHANGED <<title, cover, object, change>>

(* the command with its plan; the title is asked only for its fund *)
Insert(w) ==
    LET p == uploader[w] IN
    /\ Reached(w, "insert")
    /\ title # "literature" /\ change[p.change].status = "none"
    /\ change' = [change EXCEPT ![p.change] = Row("processing", p.ver, "none")]
    /\ GoesOn(w, "look")
    /\ UNCHANGED <<title, cover, object>>

-----------------------------------------------------------------------------
(* ensurePermanentObject and the batch of finishCoverPlan *)

Look(w) ==
    /\ Reached(w, "look")
    /\ GoesOn(w, IF object[Image(w)] = NoChange THEN "put" ELSE "commit")
    /\ UNCHANGED <<title, cover, object, change>>

Put(w) ==
    /\ Reached(w, "put")
    /\ object' = [object EXCEPT ![Image(w)] = uploader[w].change]
    /\ GoesOn(w, "commit")
    /\ UNCHANGED <<title, cover, change>>

AnyCover(p) == TRUE             \* mutant: writes over whatever cover there is
SameCover(p) == cover.ver = p.ver

Commit(w) ==
    LET p == uploader[w] IN
    /\ Reached(w, "commit")
    /\ title = "active" /\ SameCover(p) /\ change[p.change].status = "processing"
    /\ cover' = [key |-> Image(w), ver |-> cover.ver + 1]
    /\ change' = [change EXCEPT ![p.change] = Row("completed", p.ver, "none")]
    /\ Ends(w)
    /\ UNCHANGED <<title, object>>

-----------------------------------------------------------------------------
(* The catch of finishCoverPlan.  A batch may fail on the way as well as   *)
(* by its guards.                                                          *)

Refuse(w) ==
    /\ Reached(w, "commit")
    /\ GoesOn(w, "refused")
    /\ UNCHANGED <<title, cover, object, change>>

ReadChange(w) ==
    /\ Reached(w, "refused")
    /\ change[uploader[w].change].status # "completed"
    /\ GoesOn(w, "judge")
    /\ UNCHANGED <<title, cover, object, change>>

Verdict(p) ==
    CASE title = "literature" -> "literature"
      [] title = "archived" -> "gone"
      [] OTHER -> IF cover.ver # p.ver THEN "conflict" ELSE "none"

Judge(w) ==
    LET p == uploader[w] IN
    /\ Reached(w, "judge")
    /\ Verdict(p) # "none"
    /\ uploader' = [uploader EXCEPT ![w] =
           Visit("fail", p.change, p.ver, CurrentKey, Verdict(p))]
    /\ UNCHANGED <<title, cover, object, change>>

(* markCommandFailed, which swallows its own errors *)
Fail(w) ==
    LET p == uploader[w]  r == p.change IN
    /\ Reached(w, "fail")
    /\ \/ change' = [change EXCEPT ![r] = IF @.status = "processing"
                         THEN Row("failed", @.ver, p.code) ELSE @]
       \/ UNCHANGED change
    /\ uploader' = [uploader EXCEPT ![w] = Visit("clean", r, 0, p.seen, "none")]
    /\ UNCHANGED <<title, cover, object>>

(* cleanupProvenUnusedObject: what was read of the cover, then whose the   *)
(* object is, then the removal                                             *)
Unused(p) == p.seen # PictureOf[p.change]

Clean(w) ==
    /\ Reached(w, "clean")
    /\ Unused(uploader[w]) /\ object[Image(w)] = uploader[w].change
    /\ uploader' = [uploader EXCEPT ![w] =
           Visit("delete", uploader[w].change, 0, NoImage, "none")]
    /\ UNCHANGED <<title, cover, object, change>>

Delete(w) ==
    /\ Reached(w, "delete")
    /\ object' = [object EXCEPT ![Image(w)] = NoChange]
    /\ Ends(w)
    /\ UNCHANGED <<title, cover, change>>

(* An error of the bucket or of the database, a crash, or nothing to do. *)
Leave(w) ==
    /\ uploader[w] # Off
    /\ Ends(w)
    /\ UNCHANGED <<title, cover, object, change>>

(* archiveMaterialDirect, and a title that goes over to the other fund *)
LeaveCatalogue ==
    /\ title = "active"
    /\ title' \in {"archived", "literature"}
    /\ UNCHANGED <<cover, object, change, uploader>>

CoverNext ==
    \/ \E w \in Uploaders :
        \/ \E r \in Changes : Take(w, r)
        \/ Insert(w) \/ Look(w) \/ Put(w) \/ Commit(w)
        \/ Refuse(w) \/ ReadChange(w) \/ Judge(w) \/ Fail(w)
        \/ Clean(w) \/ Delete(w) \/ Leave(w)
    \/ LeaveCatalogue

CoverSpec == CoverInit /\ [][CoverNext]_coverVars

-----------------------------------------------------------------------------
(* Properties *)

Completed == {r \in Changes : change[r].status = "completed"}

(* Whatever crashes, no object lies in the bucket that no command knows,   *)
(* and it holds the picture of that command.                               *)
ObjectsKnown ==
    \A g \in Images : object[g] # NoChange =>
        change[object[g]].status # "none" /\ PictureOf[object[g]] = g

(* Every completed change is one version of the cover and the last one is  *)
(* the cover, however often its request is repeated.                       *)
ChangesCounted ==
    /\ cover.ver = Cardinality(Completed)
    /\ {change[r].ver : r \in Completed} = 0..(cover.ver - 1)
    /\ \A r \in Completed : change[r].ver + 1 = cover.ver => cover.key = PictureOf[r]

(* A change that is recorded as failed could not succeed any more. *)
FailuresJust ==
    \A r \in Changes : change[r].status = "failed" =>
        title # "active" \/ cover.ver # change[r].ver

(* docs/D1_CORE_ROLLOUT_UK.md:24: the object of the cover is there.        *)
CurrentStored ==
    title = "active" /\ cover.key # NoImage => object[cover.key] # NoChange

(* It is there as long as no two changes bring the same picture.           *)
StoredUnlessShared ==
    (\A r, q \in Changes : r # q => PictureOf[r] # PictureOf[q]) => CurrentStored

CoversSound == ObjectsKnown /\ ChangesCounted /\ FailuresJust /\ StoredUnlessShared
=============================================================================
