-------------------------- MODULE MCRegistriesProofs --------------------------
(***************************************************************************)
(* The properties of MCRegistries as theorems: what TLC checks of each     *)
(* instance on a few ids and handlers holds for any number of them.  The   *)
(* theorems of the components are about their own specifications.  Here    *)
(* the instances of MCRegistries are gathered into instances of the        *)
(* modules of proofs (their constants are disjoint), whose definitions are *)
(* shown to be the same, and each behaviour of MCSpec is a behaviour of    *)
(* the component that focus names.                                         *)
(***************************************************************************)
EXTENDS MCRegistries, RegistryProofs, AccessProofs, OutsideProofs

-----------------------------------------------------------------------------
(* Where a behaviour begins and what a step of it is                       *)

LEMMA VisitsRun ==
    /\ MCInit =>
         /\ focus = "desk" => VisitsInit
         /\ focus = "lessons" => Lessons!VisitsInit
    /\ [MCNext]_MCVars =>
         /\ (focus = "desk")' <=> (focus = "desk")
         /\ focus = "desk" => [VisitsNext]_visitVars
         /\ (focus = "lessons")' <=> (focus = "lessons")
         /\ focus = "lessons" => [Lessons!VisitsNext]_visitVars
BY DEF MCInit, MCNext, MCVars, VisitsStarts, SchoolStep, LoansStep, VisitsStep, AccessStep,
    CoversStep, DraftsStep, ReadersStep, ImportsStep, CardsStep, DealsStep, PlansStep,
    CopiesStep, StockStep, visitVars

LEMMA LoansRun ==
    /\ MCInit =>
         /\ focus = "parts" => LoansInit
         /\ focus = "pair" => Pair!LoansInit
    /\ [MCNext]_MCVars =>
         /\ (focus = "parts")' <=> (focus = "parts")
         /\ focus = "parts" => [LoansNext]_loanVars
         /\ (focus = "parts" => [FrozenStep]_loanVars) => [focus = "parts" => FrozenStep]_MCVars
         /\ (focus = "pair")' <=> (focus = "pair")
         /\ focus = "pair" => [Pair!LoansNext]_loanVars
         /\ (focus = "pair" => [Pair!FrozenStep]_loanVars) => [focus = "pair" => Pair!FrozenStep]_MCVars
BY DEF MCInit, MCNext, MCVars, LoansStarts, SchoolStep, LoansStep, VisitsStep, AccessStep,
    CoversStep, DraftsStep, ReadersStep, ImportsStep, CardsStep, DealsStep, PlansStep,
    CopiesStep, StockStep, loanVars

LEMMA SchoolRun ==
    /\ MCInit =>
         /\ focus = "curators" => SchoolInit
         /\ focus = "rollover" => Rollover!SchoolInit
    /\ [MCNext]_MCVars =>
         /\ (focus = "curators")' <=> (focus = "curators")
         /\ focus = "curators" => [SchoolNext]_schoolVars
         /\ (focus = "rollover")' <=> (focus = "rollover")
         /\ focus = "rollover" => [Rollover!SchoolNext]_schoolVars
BY DEF MCInit, MCNext, MCVars, SchoolStarts, SchoolStep, LoansStep, VisitsStep, AccessStep,
    CoversStep, DraftsStep, ReadersStep, ImportsStep, CardsStep, DealsStep, PlansStep,
    CopiesStep, StockStep, schoolVars

LEMMA PlansRun ==
    /\ MCInit =>
         /\ focus = "planning" => PlanInit
         /\ focus = "signing" => SigningTwice!PlanInit
    /\ [MCNext]_MCVars =>
         /\ (focus = "planning")' <=> (focus = "planning")
         /\ focus = "planning" => [PlanNext]_planVars
         /\ (focus = "signing")' <=> (focus = "signing")
         /\ focus = "signing" => [SigningTwice!PlanNext]_planVars
BY DEF MCInit, MCNext, MCVars, PlansStarts, SchoolStep, LoansStep, VisitsStep, AccessStep,
    CoversStep, DraftsStep, ReadersStep, ImportsStep, CardsStep, DealsStep, PlansStep,
    CopiesStep, StockStep, planVars

LEMMA AccessRun ==
    /\ MCInit =>
         /\ focus = "cabinet" => AccessInit
         /\ focus = "phone" => Shared!AccessInit
    /\ [MCNext]_MCVars =>
         /\ (focus = "cabinet")' <=> (focus = "cabinet")
         /\ focus = "cabinet" => [AccessNext]_accessVars
         /\ (focus = "phone")' <=> (focus = "phone")
         /\ focus = "phone" => [Shared!AccessNext]_accessVars
BY DEF MCInit, MCNext, MCVars, AccessStarts, SchoolStep, LoansStep, VisitsStep, AccessStep,
    CoversStep, DraftsStep, ReadersStep, ImportsStep, CardsStep, DealsStep, PlansStep,
    CopiesStep, StockStep, accessVars

LEMMA ReadersRun ==
    /\ MCInit =>
         /\ focus = "reader" => ReaderInit
         /\ focus = "friends" => Friends!ReaderInit
    /\ [MCNext]_MCVars =>
         /\ (focus = "reader")' <=> (focus = "reader")
         /\ focus = "reader" => [ReaderNext]_readerVars
         /\ (focus = "friends")' <=> (focus = "friends")
         /\ focus = "friends" => [Friends!ReaderNext]_readerVars
BY DEF MCInit, MCNext, MCVars, ReadersStarts, SchoolStep, LoansStep, VisitsStep, AccessStep,
    CoversStep, DraftsStep, ReadersStep, ImportsStep, CardsStep, DealsStep, PlansStep,
    CopiesStep, StockStep, readerVars

LEMMA CoversRun ==
    /\ MCInit =>
         /\ focus = "covers" => CoverInit
         /\ focus = "gallery" => Gallery!CoverInit
    /\ [MCNext]_MCVars =>
         /\ (focus = "covers")' <=> (focus = "covers")
         /\ focus = "covers" => [CoverNext]_coverVars
         /\ (focus = "gallery")' <=> (focus = "gallery")
         /\ focus = "gallery" => [Gallery!CoverNext]_coverVars
BY DEF MCInit, MCNext, MCVars, CoversStarts, SchoolStep, LoansStep, VisitsStep, AccessStep,
    CoversStep, DraftsStep, ReadersStep, ImportsStep, CardsStep, DealsStep, PlansStep,
    CopiesStep, StockStep, coverVars

LEMMA ImportsRun ==
    /\ MCInit =>
         /\ focus = "imports" => ImportInit
    /\ [MCNext]_MCVars =>
         /\ (focus = "imports")' <=> (focus = "imports")
         /\ focus = "imports" => [ImportNext]_importVars
BY DEF MCInit, MCNext, MCVars, ImportsStarts, SchoolStep, LoansStep, VisitsStep, AccessStep,
    CoversStep, DraftsStep, ReadersStep, ImportsStep, CardsStep, DealsStep, PlansStep,
    CopiesStep, StockStep, importVars

LEMMA DraftsRun ==
    /\ MCInit =>
         /\ focus = "applies" => DraftInit
         /\ focus = "writers" => Writers!DraftInit
    /\ [MCNext]_MCVars =>
         /\ (focus = "applies")' <=> (focus = "applies")
         /\ focus = "applies" => [DraftNext]_applyVars
         /\ (focus = "writers")' <=> (focus = "writers")
         /\ focus = "writers" => [Writers!DraftNext]_applyVars
BY DEF MCInit, MCNext, MCVars, DraftsStarts, SchoolStep, LoansStep, VisitsStep, AccessStep,
    CoversStep, DraftsStep, ReadersStep, ImportsStep, CardsStep, DealsStep, PlansStep,
    CopiesStep, StockStep, applyVars

-----------------------------------------------------------------------------
(* The instances with the constants of the configuration                   *)

LEMMA CuratorsSafe == MCSpec => [](focus = "curators" => SchoolInOrder)
BY SchoolRun, SchoolSafe, PTL DEF MCSpec, SchoolSpec

LEMMA PartsSafe == MCSpec => [](focus = "parts" => LoansSound)
BY LoansRun, LoansSafe, PTL DEF MCSpec, LoansSpec

LEMMA PartsFrozen == MCSpec => [][focus = "parts" => FrozenStep]_MCVars
BY LoansRun, ClosedStaysFrozen, PTL DEF MCSpec, LoansSpec, ClosedClassFrozen

LEMMA DeskSafe == MCSpec => [](focus = "desk" => VisitsSound)
BY VisitsRun, VisitsSafe, PTL DEF MCSpec, VisitsSpec

LEMMA CabinetSafe == MCSpec => [](focus = "cabinet" => AccessSound)
BY AccessRun, AccessSafe, PTL DEF MCSpec, AccessSpec

LEMMA CoversFocusSafe == MCSpec => [](focus = "covers" => CoversSound)
BY CoversRun, CoversSafe, PTL DEF MCSpec, CoverSpec

LEMMA AppliesFocusSafe == MCSpec => [](focus = "applies" => DraftsSound)
BY DraftsRun, DraftsSafe, PTL DEF MCSpec, DraftSpec

LEMMA ReaderSafe == MCSpec => [](focus = "reader" => ReadersSound)
BY ReadersRun, ReadersSafe, PTL DEF MCSpec, ReaderSpec

LEMMA ImportsFocusSafe == MCSpec => [](focus = "imports" => ImportSound)
BY ImportsRun, ImportSafe, PTL DEF MCSpec, ImportSpec

LEMMA PlanningSafe == MCSpec => [](focus = "planning" => ProcurementSound)
BY PlansRun, PlanSafe, PTL DEF MCSpec, PlanSpec

-----------------------------------------------------------------------------
(* The instances Gallery, Writers                                          *)

OutsideOne == INSTANCE OutsideProofs WITH
    Changes <- {1, 2}, PictureOf <- [c \in {1, 2} |-> c],
    Drafts <- {one, other}, Tabs <- {hand}, MaxRevision <- 3, KindOf <- [d \in {one, other} |-> IF d = one THEN "update" ELSE "close"]

LEMMA OutsideOneHolds ==
    /\ OutsideOne!ImportAssumption /\ OutsideOne!CalmAssumption /\ OutsideOne!CoverAssumption
    /\ OutsideOne!DraftAssumption /\ OutsideOne!DraftValues /\ OutsideOne!CopyBounds
    /\ OutsideOne!CopyValues /\ OutsideOne!CopyFinite /\ OutsideOne!SourceValues
    /\ OutsideOne!RequestAssumption
<1>1. \A S : (OutsideOne!IsFiniteSet(S) <=> IsFiniteSet(S)) /\ OutsideOne!Cardinality(S) = Cardinality(S)
  BY Zenon DEF OutsideOne!IsFiniteSet, OutsideOne!Cardinality, IsFiniteSet, Cardinality
<1>2. OutsideOne!ImportAssumption
  BY ImportAssumption, MCValues DEF OutsideOne!ImportAssumption
<1>3. OutsideOne!CoverAssumption
  BY CoverAssumption, MCValues DEF OutsideOne!CoverAssumption
<1>4. OutsideOne!CopyBounds
  BY CopyBounds, MCValues DEF OutsideOne!CopyBounds
<1>5. OutsideOne!CopyValues
  BY CopyValues, MCValues DEF OutsideOne!CopyValues
<1>6. OutsideOne!SourceValues
  BY SourceValues, MCValues DEF OutsideOne!SourceValues
<1>7. OutsideOne!CalmAssumption
  BY CalmAssumption DEF OutsideOne!CalmAssumption, CalmAssumption, ImportPlan,
      OutsideOne!ImportPlan, ImportCalls, OutsideOne!ImportCalls, ImportPoints,
      OutsideOne!ImportPoints, RunStages, OutsideOne!RunStages
<1>8. OutsideOne!DraftAssumption
  BY <1>1, DraftAssumption, MCValues, FS_EmptySet DEF OutsideOne!DraftAssumption
<1>9. OutsideOne!DraftValues
  BY MCWriters DEF OutsideOne!DraftValues, DraftValues, Writers!EntryType,
      OutsideOne!EntryType, Writers!TabType, OutsideOne!TabType, Writers!ClassStates,
      OutsideOne!ClassStates, Writers!Sheets, OutsideOne!Sheets, Writers!Parts,
      OutsideOne!Parts, Writers!Stages, OutsideOne!Stages
<1>10. OutsideOne!CopyFinite
  BY <1>1, CopyFinite DEF OutsideOne!CopyFinite
<1>11. OutsideOne!RequestAssumption
  BY RequestAssumption DEF OutsideOne!RequestAssumption, RequestAssumption, SourceType,
      OutsideOne!SourceType, Wanted, OutsideOne!Wanted
<1> QED BY <1>2, <1>3, <1>4, <1>5, <1>6, <1>7, <1>8, <1>9, <1>10, <1>11

LEMMA GallerySafe == MCSpec => [](focus = "gallery" => Gallery!CoversSound)
<1>1. /\ Gallery!CoverInit <=> OutsideOne!CoverInit
      /\ Gallery!CoverNext <=> OutsideOne!CoverNext
      /\ UNCHANGED coverVars <=> UNCHANGED OutsideOne!coverVars
      /\ Gallery!CoversSound <=> OutsideOne!CoversSound
  BY ZenonT(150) DEF Gallery!CoverInit, OutsideOne!CoverInit, Gallery!CoverNext,
      OutsideOne!CoverNext, Gallery!CoversSound, OutsideOne!CoversSound, Gallery!Take,
      OutsideOne!Take, Gallery!Insert, OutsideOne!Insert, Gallery!Look, OutsideOne!Look,
      Gallery!Put, OutsideOne!Put, Gallery!Commit, OutsideOne!Commit, Gallery!Refuse,
      OutsideOne!Refuse, Gallery!ReadChange, OutsideOne!ReadChange, Gallery!Judge,
      OutsideOne!Judge, Gallery!Fail, OutsideOne!Fail, Gallery!Clean, OutsideOne!Clean,
      Gallery!Delete, OutsideOne!Delete, Gallery!Leave, OutsideOne!Leave,
      Gallery!LeaveCatalogue, OutsideOne!LeaveCatalogue, Gallery!ObjectsKnown,
      OutsideOne!ObjectsKnown, Gallery!ChangesCounted, OutsideOne!ChangesCounted,
      Gallery!FailuresJust, OutsideOne!FailuresJust, Gallery!StoredUnlessShared,
      OutsideOne!StoredUnlessShared, Gallery!Visit, OutsideOne!Visit, Gallery!CurrentKey,
      OutsideOne!CurrentKey, Gallery!Reached, OutsideOne!Reached, Gallery!Row,
      OutsideOne!Row, Gallery!GoesOn, OutsideOne!GoesOn, Gallery!Image, OutsideOne!Image,
      Gallery!SameCover, OutsideOne!SameCover, Gallery!Ends, OutsideOne!Ends,
      Gallery!Verdict, OutsideOne!Verdict, Gallery!Unused, OutsideOne!Unused,
      Gallery!Cardinality, OutsideOne!Cardinality, Gallery!Completed, OutsideOne!Completed,
      Gallery!CurrentStored, OutsideOne!CurrentStored, coverVars, OutsideOne!coverVars
<1> QED BY CoversRun, <1>1, OutsideOneHolds, OutsideOne!CoversSafe, PTL DEF MCSpec,
    OutsideOne!CoverSpec

LEMMA WritersSafe == MCSpec => [](focus = "writers" => Writers!DraftsSound)
<1>1. /\ Writers!DraftInit <=> OutsideOne!DraftInit
      /\ Writers!DraftNext <=> OutsideOne!DraftNext
      /\ UNCHANGED applyVars <=> UNCHANGED OutsideOne!applyVars
      /\ Writers!DraftsSound <=> OutsideOne!DraftsSound
  BY ZenonT(150) DEF Writers!DraftInit, OutsideOne!DraftInit, Writers!DraftNext,
      OutsideOne!DraftNext, Writers!DraftsSound, OutsideOne!DraftsSound, Writers!SaveDraft,
      OutsideOne!SaveDraft, Writers!SubmitDraft, OutsideOne!SubmitDraft,
      Writers!CancelDraft, OutsideOne!CancelDraft, Writers!Replay, OutsideOne!Replay,
      Writers!Approve, OutsideOne!Approve, Writers!Enter, OutsideOne!Enter, Writers!Check,
      OutsideOne!Check, Writers!RefusePart, OutsideOne!RefusePart, Writers!Write,
      OutsideOne!Write, Writers!Confirm, OutsideOne!Confirm, Writers!Record,
      OutsideOne!Record, Writers!Lose, OutsideOne!Lose, Writers!StopWaiting,
      OutsideOne!StopWaiting, Writers!SettleDraft, OutsideOne!SettleDraft,
      Writers!EditSheet, OutsideOne!EditSheet, Writers!AppliedWhole,
      OutsideOne!AppliedWhole, Writers!WritingHolds, OutsideOne!WritingHolds,
      Writers!RefusedIsBlank, OutsideOne!RefusedIsBlank, Writers!CohortClosesLast,
      OutsideOne!CohortClosesLast, Writers!Revise, OutsideOne!Revise, Writers!Sends,
      OutsideOne!Sends, Writers!CallsOf, OutsideOne!CallsOf, Writers!AtStage,
      OutsideOne!AtStage, Writers!Working, OutsideOne!Working, Writers!Stale,
      OutsideOne!Stale, Writers!NewEntry, OutsideOne!NewEntry, Writers!Stage,
      OutsideOne!Stage, Writers!Answers, OutsideOne!Answers, Writers!After,
      OutsideOne!After, Writers!Onward, OutsideOne!Onward, Writers!Fades, OutsideOne!Fades,
      Writers!Part, OutsideOne!Part, Writers!Clear, OutsideOne!Clear, Writers!Entry,
      OutsideOne!Entry, Writers!Untouched, OutsideOne!Untouched, Writers!Reconcilable,
      OutsideOne!Reconcilable, Writers!SameClaim, OutsideOne!SameClaim, Writers!PartsOf,
      OutsideOne!PartsOf, Writers!Journaled, OutsideOne!Journaled, Writers!KeepsDraft,
      OutsideOne!KeepsDraft, Writers!NextPart, OutsideOne!NextPart, Writers!Parts,
      OutsideOne!Parts, applyVars, OutsideOne!applyVars
<1> QED BY DraftsRun, <1>1, OutsideOneHolds, OutsideOne!DraftsSafe, PTL DEF MCSpec,
    OutsideOne!DraftSpec

(* Covers and the files of an import agree with the database whatever call stops
   half-way (library-cover-mutation.ts, d1-import-runtime.ts), in each of the three
   instances. *)
THEOREM FilesStayKept == MCSpec => []FilesKept
<1>1. FilesKept <=> /\ (focus = "covers" => CoversSound)
                    /\ (focus = "gallery" => Gallery!CoversSound)
                    /\ (focus = "imports" => ImportSound)
  BY DEF FilesKept
<1> QED BY <1>1, CoversFocusSafe, GallerySafe, ImportsFocusSafe, PTL

(* A draft that says applied was written whole, and a request that began to write
   holds its draft (draft-apply-store.ts, LibrarianGateway.gs), in both instances. *)
THEOREM DraftsStayKept == MCSpec => []DraftsKept
<1>1. DraftsKept <=> /\ (focus = "applies" => DraftsSound)
                     /\ (focus = "writers" => Writers!DraftsSound)
  BY DEF DraftsKept
<1> QED BY <1>1, AppliesFocusSafe, WritersSafe, PTL

-----------------------------------------------------------------------------
(* The instances Shared, Friends                                           *)

AccessOne == INSTANCE AccessProofs WITH
    Staff <- Firsts, Launches <- {one}, Doors <- {hand}, MaxSession <- 2, SessionLimit <- 1, MaxAccess <- 2, CodeTime <- 1,
    Readers <- Firsts, AppStarts <- {one}, MaxEntry <- 3, MaxCard <- 2

LEMMA AccessOneHolds ==
    /\ AccessOne!AccessBounds /\ AccessOne!AccessTimes /\ AccessOne!AccessValues
    /\ AccessOne!ReaderBounds /\ AccessOne!ReaderValues
<1>1. \A S : (AccessOne!IsFiniteSet(S) <=> IsFiniteSet(S)) /\ AccessOne!Cardinality(S) = Cardinality(S)
  BY Zenon DEF AccessOne!IsFiniteSet, AccessOne!Cardinality, IsFiniteSet, Cardinality
<1>2. AccessOne!AccessBounds
  BY AccessBounds, MCValues DEF AccessOne!AccessBounds
<1>3. AccessOne!AccessTimes
  BY AccessTimes, MCValues DEF AccessOne!AccessTimes
<1>4. AccessOne!AccessValues
  BY AccessValues, MCValues DEF AccessOne!AccessValues
<1>5. AccessOne!ReaderBounds
  BY ReaderBounds, MCValues DEF AccessOne!ReaderBounds
<1>6. AccessOne!ReaderValues
  BY ReaderValues, MCValues DEF AccessOne!ReaderValues
<1> QED BY <1>2, <1>3, <1>4, <1>5, <1>6

LEMMA SharedSafe == MCSpec => [](focus = "phone" => Shared!AccessSound)
<1>1. /\ Shared!AccessInit <=> AccessOne!AccessInit
      /\ Shared!AccessNext <=> AccessOne!AccessNext
      /\ UNCHANGED accessVars <=> UNCHANGED AccessOne!accessVars
      /\ Shared!AccessSound <=> AccessOne!AccessSound
  BY ZenonT(150) DEF Shared!AccessInit, AccessOne!AccessInit, Shared!AccessNext,
      AccessOne!AccessNext, Shared!AccessSound, AccessOne!AccessSound, Shared!SessionIds,
      AccessOne!SessionIds, Shared!AtTheDoor, AccessOne!AtTheDoor, Shared!TimePasses,
      AccessOne!TimePasses, Shared!LogOut, AccessOne!LogOut, Shared!Begun, AccessOne!Begun,
      Shared!RecoverRotated, AccessOne!RecoverRotated, Shared!IssueCode,
      AccessOne!IssueCode, Shared!ProtectPhone, AccessOne!ProtectPhone, Shared!Disconnect,
      AccessOne!Disconnect, Shared!UpdateAccess, AccessOne!UpdateAccess, Shared!IssueInvite,
      AccessOne!IssueInvite, Shared!LeaveStaff, AccessOne!LeaveStaff, Shared!RejoinStaff,
      AccessOne!RejoinStaff, Shared!RevokeInvite, AccessOne!RevokeInvite,
      Shared!ClaimInvite, AccessOne!ClaimInvite, Shared!Start, AccessOne!Start,
      Shared!LiveIsValid, AccessOne!LiveIsValid, Shared!OpenedOnce, AccessOne!OpenedOnce,
      Shared!PlanSignIn, AccessOne!PlanSignIn, Shared!PlanOpen, AccessOne!PlanOpen,
      Shared!PlanActivate, AccessOne!PlanActivate, Shared!PlanRotate, AccessOne!PlanRotate,
      Shared!CommitSignIn, AccessOne!CommitSignIn, Shared!CommitOpen, AccessOne!CommitOpen,
      Shared!CommitActivate, AccessOne!CommitActivate, Shared!CommitRotate,
      AccessOne!CommitRotate, Shared!TurnedAway, AccessOne!TurnedAway, Shared!Revoked,
      AccessOne!Revoked, Shared!Usable, AccessOne!Usable, Shared!Evicts, AccessOne!Evicts,
      Shared!Temporary, AccessOne!Temporary, Shared!EndsSessions, AccessOne!EndsSessions,
      Shared!Closes, AccessOne!Closes, Shared!InvitesOf, AccessOne!InvitesOf,
      Shared!InvitesOn, AccessOne!InvitesOn, Shared!Status, AccessOne!Status,
      Shared!Credential, AccessOne!Credential, Shared!OpenInvites, AccessOne!OpenInvites,
      Shared!Personal, AccessOne!Personal, Shared!Live, AccessOne!Live, Shared!Cardinality,
      AccessOne!Cardinality, Shared!CodeOpen, AccessOne!CodeOpen, Shared!Knocks,
      AccessOne!Knocks, Shared!LinkedTo, AccessOne!LinkedTo, Shared!Activation,
      AccessOne!Activation, Shared!SameCredential, AccessOne!SameCredential, Shared!Enters,
      AccessOne!Enters, Shared!CodeStillOpen, AccessOne!CodeStillOpen, Shared!FreshLaunch,
      AccessOne!FreshLaunch, Shared!Evictions, AccessOne!Evictions, Shared!TakenByOther,
      AccessOne!TakenByOther, Shared!StillGranted, AccessOne!StillGranted, Shared!OwnPin,
      AccessOne!OwnPin, Shared!Opens, AccessOne!Opens, Shared!Revoke, AccessOne!Revoke,
      Shared!Oldest, AccessOne!Oldest, Shared!NextSession, AccessOne!NextSession,
      Shared!Max, AccessOne!Max, accessVars, AccessOne!accessVars
<1> QED BY AccessRun, <1>1, AccessOneHolds, AccessOne!AccessSafe, PTL DEF MCSpec,
    AccessOne!AccessSpec

LEMMA FriendsSafe == MCSpec => [](focus = "friends" => Friends!ReadersSound)
<1>1. /\ Friends!ReaderInit <=> AccessOne!ReaderInit
      /\ Friends!ReaderNext <=> AccessOne!ReaderNext
      /\ UNCHANGED readerVars <=> UNCHANGED AccessOne!readerVars
      /\ Friends!ReadersSound <=> AccessOne!ReadersSound
  BY ZenonT(150) DEF Friends!ReaderInit, AccessOne!ReaderInit, Friends!ReaderNext,
      AccessOne!ReaderNext, Friends!ReadersSound, AccessOne!ReadersSound, Friends!Grants,
      AccessOne!Grants, Friends!Entries, AccessOne!Entries, Friends!AtTheGate,
      AccessOne!AtTheGate, Friends!EntryEnds, AccessOne!EntryEnds, Friends!GrantRunsOut,
      AccessOne!GrantRunsOut, Friends!PassRunsOut, AccessOne!PassRunsOut,
      Friends!SecretRunsOut, AccessOne!SecretRunsOut, Friends!BotDisconnects,
      AccessOne!BotDisconnects, Friends!CabinetDisconnects, AccessOne!CabinetDisconnects,
      Friends!IssueWebAccess, AccessOne!IssueWebAccess, Friends!IssuePass,
      AccessOne!IssuePass, Friends!ChangeAccess, AccessOne!ChangeAccess, Friends!SaveReader,
      AccessOne!SaveReader, Friends!ArchiveReader, AccessOne!ArchiveReader,
      Friends!LinkTeacher, AccessOne!LinkTeacher, Friends!AcceptedIsCurrent,
      AccessOne!AcceptedIsCurrent, Friends!OnePinPerCode, AccessOne!OnePinPerCode,
      Friends!FewSessions, AccessOne!FewSessions, Friends!PlanPin, AccessOne!PlanPin,
      Friends!PlanSetup, AccessOne!PlanSetup, Friends!PlanRedeem, AccessOne!PlanRedeem,
      Friends!PlanJoin, AccessOne!PlanJoin, Friends!PlanLaunch, AccessOne!PlanLaunch,
      Friends!PlanBind, AccessOne!PlanBind, Friends!CommitPin, AccessOne!CommitPin,
      Friends!CommitTemp, AccessOne!CommitTemp, Friends!CommitSetup, AccessOne!CommitSetup,
      Friends!CommitRedeem, AccessOne!CommitRedeem, Friends!CommitJoin,
      AccessOne!CommitJoin, Friends!CommitLaunch, AccessOne!CommitLaunch,
      Friends!CommitBind, AccessOne!CommitBind, Friends!Dismissed, AccessOne!Dismissed,
      Friends!EntriesLess, AccessOne!EntriesLess, Friends!GrantsLess, AccessOne!GrantsLess,
      Friends!PassesLess, AccessOne!PassesLess, Friends!MayEnter, AccessOne!MayEnter,
      Friends!Unbound, AccessOne!Unbound, Friends!ChatOf, AccessOne!ChatOf,
      Friends!AllPasses, AccessOne!AllPasses, Friends!LiveOf, AccessOne!LiveOf,
      Friends!ValidEntry, AccessOne!ValidEntry, Friends!Pupil, AccessOne!Pupil,
      Friends!CardBound, AccessOne!CardBound, Friends!PassesOf, AccessOne!PassesOf,
      Friends!OpenCard, AccessOne!OpenCard, Friends!WebOf, AccessOne!WebOf,
      Friends!OpenGrants, AccessOne!OpenGrants, Friends!NewPupil, AccessOne!NewPupil,
      Friends!NoPupil, AccessOne!NoPupil, Friends!Cardinality, AccessOne!Cardinality,
      Friends!SecretAsRead, AccessOne!SecretAsRead, Friends!CodeThere, AccessOne!CodeThere,
      Friends!CodeLive, AccessOne!CodeLive, Friends!Waits, AccessOne!Waits, Friends!Passing,
      AccessOne!Passing, Friends!Admits, AccessOne!Admits, Friends!Surplus,
      AccessOne!Surplus, Friends!WebEntry, AccessOne!WebEntry, Friends!NextGrant,
      AccessOne!NextGrant, Friends!CardAsRead, AccessOne!CardAsRead, Friends!ChosenPin,
      AccessOne!ChosenPin, Friends!NewStart, AccessOne!NewStart, Friends!ChatFree,
      AccessOne!ChatFree, Friends!Bound, AccessOne!Bound, Friends!ChatEntry,
      AccessOne!ChatEntry, Friends!Over, AccessOne!Over, Friends!NextEntry,
      AccessOne!NextEntry, Friends!Max, AccessOne!Max, readerVars, AccessOne!readerVars
<1> QED BY ReadersRun, <1>1, AccessOneHolds, AccessOne!ReadersSafe, PTL DEF MCSpec,
    AccessOne!ReaderSpec

(* No session outlives the code, the access or the card it was opened with; what
   serves once serves once, a temporary code of a teacher but for calls that had begun
   before its use (visit-teacher-auth.ts, reader-pin-auth.ts), in each of the four
   instances. *)
THEOREM AccessStaysKept == MCSpec => []AccessKept
<1>1. AccessKept <=> /\ (focus = "cabinet" => AccessSound)
                     /\ (focus = "phone" => Shared!AccessSound)
                     /\ (focus = "reader" => ReadersSound)
                     /\ (focus = "friends" => Friends!ReadersSound)
  BY DEF AccessKept
<1> QED BY <1>1, CabinetSafe, SharedSafe, ReaderSafe, FriendsSafe, PTL

-----------------------------------------------------------------------------
(* The instances Rollover, Pair, Lessons, SigningTwice                     *)

RegistryOne == INSTANCE RegistryProofs WITH
    Clerks <- Hands, MaxYears <- 2, MaxClasses <- 1, MaxCohorts <- 1,
    Statements <- Firsts, Items <- {one, other}, Legacy <- {one}, MaxRowVersion <- 1,
    Guests <- {other}, Visits <- {one}, Closures <- {}, Forms <- {pupil}, Callers <- {hand}, MaxSegment <- 3, DayLength <- 2,
    Resources <- {}, Literary <- {}, Planners <- Hands, MaxPlan <- 4

LEMMA RegistryOneHolds ==
    /\ RegistryOne!VisitBounds /\ RegistryOne!VisitValues /\ RegistryOne!VisitsFinite
    /\ RegistryOne!SchoolBounds /\ RegistryOne!SchoolValues /\ RegistryOne!LoanBounds
    /\ RegistryOne!LoanValues /\ RegistryOne!LegacyAssumption /\ RegistryOne!LoanTables
    /\ RegistryOne!CatalogueAssumption /\ RegistryOne!PlanBound /\ RegistryOne!PlanValues
    /\ RegistryOne!AcquisitionBounds /\ RegistryOne!AcquisitionValues /\ RegistryOne!AcquisitionTables
<1>1. \A S : (RegistryOne!IsFiniteSet(S) <=> IsFiniteSet(S)) /\ RegistryOne!Cardinality(S) = Cardinality(S)
  BY Zenon DEF RegistryOne!IsFiniteSet, RegistryOne!Cardinality, IsFiniteSet, Cardinality
<1>2. RegistryOne!VisitBounds
  BY VisitBounds, MCValues DEF RegistryOne!VisitBounds
<1>3. RegistryOne!VisitValues
  BY VisitValues, MCValues DEF RegistryOne!VisitValues
<1>4. RegistryOne!SchoolBounds
  BY SchoolBounds, MCValues DEF RegistryOne!SchoolBounds
<1>5. RegistryOne!SchoolValues
  BY SchoolValues, MCValues DEF RegistryOne!SchoolValues
<1>6. RegistryOne!LoanBounds
  BY LoanBounds, MCValues DEF RegistryOne!LoanBounds
<1>7. RegistryOne!LoanValues
  BY LoanValues, MCValues DEF RegistryOne!LoanValues
<1>8. RegistryOne!CatalogueAssumption
  BY CatalogueAssumption, MCValues DEF RegistryOne!CatalogueAssumption
<1>9. RegistryOne!PlanBound
  BY PlanBound, MCValues DEF RegistryOne!PlanBound
<1>10. RegistryOne!PlanValues
  BY PlanValues, MCValues DEF RegistryOne!PlanValues
<1>11. RegistryOne!AcquisitionBounds
  BY AcquisitionBounds, MCValues DEF RegistryOne!AcquisitionBounds
<1>12. RegistryOne!AcquisitionValues
  BY AcquisitionValues, MCValues DEF RegistryOne!AcquisitionValues
<1>13. IsFiniteSet({one}) /\ Cardinality({one}) = 1
  BY FS_Singleton
<1>14. IsFiniteSet({one, other})
  BY <1>13, FS_AddElement, {one, other} = {one} \cup {other}
<1>15. /\ RegistryOne!VisitsFinite /\ RegistryOne!LegacyAssumption /\ RegistryOne!LoanTables
  BY <1>1, <1>13, <1>14, VisitsFinite, LegacyAssumption, LoanTables, LoanBounds, MCSizes,
      FS_EmptySet, FS_Singleton DEF RegistryOne!VisitsFinite, RegistryOne!LegacyAssumption,
      RegistryOne!LoanTables
<1>16. RegistryOne!AcquisitionTables
  BY <1>1, AcquisitionTables DEF RegistryOne!AcquisitionTables
<1> QED BY <1>2, <1>3, <1>4, <1>5, <1>6, <1>7, <1>8, <1>9, <1>10, <1>11, <1>12, <1>13, <1>14, <1>15, <1>16

LEMMA RolloverSafe == MCSpec => [](focus = "rollover" => Rollover!SchoolInOrder)
<1>1. /\ Rollover!SchoolInit <=> RegistryOne!SchoolInit
      /\ Rollover!SchoolNext <=> RegistryOne!SchoolNext
      /\ UNCHANGED schoolVars <=> UNCHANGED RegistryOne!schoolVars
      /\ Rollover!SchoolInOrder <=> RegistryOne!SchoolInOrder
  BY ZenonT(150) DEF Rollover!SchoolInit, RegistryOne!SchoolInit, Rollover!SchoolNext,
      RegistryOne!SchoolNext, Rollover!SchoolInOrder, RegistryOne!SchoolInOrder,
      Rollover!Years, RegistryOne!Years, Rollover!Cohorts, RegistryOne!Cohorts,
      Rollover!Classes, RegistryOne!Classes, Rollover!Offices, RegistryOne!Offices,
      Rollover!CloseCard, RegistryOne!CloseCard, Rollover!RestoreCard,
      RegistryOne!RestoreCard, Rollover!Borrow, RegistryOne!Borrow, Rollover!Settle,
      RegistryOne!Settle, Rollover!Open, RegistryOne!Open, Rollover!Cardinality,
      RegistryOne!Cardinality, Rollover!Submitted, RegistryOne!Submitted, Rollover!PlanYear,
      RegistryOne!PlanYear, Rollover!Curators, RegistryOne!Curators, Rollover!PlanCreate,
      RegistryOne!PlanCreate, Rollover!PlanUpdate, RegistryOne!PlanUpdate, Rollover!Fates,
      RegistryOne!Fates, Rollover!PlanClose, RegistryOne!PlanClose, Rollover!PlanReopen,
      RegistryOne!PlanReopen, Rollover!PlanRollover, RegistryOne!PlanRollover,
      Rollover!PlanAsk, RegistryOne!PlanAsk, Rollover!PlanCancel, RegistryOne!PlanCancel,
      Rollover!PlanDecide, RegistryOne!PlanDecide, Rollover!CommitYear,
      RegistryOne!CommitYear, Rollover!CommitCreate, RegistryOne!CommitCreate,
      Rollover!RetryCreate, RegistryOne!RetryCreate, Rollover!CommitUpdate,
      RegistryOne!CommitUpdate, Rollover!CommitClose, RegistryOne!CommitClose,
      Rollover!CommitReopen, RegistryOne!CommitReopen, Rollover!CommitRollover,
      RegistryOne!CommitRollover, Rollover!CommitAsk, RegistryOne!CommitAsk,
      Rollover!CommitCancel, RegistryOne!CommitCancel, Rollover!CommitReject,
      RegistryOne!CommitReject, Rollover!CommitApprove, RegistryOne!CommitApprove,
      Rollover!Drop, RegistryOne!Drop, Rollover!OpenOf, RegistryOne!OpenOf, Rollover!Plans,
      RegistryOne!Plans, Rollover!NoYears, RegistryOne!NoYears, Rollover!CuratorOk,
      RegistryOne!CuratorOk, Rollover!CohortFree, RegistryOne!CohortFree,
      Rollover!NextNumber, RegistryOne!NextNumber, Rollover!NextCohort,
      RegistryOne!NextCohort, Rollover!Creation, RegistryOne!Creation, Rollover!OpenIn,
      RegistryOne!OpenIn, Rollover!InYear, RegistryOne!InYear, Rollover!NotOwing,
      RegistryOne!NotOwing, Rollover!CurrentIs, RegistryOne!CurrentIs, Rollover!Commits,
      RegistryOne!Commits, Rollover!StillFirst, RegistryOne!StillFirst, Rollover!IdTaken,
      RegistryOne!IdTaken, Rollover!Class, RegistryOne!Class, Rollover!At, RegistryOne!At,
      Rollover!Curated, RegistryOne!Curated, Rollover!Turned, RegistryOne!Turned,
      Rollover!Sources, RegistryOne!Sources, Rollover!Promoted, RegistryOne!Promoted,
      Rollover!Target, RegistryOne!Target, Rollover!Asked, RegistryOne!Asked,
      Rollover!Pending, RegistryOne!Pending, Rollover!Resolved, RegistryOne!Resolved,
      Rollover!FitsRequest, RegistryOne!FitsRequest, Rollover!Seated, RegistryOne!Seated,
      Rollover!Max, RegistryOne!Max, Rollover!Holds, RegistryOne!Holds, schoolVars,
      RegistryOne!schoolVars
<1> QED BY SchoolRun, <1>1, RegistryOneHolds, RegistryOne!SchoolSafe, PTL DEF MCSpec,
    RegistryOne!SchoolSpec

LEMMA PairSame ==
    /\ Pair!LoansInit <=> RegistryOne!LoansInit
    /\ Pair!LoansNext <=> RegistryOne!LoansNext
    /\ UNCHANGED loanVars <=> UNCHANGED RegistryOne!loanVars
    /\ Pair!LoansSound <=> RegistryOne!LoansSound
    /\ Pair!FrozenStep <=> RegistryOne!FrozenStep
<1>1. Pair!LoansInit <=> RegistryOne!LoansInit
  BY ZenonT(150) DEF Pair!LoansInit, RegistryOne!LoansInit, Pair!Cardinality,
      RegistryOne!Cardinality, Pair!Places, RegistryOne!Places, Pair!Shelf,
      RegistryOne!Shelf, Pair!NoItem, RegistryOne!NoItem, Pair!NoShelf, RegistryOne!NoShelf
<1>2. Pair!LoansNext <=> RegistryOne!LoansNext
  BY ZenonT(150) DEF Pair!LoansNext, RegistryOne!LoansNext, Pair!Desk, RegistryOne!Desk,
      Pair!Others, RegistryOne!Others, Pair!Places, RegistryOne!Places, Pair!PlanIssue,
      RegistryOne!PlanIssue, Pair!PlanReturn, RegistryOne!PlanReturn, Pair!PlanAdjust,
      RegistryOne!PlanAdjust, Pair!PlanLink, RegistryOne!PlanLink, Pair!CommitIssue,
      RegistryOne!CommitIssue, Pair!CommitReturn, RegistryOne!CommitReturn,
      Pair!CommitAdjust, RegistryOne!CommitAdjust, Pair!CommitLink, RegistryOne!CommitLink,
      Pair!PutsDown, RegistryOne!PutsDown, Pair!UpdateMetadata, RegistryOne!UpdateMetadata,
      Pair!ClosePupils, RegistryOne!ClosePupils, Pair!ReopenPupils,
      RegistryOne!ReopenPupils, Pair!CloseRoom, RegistryOne!CloseRoom, Pair!ReopenRoom,
      RegistryOne!ReopenRoom, Pair!Carry, RegistryOne!Carry, Pair!Promise,
      RegistryOne!Promise, Pair!Withdraw, RegistryOne!Withdraw, Pair!Active,
      RegistryOne!Active, Pair!Available, RegistryOne!Available, Pair!OpenFor,
      RegistryOne!OpenFor, Pair!PicksUp, RegistryOne!PicksUp, Pair!ItemsOf,
      RegistryOne!ItemsOf, Pair!Out, RegistryOne!Out, Pair!Linked, RegistryOne!Linked,
      Pair!Adjustments, RegistryOne!Adjustments, Pair!Owed, RegistryOne!Owed,
      Pair!FreeLines, RegistryOne!FreeLines, Pair!Delivers, RegistryOne!Delivers,
      Pair!Receives, RegistryOne!Receives, Pair!Move, RegistryOne!Move, Pair!SameStatement,
      RegistryOne!SameStatement, Pair!SumFunction, RegistryOne!SumFunction,
      Pair!ClassStillActive, RegistryOne!ClassStillActive, Pair!SameItem,
      RegistryOne!SameItem, Pair!Bump, RegistryOne!Bump, Pair!StillUnlinked,
      RegistryOne!StillUnlinked, Pair!stockVars, RegistryOne!stockVars, Pair!OwesNothing,
      RegistryOne!OwesNothing, Pair!Shelf, RegistryOne!Shelf, Pair!NoOtherOpen,
      RegistryOne!NoOtherOpen, Pair!SameShelf, RegistryOne!SameShelf, Pair!SumFunctionOnSet,
      RegistryOne!SumFunctionOnSet, Pair!Owes, RegistryOne!Owes, Pair!NoShelf,
      RegistryOne!NoShelf, Pair!FoldFunctionOnSet, RegistryOne!FoldFunctionOnSet,
      Pair!MapThenFoldSet, RegistryOne!MapThenFoldSet
<1>3. Pair!LoansSound <=> RegistryOne!LoansSound
  BY ZenonT(150) DEF Pair!LoansSound, RegistryOne!LoansSound, Pair!CopiesAccounted,
      RegistryOne!CopiesAccounted, Pair!StatementsSound, RegistryOne!StatementsSound,
      Pair!ClosedClassOwesNothing, RegistryOne!ClosedClassOwesNothing, Pair!Places,
      RegistryOne!Places, Pair!Out, RegistryOne!Out, Pair!SumFunction,
      RegistryOne!SumFunction, Pair!Cardinality, RegistryOne!Cardinality, Pair!OpenFor,
      RegistryOne!OpenFor, Pair!Linked, RegistryOne!Linked, Pair!Active, RegistryOne!Active,
      Pair!Owes, RegistryOne!Owes, Pair!SumFunctionOnSet, RegistryOne!SumFunctionOnSet,
      Pair!FoldFunctionOnSet, RegistryOne!FoldFunctionOnSet, Pair!MapThenFoldSet,
      RegistryOne!MapThenFoldSet
<1>4. Pair!FrozenStep <=> RegistryOne!FrozenStep
  BY ZenonT(150) DEF Pair!FrozenStep, RegistryOne!FrozenStep, Pair!Active,
      RegistryOne!Active
<1>5. UNCHANGED loanVars <=> UNCHANGED RegistryOne!loanVars
  BY DEF loanVars, RegistryOne!loanVars, stockVars, RegistryOne!stockVars
<1> QED BY <1>1, <1>2, <1>3, <1>4, <1>5

LEMMA PairSafe == MCSpec => [](focus = "pair" => Pair!LoansSound)
BY LoansRun, PairSame, RegistryOneHolds, RegistryOne!LoansSafe, PTL DEF MCSpec,
    RegistryOne!LoansSpec

LEMMA PairFrozen == MCSpec => [][focus = "pair" => Pair!FrozenStep]_MCVars
BY LoansRun, PairSame, RegistryOneHolds, RegistryOne!ClosedStaysFrozen, PTL DEF MCSpec,
    RegistryOne!LoansSpec, RegistryOne!ClosedClassFrozen

LEMMA LessonsSafe == MCSpec => [](focus = "lessons" => Lessons!VisitsSound)
<1>1. /\ Lessons!VisitsInit <=> RegistryOne!VisitsInit
      /\ Lessons!VisitsNext <=> RegistryOne!VisitsNext
      /\ UNCHANGED visitVars <=> UNCHANGED RegistryOne!visitVars
      /\ Lessons!VisitsSound <=> RegistryOne!VisitsSound
  BY ZenonT(150) DEF Lessons!VisitsInit, RegistryOne!VisitsInit, Lessons!VisitsNext,
      RegistryOne!VisitsNext, Lessons!VisitsSound, RegistryOne!VisitsSound, Lessons!Owners,
      RegistryOne!Owners, Lessons!Claimants, RegistryOne!Claimants, Lessons!Segments,
      RegistryOne!Segments, Lessons!Calls, RegistryOne!Calls, Lessons!Tick,
      RegistryOne!Tick, Lessons!CloseHost, RegistryOne!CloseHost, Lessons!RestoreHost,
      RegistryOne!RestoreHost, Lessons!SignIn, RegistryOne!SignIn, Lessons!SignOut,
      RegistryOne!SignOut, Lessons!TurnForm, RegistryOne!TurnForm, Lessons!NoOverlap,
      RegistryOne!NoOverlap, Lessons!WithinLimit, RegistryOne!WithinLimit,
      Lessons!NobodyExpected, RegistryOne!NobodyExpected, Lessons!Intervals,
      RegistryOne!Intervals, Lessons!PlanBook, RegistryOne!PlanBook, Lessons!PlanMove,
      RegistryOne!PlanMove, Lessons!PlanCancelVisit, RegistryOne!PlanCancelVisit,
      Lessons!PlanShut, RegistryOne!PlanShut, Lessons!PlanUnshut, RegistryOne!PlanUnshut,
      Lessons!CommitBook, RegistryOne!CommitBook, Lessons!CommitMove,
      RegistryOne!CommitMove, Lessons!CommitCancelVisit, RegistryOne!CommitCancelVisit,
      Lessons!CommitShut, RegistryOne!CommitShut, Lessons!CommitUnshut,
      RegistryOne!CommitUnshut, Lessons!GiveUp, RegistryOne!GiveUp, Lessons!Clocked,
      RegistryOne!Clocked, Lessons!NoVisitsToCome, RegistryOne!NoVisitsToCome,
      Lessons!Covered, RegistryOne!Covered, Lessons!Cardinality, RegistryOne!Cardinality,
      Lessons!Upcoming, RegistryOne!Upcoming, Lessons!Day, RegistryOne!Day, Lessons!MayAct,
      RegistryOne!MayAct, Lessons!FormOk, RegistryOne!FormOk, Lessons!UnderLimit,
      RegistryOne!UnderLimit, Lessons!StartsCall, RegistryOne!StartsCall, Lessons!EndsCall,
      RegistryOne!EndsCall, Lessons!FreeFor, RegistryOne!FreeFor, Lessons!Claims,
      RegistryOne!Claims, Lessons!Booked, RegistryOne!Booked, Lessons!ActiveVisit,
      RegistryOne!ActiveVisit, Lessons!GivesUp, RegistryOne!GivesUp, Lessons!Withdrawn,
      RegistryOne!Withdrawn, visitVars, RegistryOne!visitVars
<1> QED BY VisitsRun, <1>1, RegistryOneHolds, RegistryOne!VisitsSafe, PTL DEF MCSpec,
    RegistryOne!VisitsSpec

LEMMA SigningTwiceSafe == MCSpec => [](focus = "signing" => SigningTwice!ProcurementSound)
<1>1. /\ SigningTwice!PlanInit <=> RegistryOne!PlanInit
      /\ SigningTwice!PlanNext <=> RegistryOne!PlanNext
      /\ UNCHANGED planVars <=> UNCHANGED RegistryOne!planVars
      /\ SigningTwice!ProcurementSound <=> RegistryOne!ProcurementSound
  BY ZenonT(150) DEF SigningTwice!PlanInit, RegistryOne!PlanInit, SigningTwice!PlanNext,
      RegistryOne!PlanNext, SigningTwice!ProcurementSound, RegistryOne!ProcurementSound,
      SigningTwice!CreatePlan, RegistryOne!CreatePlan, SigningTwice!Reopen,
      RegistryOne!Reopen, SigningTwice!Edit, RegistryOne!Edit, SigningTwice!UpdatePlan,
      RegistryOne!UpdatePlan, SigningTwice!BeginPrefill, RegistryOne!BeginPrefill,
      SigningTwice!PrefillOne, RegistryOne!PrefillOne, SigningTwice!BeginSigning,
      RegistryOne!BeginSigning, SigningTwice!ReadRow, RegistryOne!ReadRow,
      SigningTwice!Tables, RegistryOne!Tables, SigningTwice!ReadTable,
      RegistryOne!ReadTable, SigningTwice!ReadSequence, RegistryOne!ReadSequence,
      SigningTwice!CommitSigning, RegistryOne!CommitSigning, SigningTwice!GiveUpPlan,
      RegistryOne!GiveUpPlan, SigningTwice!BecomeLiterature, RegistryOne!BecomeLiterature,
      SigningTwice!SignedAsRead, RegistryOne!SignedAsRead, SigningTwice!NeedsStand,
      RegistryOne!NeedsStand, SigningTwice!RestOfPlan, RegistryOne!RestOfPlan,
      SigningTwice!Bumped, RegistryOne!Bumped, SigningTwice!RemoveClass,
      RegistryOne!RemoveClass, SigningTwice!Counts, RegistryOne!Counts,
      SigningTwice!UpsertClass, RegistryOne!UpsertClass, SigningTwice!AddResource,
      RegistryOne!AddResource, SigningTwice!RemoveResource, RegistryOne!RemoveResource,
      SigningTwice!EditResource, RegistryOne!EditResource, SigningTwice!AddAllocation,
      RegistryOne!AddAllocation, SigningTwice!RemoveAllocation,
      RegistryOne!RemoveAllocation, SigningTwice!MoveAllocation, RegistryOne!MoveAllocation,
      SigningTwice!Draft, RegistryOne!Draft, SigningTwice!PlannerAt, RegistryOne!PlannerAt,
      SigningTwice!Hold, RegistryOne!Hold, SigningTwice!PlannerDoes,
      RegistryOne!PlannerDoes, SigningTwice!Present, RegistryOne!Present,
      SigningTwice!Counted, RegistryOne!Counted, SigningTwice!Expected,
      RegistryOne!Expected, SigningTwice!Nothing, RegistryOne!Nothing, SigningTwice!Drawn,
      RegistryOne!Drawn, SigningTwice!Signable, RegistryOne!Signable, planVars,
      RegistryOne!planVars
<1> QED BY PlansRun, <1>1, RegistryOneHolds, RegistryOne!PlanSafe, PTL DEF MCSpec,
    RegistryOne!PlanSpec

(* Copies of a title lent to classes are neither lost nor made, statements agree
   with their lines and a closed class owes nothing (library-mutation-store.ts), in
   both instances. *)
THEOREM ClassLoansStaySound == MCSpec => []ClassLoansSound
<1>1. ClassLoansSound <=> /\ (focus = "parts" => LoansSound)
                          /\ (focus = "pair" => Pair!LoansSound)
  BY DEF ClassLoansSound
<1> QED BY <1>1, PartsSafe, PairSafe, PTL

(* No batch on a loan moves what a closed class or a closed statement holds
   (library-mutation-store.ts), in both instances. *)
THEOREM ClosedStayFrozen == MCSpec => ClosedFrozen
<1>1. /\ [focus = "parts" => FrozenStep]_MCVars
      /\ [focus = "pair" => Pair!FrozenStep]_MCVars
      => [/\ (focus = "parts") => FrozenStep
          /\ (focus = "pair") => Pair!FrozenStep]_MCVars
  OBVIOUS
<1> QED BY <1>1, PartsFrozen, PairFrozen, PTL DEF ClosedFrozen

(* One year runs, classes and cohorts keep to it and a teacher has one pending
   request (academic-admin-store.ts, teacher-curator-request-store.ts); a signed plan
   is its last snapshot (procurement-planning-store.ts), in each of the four instances. *)
THEOREM SchoolStaysSound == MCSpec => []SchoolSound
<1>1. SchoolSound <=> /\ (focus = "curators" => SchoolInOrder)
                      /\ (focus = "rollover" => Rollover!SchoolInOrder)
                      /\ (focus = "planning" => ProcurementSound)
                      /\ (focus = "signing" => SigningTwice!ProcurementSound)
  BY DEF SchoolSound
<1> QED BY <1>1, CuratorsSafe, RolloverSafe, PlanningSafe, SigningTwiceSafe, PTL

(* No two visits overlap, nobody has too many to come and no closed card is
   expected (visit-schedule-store.ts, visit-guest-store.ts), in both instances. *)
THEOREM VisitsStayKept == MCSpec => []VisitsKept
<1>1. VisitsKept <=> /\ (focus = "desk" => VisitsSound)
                     /\ (focus = "lessons" => Lessons!VisitsSound)
  BY DEF VisitsKept
<1> QED BY <1>1, DeskSafe, LessonsSafe, PTL

=============================================================================
