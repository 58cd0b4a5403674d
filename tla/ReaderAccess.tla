------------------------------ MODULE ReaderAccess ------------------------------
(***************************************************************************)
(* How readers get into the reading cabinet: temporary codes, the grants   *)
(* they open, PINs, personal passes, Telegram bindings and sessions, as    *)
(* src/lib/reader-pin-auth.ts and reader-auth.ts keep them, with the       *)
(* librarian's side in library-reader-admin.ts and literature-admin.ts and *)
(* the triggers of drizzle/0057.                                           *)
(*                                                                         *)
(* Each way in reads first and writes in one atomic batch later, anything  *)
(* in between; the librarian's handlers repeat in their batch all they     *)
(* read and are single steps.                                              *)
(*                                                                         *)
(* Abstractions: a code or a PIN is named by the version of the credential *)
(* that set it; whoever asks presents the right one, because a wrong one,  *)
(* the lock after many and the rate limits only refuse (Dismissed); a chat *)
(* is the Telegram account it is of, and none has a teacher's connection;  *)
(* rows of sessions and grants are numbered as created; the web sessions   *)
(* without a credential version, which no code creates now, are left out.  *)
(***************************************************************************)
EXTENDS Integers, FiniteSets, FiniteSetsExt

CONSTANTS
    Readers,        \* cards of readers
    Chats,          \* Telegram accounts
    Passes,         \* personal invites (random tokens)
    AppStarts,         \* signed launches of the Mini App (hashes of init data)
    Gates,          \* concurrently running handler invocations
    Shut, NoChat, NoReader, NoStart,            \* model values
    KeptSessions,           \* sessions a pruning keeps, 2 in the code
    MaxEntry,       \* bound: sessions ever opened
    MaxGrant,       \* bound: grants ever given
    MaxCard         \* bound: version of a card

ASSUME ReaderBounds == {KeptSessions, MaxEntry, MaxGrant, MaxCard} \subseteq Nat \ {0}
ASSUME ReaderValues == NoChat \notin Chats /\ NoReader \notin Readers /\ NoStart \notin AppStarts

VARIABLES
    person,     \* reader -> row of library_readers
    secret,     \* reader -> row of reader_credentials
    grant,      \* row of reader_pin_setup_grants
    pass,       \* row of reader_invites
    chat,       \* reader -> row of reader_telegram_connections
    entry,      \* row of reader_sessions
    seen,       \* launches with a receipt
    gate        \* handler -> what it has read and is about to write

readerVars == <<person, secret, grant, pass, chat, entry, seen, gate>>

Entries == 1..MaxEntry
Grants == 1..MaxGrant
PersonType == [student : BOOLEAN, linked : BOOLEAN, on : BOOLEAN,
               access : {"inactive", "active", "blocked"}, av : Nat, ver : Nat]
SecretType == [status : {"none", "disabled", "active"}, must : BOOLEAN, open : BOOLEAN,
               code : Nat, ver : Nat]
(* issue: the temporary code a row goes back to, 0 for none *)
GrantType == [status : {"none", "open", "consumed", "closed"}, of : Readers \cup {NoReader},
              cv : Nat, issue : Nat]
PassType == [status : {"none", "open", "consumed", "closed"}, of : Readers \cup {NoReader},
             for : {"web", "telegram"}, av : Nat, issue : Nat]
ChatType == [status : {"none", "active", "disabled", "blocked"},
             of : Chats \cup {NoChat}, ver : Nat]
(* code, chatVer: the PIN, or the binding, the session was opened with *)
EntryRow == [status : {"none", "live", "revoked"}, of : Readers \cup {NoReader},
             av : Nat, cv : Nat, chat : Chats \cup {NoChat}, code : Nat, chatVer : Nat,
             issue : Nat, start : AppStarts \cup {NoStart}]

GatePlan ==
    [op : {"pin", "temp"}, of : Readers, cv : Nat, code : Nat, av : Nat]
    \cup [op : {"setup"}, of : Readers, cv : Nat, av : Nat, ver : Nat, grant : Grants]
    \cup [op : {"redeem"}, of : Readers, cv : Nat, av : Nat, ver : Nat, pass : Passes]
    \cup [op : {"join"}, of : Readers, av : Nat, pass : Passes, chat : Chats, start : AppStarts]
    \cup [op : {"open"}, of : Readers, av : Nat, chatVer : Nat, chat : Chats, start : AppStarts]
    \cup [op : {"bind"}, of : Readers, cv : Nat, code : Nat, must : BOOLEAN, av : Nat,
          ver : Nat, chat : Chats, start : AppStarts]

ReaderTypeOK ==
    /\ person \in [Readers -> PersonType]
    /\ secret \in [Readers -> SecretType]
    /\ grant \in [Grants -> GrantType]
    /\ pass \in [Passes -> PassType]
    /\ chat \in [Readers -> ChatType]
    /\ entry \in [Entries -> EntryRow]
    /\ seen \in SUBSET AppStarts
    /\ gate \in [Gates -> GatePlan \cup {Shut}]

ReaderInit ==
    /\ \E students \in SUBSET Readers :
        /\ person = [r \in Readers |->
               [student |-> r \in students, linked |-> FALSE, on |-> TRUE,
                access |-> "inactive", av |-> 1, ver |-> 1]]
        /\ secret = [r \in Readers |->
               [status |-> IF r \in students THEN "disabled" ELSE "none", must |-> TRUE,
                open |-> FALSE, code |-> 0, ver |-> 1]]
    /\ grant = [g \in Grants |-> [status |-> "none", of |-> NoReader, cv |-> 0, issue |-> 0]]
    /\ pass = [i \in Passes |-> [status |-> "none", of |-> NoReader, for |-> "web",
                                 av |-> 0, issue |-> 0]]
    /\ chat = [r \in Readers |-> [status |-> "none", of |-> NoChat, ver |-> 0]]
    /\ entry = [s \in Entries |-> [status |-> "none", of |-> NoReader, av |-> 0, cv |-> 0,
                    chat |-> NoChat, code |-> 0, chatVer |-> 0, issue |-> 0,
                    start |-> NoStart]]
    /\ seen = {}
    /\ gate = [d \in Gates |-> Shut]

-----------------------------------------------------------------------------
(* What the statements ask, and the parts batches share *)

MayEnter(r) == person[r].on /\ person[r].access # "blocked" /\ ~person[r].linked
Pupil(r) == MayEnter(r) /\ person[r].student
SecretAsRead(r, v) == secret[r].ver = v
CardAsRead(r, v) == person[r].ver = v
CodeLive(r) == secret[r].status = "active" /\ secret[r].code > 0
               /\ (secret[r].must => secret[r].open)

LiveOf(r) == {s \in Entries : entry[s].status = "live" /\ entry[s].of = r}
WebOf(r) == {s \in LiveOf(r) : entry[s].chat = NoChat}
ChatOf(r) == LiveOf(r) \ WebOf(r)
(* pruneWebSessions, pruneSessions: all but the newest of S *)
Surplus(S) == {s \in S : Cardinality({t \in S : t > s}) >= KeptSessions}

(* requireReaderSession *)
ValidEntry(s) ==
    LET e == entry[s] r == e.of IN
    /\ e.status = "live" /\ person[r].on /\ person[r].access = "active"
    /\ person[r].av = e.av
    /\ IF e.chat = NoChat
       THEN secret[r].status = "active" /\ ~secret[r].must /\ SecretAsRead(r, e.cv)
       ELSE chat[r].status = "active" /\ chat[r].of = e.chat

Over(s) == [entry[s] EXCEPT !.status = "revoked"]
EntriesLess(S) == [s \in Entries |-> IF s \in S THEN Over(s) ELSE entry[s]]
NextEntry == 1 + Max({0} \cup {s \in Entries : entry[s].status # "none"})
Admits(S, e) ==
    /\ NextEntry <= MaxEntry                                        \* bound
    /\ entry' = [EntriesLess(S) EXCEPT ![NextEntry] = e]
WebEntry(r, av, cv, code, issue) ==
    [status |-> "live", of |-> r, av |-> av, cv |-> cv, chat |-> NoChat, code |-> code,
     chatVer |-> 0, issue |-> issue, start |-> NoStart]
ChatEntry(r, av, cv, issue, c, v, a) ==
    [status |-> "live", of |-> r, av |-> av, cv |-> cv, chat |-> c, code |-> 0,
     chatVer |-> v, issue |-> issue, start |-> a]

PassesOf(r, purposes) == {i \in Passes : /\ pass[i].status = "open" /\ pass[i].of = r
                                         /\ pass[i].for \in purposes}
AllPasses(r) == PassesOf(r, {"web", "telegram"})
PassesLess(S) == [i \in Passes |->
    IF i \in S THEN [pass[i] EXCEPT !.status = "closed"] ELSE pass[i]]
OpenGrants(r) == {g \in Grants : grant[g].status = "open" /\ grant[g].of = r}
GrantsLess(S) == [g \in Grants |->
    IF g \in S THEN [grant[g] EXCEPT !.status = "closed"] ELSE grant[g]]

ChosenPin(r) == [status |-> "active", must |-> FALSE, open |-> FALSE,
                 code |-> secret[r].ver + 1, ver |-> secret[r].ver + 1]
OpenCard(r) == [person[r] EXCEPT !.access = "active", !.ver = @ + 1]
CardBound(r) == person[r].ver < MaxCard                             \* bound

Waits(d, p) ==
    /\ gate[d] = Shut
    /\ gate' = [gate EXCEPT ![d] = p]
    /\ UNCHANGED <<person, secret, grant, pass, chat, entry, seen>>
Passing(d, op) ==
    /\ gate[d] # Shut /\ gate[d].op = op
    /\ gate' = [gate EXCEPT ![d] = Shut]
Dismissed(d) ==
    /\ gate[d] # Shut
    /\ gate' = [gate EXCEPT ![d] = Shut]
    /\ UNCHANGED <<person, secret, grant, pass, chat, entry, seen>>

-----------------------------------------------------------------------------
(* beginReaderSignIn: a PIN opens a session, a temporary code a grant *)

PlanPin(d, r) ==
    /\ Pupil(r) /\ CodeLive(r)
    /\ secret[r].must \/ person[r].access = "active"
    /\ Waits(d, [op |-> IF secret[r].must THEN "temp" ELSE "pin", of |-> r,
                 cv |-> secret[r].ver, code |-> secret[r].code, av |-> person[r].av])

(* the card of the reader is not asked again *)
CommitPin(d) ==
    LET p == gate[d] r == p.of IN
    /\ Passing(d, "pin")
    /\ SecretAsRead(r, p.cv) /\ secret[r].code = p.code
    /\ secret[r].status = "active" /\ ~secret[r].must
    /\ Admits(Surplus(WebOf(r)), WebEntry(r, p.av, p.cv, p.code, 0))
    /\ UNCHANGED <<person, secret, grant, pass, chat, seen>>

CodeThere(r, code) == secret[r].code = code

NextGrant == 1 + Max({0} \cup {g \in Grants : grant[g].status # "none"})
CommitTemp(d) ==
    LET p == gate[d] r == p.of IN
    /\ Passing(d, "temp")
    /\ SecretAsRead(r, p.cv) /\ CodeThere(r, p.code)
    /\ secret[r].status = "active" /\ secret[r].must /\ secret[r].open
    /\ NextGrant <= MaxGrant                                        \* bound
    /\ secret' = [secret EXCEPT ![r].code = 0, ![r].open = FALSE]
    /\ grant' = [GrantsLess(OpenGrants(r)) EXCEPT ![NextGrant] =
           [status |-> "open", of |-> r, cv |-> p.cv, issue |-> p.code]]
    /\ UNCHANGED <<person, pass, chat, entry, seen>>

(* completeReaderPinSetup *)
PlanSetup(d, g) ==
    LET r == grant[g].of IN
    /\ grant[g].status = "open" /\ Pupil(r)
    /\ SecretAsRead(r, grant[g].cv) /\ secret[r].status = "active" /\ secret[r].must
    /\ Waits(d, [op |-> "setup", of |-> r, cv |-> secret[r].ver, av |-> person[r].av,
                 ver |-> person[r].ver, grant |-> g])

CommitSetup(d) ==
    LET p == gate[d] r == p.of IN
    /\ Passing(d, "setup")
    /\ grant[p.grant].status = "open"
    /\ SecretAsRead(r, p.cv) /\ secret[r].status = "active" /\ secret[r].must
    /\ CardAsRead(r, p.ver) /\ Pupil(r) /\ CardBound(r)
    /\ grant' = [GrantsLess(OpenGrants(r)) EXCEPT ![p.grant].status = "consumed"]
    /\ secret' = [secret EXCEPT ![r] = ChosenPin(r)]
    /\ person' = [person EXCEPT ![r] = OpenCard(r)]
    /\ pass' = PassesLess(PassesOf(r, {"web"}))
    /\ Admits(WebOf(r), WebEntry(r, p.av, p.cv + 1, p.cv + 1, grant[p.grant].issue))
    /\ UNCHANGED <<chat, seen>>

(* redeemReaderWebInviteWithPin *)
PlanRedeem(d, i) ==
    LET r == pass[i].of IN
    /\ pass[i].status = "open" /\ pass[i].for = "web"
    /\ Pupil(r) /\ pass[i].av = person[r].av /\ secret[r].status # "none"
    /\ Waits(d, [op |-> "redeem", of |-> r, cv |-> secret[r].ver, av |-> person[r].av,
                 ver |-> person[r].ver, pass |-> i])

CommitRedeem(d) ==
    LET p == gate[d] r == p.of IN
    /\ Passing(d, "redeem")
    /\ pass[p.pass].status = "open"
    /\ SecretAsRead(r, p.cv)
    /\ CardAsRead(r, p.ver) /\ person[r].student /\ person[r].on
    /\ person[r].access # "blocked" /\ CardBound(r)
    /\ pass' = [PassesLess(PassesOf(r, {"web"})) EXCEPT ![p.pass].status = "consumed"]
    /\ secret' = [secret EXCEPT ![r] = ChosenPin(r)]
    /\ person' = [person EXCEPT ![r] = OpenCard(r)]
    /\ grant' = GrantsLess(OpenGrants(r))
    /\ Admits(WebOf(r), WebEntry(r, p.av, p.cv + 1, p.cv + 1, pass[p.pass].issue))
    /\ UNCHANGED <<chat, seen>>

-----------------------------------------------------------------------------
(* Telegram: a chat has one row, a reader one row *)

ChatFree(r, c) == \A q \in Readers \ {r} : chat[q].of # c
NewStart(a) == a \notin seen
Bound(r, c) == [chat EXCEPT ![r] = [status |-> "active", of |-> c, ver |-> @.ver + 1]]

(* redeemReaderInvite *)
PlanJoin(d, i, c, a) ==
    LET r == pass[i].of IN
    /\ pass[i].status = "open" /\ pass[i].for = "telegram"
    /\ MayEnter(r) /\ pass[i].av = person[r].av
    /\ Waits(d, [op |-> "join", of |-> r, av |-> person[r].av, pass |-> i, chat |-> c,
                 start |-> a])

CommitJoin(d) ==
    LET p == gate[d] r == p.of IN
    /\ Passing(d, "join")
    /\ pass[p.pass].status = "open" /\ pass[p.pass].av = person[r].av /\ MayEnter(r)
    /\ NewStart(p.start) /\ ChatFree(r, p.chat) /\ chat[r].status \in {"none", "disabled"}
    /\ CardBound(r)
    /\ pass' = [pass EXCEPT ![p.pass].status = "consumed"]
    /\ chat' = Bound(r, p.chat)
    /\ person' = [person EXCEPT ![r] = OpenCard(r)]
    /\ Admits(ChatOf(r) \cup Surplus(WebOf(r)),
              ChatEntry(r, p.av, 0, 0, p.chat, chat'[r].ver, p.start))
    /\ seen' = seen \cup {p.start}
    /\ UNCHANGED <<secret, grant>>

(* createReaderTelegramSession *)
PlanLaunch(d, r, a) ==
    /\ chat[r].status = "active" /\ MayEnter(r) /\ person[r].access = "active"
    /\ Waits(d, [op |-> "open", of |-> r, av |-> person[r].av, chatVer |-> chat[r].ver,
                 chat |-> chat[r].of, start |-> a])

CommitLaunch(d) ==
    LET p == gate[d] r == p.of IN
    /\ Passing(d, "open")
    /\ person[r].av = p.av /\ person[r].on /\ person[r].access = "active"
    /\ chat[r] = [status |-> "active", of |-> p.chat, ver |-> p.chatVer]
    /\ NewStart(p.start)
    /\ Admits(Surplus(LiveOf(r)), ChatEntry(r, p.av, 0, 0, p.chat, p.chatVer, p.start))
    /\ seen' = seen \cup {p.start}
    /\ UNCHANGED <<person, secret, grant, pass, chat>>

(* authenticateReaderTelegramWithPin: with a PIN, or a temporary code and  *)
(* a new PIN                                                               *)
PlanBind(d, r, c, a) ==
    /\ Pupil(r) /\ person[r].access = "active" /\ CodeLive(r)
    /\ Waits(d, [op |-> "bind", of |-> r, cv |-> secret[r].ver, code |-> secret[r].code,
                 must |-> secret[r].must, av |-> person[r].av, ver |-> person[r].ver,
                 chat |-> c, start |-> a])

CommitBind(d) ==
    LET p == gate[d] r == p.of IN
    /\ Passing(d, "bind")
    /\ CardAsRead(r, p.ver) /\ person[r].av = p.av
    /\ Pupil(r) /\ person[r].access = "active"
    /\ SecretAsRead(r, p.cv) /\ secret[r].code = p.code /\ secret[r].must = p.must
    /\ CodeLive(r)
    /\ NewStart(p.start) /\ ChatFree(r, p.chat) /\ chat[r].status # "blocked"
    /\ chat[r].status = "active" => chat[r].of = p.chat
    /\ chat' = Bound(r, p.chat)
    /\ secret' = [secret EXCEPT ![r] = IF p.must THEN ChosenPin(r) ELSE @]
    /\ grant' = IF p.must THEN GrantsLess(OpenGrants(r)) ELSE grant
    /\ pass' = IF p.must THEN PassesLess(AllPasses(r)) ELSE pass
    /\ Admits(IF p.must THEN LiveOf(r) ELSE ChatOf(r),
              ChatEntry(r, p.av, secret'[r].ver, IF p.must THEN p.code ELSE 0, p.chat,
                        chat'[r].ver, p.start))
    /\ seen' = seen \cup {p.start}
    /\ UNCHANGED person

Unbound(r, s) ==
    IF chat[r].status = "none" THEN chat
    ELSE [chat EXCEPT ![r].status = s, ![r].ver = @ + 1]

(* /disconnect of the bot, and changeReaderTelegram of the cabinet *)
BotDisconnects(r) ==
    /\ chat[r].status = "active" /\ MayEnter(r) /\ person[r].access = "active"
    /\ chat' = Unbound(r, "disabled")
    /\ entry' = EntriesLess(ChatOf(r))
    /\ pass' = PassesLess(AllPasses(r))
    /\ UNCHANGED <<person, secret, grant, seen, gate>>

CabinetDisconnects(r) ==
    /\ chat[r].status = "active" /\ ~person[r].linked
    /\ \E s \in LiveOf(r) : ValidEntry(s)
    /\ chat' = Unbound(r, "disabled")
    /\ entry' = EntriesLess(ChatOf(r))
    /\ UNCHANGED <<person, secret, grant, pass, seen, gate>>

-----------------------------------------------------------------------------
(* The librarian *)

(* issueReaderWebAccess: a code and a pass for one of which a PIN is set *)
IssueWebAccess(r, i) ==
    /\ Pupil(r) /\ secret[r].status # "none" /\ pass[i].status = "none" /\ CardBound(r)
    /\ LET v == secret[r].ver + 1 IN
       /\ secret' = [secret EXCEPT ![r] =
              [status |-> "active", must |-> TRUE, open |-> TRUE, code |-> v, ver |-> v]]
       /\ pass' = [PassesLess(PassesOf(r, {"web"})) EXCEPT ![i] =
              [status |-> "open", of |-> r, for |-> "web", av |-> person[r].av, issue |-> v]]
    /\ person' = [person EXCEPT ![r] = OpenCard(r)]
    /\ entry' = EntriesLess(WebOf(r))
    /\ grant' = GrantsLess(OpenGrants(r))
    /\ UNCHANGED <<chat, seen, gate>>

(* issueReaderInvite *)
IssuePass(r, i, purpose) ==
    /\ MayEnter(r) /\ pass[i].status = "none" /\ CardBound(r)
    /\ purpose = "telegram" => chat[r].status \notin {"active", "blocked"}
    /\ pass' = [PassesLess(PassesOf(r, {purpose})) EXCEPT ![i] =
           [status |-> "open", of |-> r, for |-> purpose, av |-> person[r].av, issue |-> 0]]
    /\ person' = [person EXCEPT ![r].ver = @ + 1]
    /\ UNCHANGED <<secret, grant, chat, entry, seen, gate>>

(* changeReaderAccess; a linked teacher may have an open card *)
ChangeAccess(r, action) ==
    /\ CardBound(r)
    /\ \E s \in CASE action = "disable" -> {"blocked"}
                  [] action = "unblock" /\ person[r].linked -> {"inactive", "active"}
                  [] OTHER -> {"inactive"} :
        person' = [person EXCEPT ![r].access = s, ![r].av = @ + 1, ![r].ver = @ + 1]
    /\ entry' = EntriesLess(LiveOf(r))
    /\ pass' = PassesLess(AllPasses(r))
    /\ chat' = Unbound(r, IF action = "disable" THEN "blocked" ELSE "disabled")
    /\ UNCHANGED <<secret, grant, seen, gate>>

(* the triggers of drizzle/0057 after a kind or a link was written *)
NoPupil(r) ==
    /\ secret' = [secret EXCEPT ![r] = IF @.status = "none" THEN @
           ELSE [status |-> "disabled", must |-> TRUE, open |-> FALSE, code |-> 0,
                 ver |-> @.ver + 1]]
    /\ grant' = GrantsLess(OpenGrants(r))
    /\ entry' = EntriesLess(LiveOf(r))
    /\ pass' = PassesLess(AllPasses(r))
NewPupil(r) ==
    /\ secret' = [secret EXCEPT ![r].status = IF @ = "none" THEN "disabled" ELSE @]
    /\ UNCHANGED <<grant, entry, pass>>

(* saveLibraryReader, saveLiteratureReader *)
SaveReader(r, student) ==
    /\ ~person[r].linked /\ CardBound(r)
    /\ person' = [person EXCEPT ![r].student = student, ![r].ver = @ + 1]
    /\ IF student THEN NewPupil(r) ELSE NoPupil(r)
    /\ UNCHANGED <<chat, seen, gate>>

(* linkReaderTeacher, ensureTeacherReader *)
LinkTeacher(r) ==
    /\ MayEnter(r) /\ ~person[r].student /\ CardBound(r)
    /\ person' = [person EXCEPT ![r].linked = TRUE, ![r].access = "active",
                                ![r].av = @ + 1, ![r].ver = @ + 1]
    /\ NoPupil(r)
    /\ chat' = Unbound(r, "disabled")
    /\ UNCHANGED <<seen, gate>>

(* archiveLiteratureRecord *)
ArchiveReader(r, restore) ==
    /\ CardBound(r)
    /\ person' = [person EXCEPT ![r].on = restore, ![r].av = @ + 1, ![r].ver = @ + 1]
    /\ entry' = IF restore THEN entry ELSE EntriesLess(LiveOf(r))
    /\ pass' = IF restore THEN pass ELSE PassesLess(AllPasses(r))
    /\ UNCHANGED <<secret, grant, chat, seen, gate>>

(* logoutReader, and what runs out: sessions, codes, grants, passes *)
EntryEnds(s) ==
    /\ entry[s].status = "live"
    /\ entry' = EntriesLess({s})
    /\ UNCHANGED <<person, secret, grant, pass, chat, seen, gate>>
SecretRunsOut(r) ==
    /\ secret[r].must /\ secret[r].open
    /\ secret' = [secret EXCEPT ![r].open = FALSE]
    /\ UNCHANGED <<person, grant, pass, chat, entry, seen, gate>>
GrantRunsOut(g) ==
    /\ grant[g].status = "open"
    /\ grant' = GrantsLess({g})
    /\ UNCHANGED <<person, secret, pass, chat, entry, seen, gate>>
PassRunsOut(i) ==
    /\ pass[i].status = "open"
    /\ pass' = PassesLess({i})
    /\ UNCHANGED <<person, secret, grant, chat, entry, seen, gate>>

AtTheGate ==
    \E d \in Gates :
        \/ \E r \in Readers : PlanPin(d, r)
        \/ \E g \in Grants : PlanSetup(d, g)
        \/ \E i \in Passes : PlanRedeem(d, i)
        \/ \E a \in AppStarts :
            \/ \E i \in Passes, c \in Chats : PlanJoin(d, i, c, a)
            \/ \E r \in Readers : PlanLaunch(d, r, a)
            \/ \E r \in Readers, c \in Chats : PlanBind(d, r, c, a)
        \/ CommitPin(d) \/ CommitTemp(d) \/ CommitSetup(d) \/ CommitRedeem(d)
        \/ CommitJoin(d) \/ CommitLaunch(d) \/ CommitBind(d)
        \/ Dismissed(d)

ReaderNext ==
    \/ AtTheGate
    \/ \E s \in Entries : EntryEnds(s)
    \/ \E g \in Grants : GrantRunsOut(g)
    \/ \E i \in Passes : PassRunsOut(i)
    \/ \E r \in Readers :
        \/ SecretRunsOut(r) \/ BotDisconnects(r) \/ CabinetDisconnects(r)
        \/ \E i \in Passes : \/ IssueWebAccess(r, i)
                             \/ \E purpose \in {"web", "telegram"} : IssuePass(r, i, purpose)
        \/ \E action \in {"disable", "unblock", "disconnect"} : ChangeAccess(r, action)
        \/ \E b \in BOOLEAN : SaveReader(r, b) \/ ArchiveReader(r, b)
        \/ LinkTeacher(r)

ReaderSpec == ReaderInit /\ [][ReaderNext]_readerVars

-----------------------------------------------------------------------------
(* Properties *)

(* A session the cabinet accepts was opened with the PIN, or with the      *)
(* binding of the chat, of now, and is of no teacher: whatever was under   *)
(* way when the PIN was reset, the chat let go or the card blocked.        *)
AcceptedIsCurrent ==
    \A s \in Entries : ValidEntry(s) =>
        LET e == entry[s] IN
        /\ IF e.chat = NoChat THEN e.code = secret[e.of].code ELSE e.chatVer = chat[e.of].ver
        /\ ~person[e.of].linked

(* One temporary code sets one PIN, typed, scanned or entered in Telegram; *)
(* a grant that can still set one has used up its code, and is the only    *)
(* one; a launch of the Mini App opens one session.                        *)
OnePinPerCode ==
    /\ \A s, t \in Entries : s # t /\ entry[s].of = entry[t].of =>
        entry[s].issue = 0 \/ entry[s].issue # entry[t].issue
    /\ \A s, t \in Entries : s # t => entry[s].start = NoStart \/ entry[s].start # entry[t].start
    /\ \A r \in Readers :
        /\ Cardinality(OpenGrants(r)) <= 1
        /\ \A g \in OpenGrants(r) : SecretAsRead(r, grant[g].cv) => ~CodeThere(r, grant[g].issue)

(* No reader has more live sessions of a kind than pruning leaves, plus    *)
(* the new one; no two readers share a chat.                               *)
FewSessions ==
    \A r \in Readers :
        /\ Cardinality(WebOf(r)) <= KeptSessions + 1 /\ Cardinality(ChatOf(r)) <= KeptSessions + 1
        /\ \A q \in Readers \ {r} : chat[r].of # chat[q].of \/ chat[r].of = NoChat

ReadersSound == AcceptedIsCurrent /\ OnePinPerCode /\ FewSessions

(* A card the librarian blocked or archived is opened again by the         *)
(* librarian only, whose steps count up the version of the access; and who *)
(* opens a card by choosing a PIN or joining a chat read that version.     *)
BarredStep ==
    /\ \A r \in Readers :
        \/ person'[r].av > person[r].av
        \/ /\ person[r].access = "blocked" => person'[r].access = "blocked"
           /\ person'[r].on = person[r].on /\ person'[r].linked = person[r].linked
    /\ \A s \in Entries : entry[s].status = "none" /\ entry'[s].status = "live" =>
        (person' # person => entry'[s].av = person'[(entry'[s].of)].av)
=============================================================================
