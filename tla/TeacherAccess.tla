----------------------------- MODULE TeacherAccess -----------------------------
(***************************************************************************)
(* How teachers get into their cabinet: codes, personal PINs, sessions,    *)
(* Telegram bindings and activation invites, as src/lib/                   *)
(* visit-teacher-auth.ts keeps them, with the invites of                   *)
(* telegram-notifications.ts and the cards of teacher-registry-store.ts.   *)
(*                                                                         *)
(* Signing in, activating and changing the PIN read first and write in one *)
(* atomic batch later, with anything in between; the librarian's handlers  *)
(* repeat everything they read in their batch and are single steps.        *)
(*                                                                         *)
(* Abstractions: a code is named by the version of the credential that     *)
(* set it, 0 for one nobody knows; whoever asks presents the right code,   *)
(* because a wrong one, the lock after many of them and the rate limits    *)
(* only refuse (Turned away); a chat is the phone it is on; a session that *)
(* expires is one more that is revoked; sessions are numbered as inserted. *)
(*                                                                         *)
(* Instants are small numbers.  A handler takes its own when it begins,    *)
(* before its first read, and compares and writes that one to the end: its *)
(* since is any instant up to the moment of the read, and when its batch   *)
(* runs, other batches may have written later instants.                    *)
(***************************************************************************)
EXTENDS Integers, FiniteSets, FiniteSetsExt

CONSTANTS
    Staff,          \* teachers with a card
    Phones,         \* Telegram accounts
    Invites,        \* activation invites (random UUIDs)
    Launches,       \* signed launches of the Mini App (hashes of init data)
    Doors,          \* concurrently running handler invocations
    Quiet, NoPhone, NoInvite, NoLaunch, Anyone,     \* model values
    MaxSession,     \* bound: sessions ever opened
    SessionLimit,   \* MAX_ACTIVE_SESSIONS
    MaxAccess,      \* bound: version of a credential
    CodeTime,       \* TEMPORARY_CODE_TTL_MS
    LastMoment      \* bound: how far the clock goes

ASSUME AccessBounds == {MaxSession, SessionLimit, MaxAccess} \subseteq Nat \ {0}
ASSUME AccessTimes == CodeTime \in Nat \ {0} /\ LastMoment \in Nat
ASSUME AccessValues ==
    /\ Anyone \notin Staff /\ NoPhone \notin Phones
    /\ NoInvite \notin Invites /\ NoLaunch \notin Launches

VARIABLES
    onStaff,    \* teacher -> the card is open
    cred,       \* teacher -> row of visit_teacher_credentials
    link,       \* teacher -> row of telegram_connections
    invite,     \* row of telegram_teacher_activation_invites
    session,    \* row of visit_teacher_sessions
    used,       \* launches with a receipt
    door,       \* handler -> what it has read and is about to write
    moment      \* the clock

accessVars == <<onStaff, cred, link, invite, session, used, door, moment>>

SessionIds == 1..MaxSession
CredType == [status : {"none", "active", "disabled"}, temp : BOOLEAN, until : Nat,
             code : Nat, ver : Nat, rotated : BOOLEAN]
LinkType == [phone : Phones \cup {NoPhone}, on : BOOLEAN]
InviteType == [status : {"none", "open", "consumed", "revoked"},
               for : Staff \cup {Anyone}, ver : Nat, phone : Phones \cup {NoPhone}]
SessionType == [status : {"none", "live", "revoked"}, of : Staff \cup {Anyone},
                ver : Nat, code : Nat, temp : BOOLEAN, launch : Launches \cup {NoLaunch},
                created : Nat]

DoorPlan ==
    [op : {"signin"}, since : Nat, of : Staff, ver : Nat, code : Nat]
    \cup [op : {"open"}, since : Nat, of : Staff, ver : Nat, phone : Phones, launch : Launches]
    \cup [op : {"activate"}, since : Nat, of : Staff, ver : Nat, code : Nat, temp : BOOLEAN,
          kind : {"personal", "connected", "generic"}, invite : Invites \cup {NoInvite},
          phone : Phones, launch : Launches]
    \cup [op : {"rotate"}, since : Nat, of : Staff, ver : Nat, temp : BOOLEAN, session : SessionIds]

AccessTypeOK ==
    /\ onStaff \in [Staff -> BOOLEAN]
    /\ cred \in [Staff -> CredType]
    /\ link \in [Staff -> LinkType]
    /\ invite \in [Invites -> InviteType]
    /\ session \in [SessionIds -> SessionType]
    /\ used \in SUBSET Launches
    /\ door \in [Doors -> DoorPlan \cup {Quiet}]
    /\ moment \in 0..LastMoment

AccessInit ==
    /\ onStaff = [t \in Staff |-> TRUE]
    /\ cred = [t \in Staff |-> [status |-> "none", temp |-> FALSE, until |-> 0,
                                code |-> 0, ver |-> 0, rotated |-> FALSE]]
    /\ link = [t \in Staff |-> [phone |-> NoPhone, on |-> FALSE]]
    /\ invite = [i \in Invites |-> [status |-> "none", for |-> Anyone, ver |-> 0,
                                    phone |-> NoPhone]]
    /\ session = [s \in SessionIds |-> [status |-> "none", of |-> Anyone, ver |-> 0,
                                        code |-> 0, temp |-> FALSE, launch |-> NoLaunch,
                                        created |-> 0]]
    /\ used = {}
    /\ door = [d \in Doors |-> Quiet]
    /\ moment = 0

-----------------------------------------------------------------------------
(* What the statements ask, and the parts batches share *)

Live(t) == {s \in SessionIds : session[s].status = "live" /\ session[s].of = t}
Usable(t) == onStaff[t] /\ cred[t].status = "active"
(* code_expires_at > now, by the clock n of the handler that asks *)
CodeOpen(t, n) == cred[t].temp => cred[t].until > n
SameCredential(t, v) == cred[t].ver = v
LinkedTo(t, p) == link[t].on /\ link[t].phone = p
TakenByOther(p, t) == \E u \in Staff \ {t} : LinkedTo(u, p)
OpenInvites == {i \in Invites : invite[i].status = "open"}
Personal(p) == {i \in OpenInvites : /\ invite[i].for # Anyone /\ invite[i].phone = p
                                    /\ Usable(invite[i].for)
                                    /\ SameCredential(invite[i].for, invite[i].ver)}

Credential(status, temp, until, code, v, rotated) ==
    [status |-> status, temp |-> temp, until |-> until, code |-> code, ver |-> v,
     rotated |-> rotated]
(* a code from the librarian, a PIN of one's own, a change of the status *)
Temporary(v, n) == Credential("active", TRUE, n, v, v, FALSE)
OwnPin(v, rotated) == Credential("active", FALSE, 0, v, v, rotated)
Status(r, s) == Credential(s, r.temp, r.until, r.code, r.ver + 1, FALSE)

(* Rows of sessions once those in S are revoked, and one of t is opened. *)
Revoke(r) == [status |-> "revoked", of |-> r.of, ver |-> r.ver, code |-> r.code,
              temp |-> r.temp, launch |-> r.launch, created |-> r.created]
Revoked(S) == [s \in SessionIds |-> IF s \in S THEN Revoke(session[s]) ELSE session[s]]
NextSession == 1 + Max({0} \cup {s \in SessionIds : session[s].status # "none"})
Opens(t, S, v, code, temp, a, n) ==
    /\ NextSession <= MaxSession                                    \* bound
    /\ session' = [Revoked(S) EXCEPT ![NextSession] =
           [status |-> "live", of |-> t, ver |-> v, code |-> code, temp |-> temp,
            launch |-> a, created |-> n]]
(* a session with the least created_at makes room for a new one *)
Oldest(t) == {s \in Live(t) : \A r \in Live(t) : session[s].created <= session[r].created}
Evictions(t) == IF Cardinality(Live(t)) >= SessionLimit THEN {{s} : s \in Oldest(t)} ELSE {{}}
Evicts(t, v, code, temp, a, n) == \E S \in Evictions(t) : Opens(t, S, v, code, temp, a, n)

Closes(S) == invite' = [i \in Invites |-> IF i \in S
                           THEN [invite[i] EXCEPT !.status = "revoked"] ELSE invite[i]]
InvitesOf(t) == {i \in OpenInvites : invite[i].for = t}
InvitesOn(p) == {i \in OpenInvites : invite[i].phone = p}

Knocks(d, p) ==
    /\ door[d] = Quiet
    /\ door' = [door EXCEPT ![d] = p]
    /\ UNCHANGED <<onStaff, cred, link, invite, session, used, moment>>
Enters(d, op) ==
    /\ door[d] # Quiet /\ door[d].op = op
    /\ door' = [door EXCEPT ![d] = Quiet]
    /\ UNCHANGED <<onStaff, moment>>
TurnedAway(d) ==
    /\ door[d] # Quiet
    /\ door' = [door EXCEPT ![d] = Quiet]
    /\ UNCHANGED <<onStaff, cred, link, invite, session, used, moment>>

-----------------------------------------------------------------------------
(* createVisitTeacherSession: a name and a code, on the site *)

PlanSignIn(d, t, n) ==
    /\ Usable(t) /\ CodeOpen(t, n) /\ cred[t].code > 0
    /\ Knocks(d, [op |-> "signin", since |-> n, of |-> t, ver |-> cred[t].ver,
                  code |-> cred[t].code])

(* The batch asks the row again, but by the handler's own clock, and the   *)
(* use of a code is nothing but code_expires_at = the clock of its user: a *)
(* sign-in that began before that one still passes.                        *)
Timeless(t, n) == TRUE                  \* mutant: the batch does not ask again
CodeStillOpen(t, n) == CodeOpen(t, n)

CommitSignIn(d) ==
    LET p == door[d]  t == p.of IN
    /\ Enters(d, "signin")
    /\ Usable(t) /\ SameCredential(t, p.ver) /\ CodeStillOpen(t, p.since)
    /\ Evicts(t, p.ver, p.code, cred[t].temp, NoLaunch, p.since)
    /\ cred' = [cred EXCEPT ![t].until = IF cred[t].temp THEN p.since ELSE @]
    /\ UNCHANGED <<link, invite, used>>

(* createVisitTeacherTelegramSession: the Mini App of a linked phone *)

PlanOpen(d, t, p, a, n) ==
    /\ Personal(p) = {}
    /\ LinkedTo(t, p) /\ Usable(t) /\ ~cred[t].temp /\ a \notin used
    /\ Knocks(d, [op |-> "open", since |-> n, of |-> t, ver |-> cred[t].ver, phone |-> p,
                  launch |-> a])

FreshLaunch(a) == a \notin used

CommitOpen(d) ==
    LET p == door[d]  t == p.of IN
    /\ Enters(d, "open")
    /\ LinkedTo(t, p.phone) /\ Usable(t) /\ SameCredential(t, p.ver) /\ ~cred[t].temp
    /\ FreshLaunch(p.launch)
    /\ Evicts(t, p.ver, cred[t].code, FALSE, p.launch, p.since)
    /\ used' = used \cup {p.launch}
    /\ UNCHANGED <<cred, link, invite>>

-----------------------------------------------------------------------------
(* activateVisitTeacherTelegramSession: binds a phone, by a personal       *)
(* invite, by the link a phone has, or by a code after a plain Start       *)

Activation(d, kind, i, t, p, a, n) ==
    /\ Usable(t) /\ a \notin used /\ ~TakenByOther(p, t)
    /\ kind # "personal" => CodeOpen(t, n) /\ cred[t].code > 0
    /\ Knocks(d, [op |-> "activate", since |-> n, of |-> t, ver |-> cred[t].ver, code |-> cred[t].code,
                  temp |-> cred[t].temp, kind |-> kind, invite |-> i, phone |-> p,
                  launch |-> a])

PlanActivate(d, t, p, a, n) ==
    \/ \E i \in Personal(p) :
        /\ invite[i].for = t
        /\ Activation(d, "personal", i, t, p, a, n)
    \/ /\ Personal(p) = {} /\ LinkedTo(t, p) /\ cred[t].temp
       /\ Activation(d, "connected", NoInvite, t, p, a, n)
    \/ \E i \in OpenInvites :
        /\ Personal(p) = {} /\ ~\E u \in Staff : LinkedTo(u, p) /\ Usable(u) /\ cred[u].temp
        /\ invite[i].for = Anyone /\ invite[i].phone = p
        /\ Activation(d, "generic", i, t, p, a, n)

(* the invite, or the link, still stands *)
StillGranted(p) ==
    IF p.kind = "connected" THEN LinkedTo(p.of, p.phone)
    ELSE /\ p.invite \in OpenInvites /\ invite[p.invite].phone = p.phone
         /\ p.kind = "personal" => SameCredential(p.of, invite[p.invite].ver)

CommitActivate(d) ==
    LET p == door[d]  t == p.of
        newPin == p.kind = "personal" \/ p.temp
        v == IF newPin THEN p.ver + 1 ELSE p.ver
        (* a login from another phone than the linked one ends the others *)
        outs == IF newPin \/ (link[t].on /\ link[t].phone # p.phone) THEN {Live(t)}
                ELSE Evictions(t) IN
    /\ Enters(d, "activate")
    /\ Usable(t) /\ SameCredential(t, p.ver) /\ cred[t].temp = p.temp
    /\ p.kind # "personal" => CodeOpen(t, p.since)
    /\ FreshLaunch(p.launch) /\ ~TakenByOther(p.phone, t)
    /\ StillGranted(p)
    /\ v <= MaxAccess                                               \* bound
    /\ cred' = [cred EXCEPT ![t] = IF newPin THEN OwnPin(v, FALSE) ELSE @]
    /\ \E out \in outs :
           Opens(t, out, v, IF newPin THEN v ELSE p.code, FALSE, p.launch, p.since)
    /\ link' = [u \in Staff |->
           IF u = t THEN [phone |-> p.phone, on |-> TRUE]
           ELSE IF link[u].phone = p.phone THEN [phone |-> NoPhone, on |-> FALSE]
           ELSE link[u]]
    /\ invite' = [i \in Invites |->
           IF i = p.invite THEN [invite[i] EXCEPT !.status = "consumed"]
           ELSE IF i \in InvitesOf(t) \cup InvitesOn(p.phone)
           THEN [invite[i] EXCEPT !.status = "revoked"] ELSE invite[i]]
    /\ used' = used \cup {p.launch}

-----------------------------------------------------------------------------
(* rotateVisitTeacherCode, and recoverRotatedTeacherSession for the        *)
(* teacher whose answer was lost and who asks again with the old session   *)

PlanRotate(d, s, n) ==
    LET t == session[s].of IN
    /\ session[s].status = "live" /\ Usable(t) /\ SameCredential(t, session[s].ver)
    /\ Knocks(d, [op |-> "rotate", since |-> n, of |-> t, ver |-> session[s].ver,
                  temp |-> cred[t].temp, session |-> s])

CommitRotate(d) ==
    LET p == door[d]  t == p.of IN
    /\ Enters(d, "rotate")
    /\ Usable(t) /\ SameCredential(t, p.ver) /\ cred[t].temp = p.temp
    /\ session[p.session].status = "live"
    /\ p.ver < MaxAccess                                            \* bound
    /\ cred' = [cred EXCEPT ![t] = OwnPin(p.ver + 1, TRUE)]
    /\ Opens(t, Live(t), p.ver + 1, p.ver + 1, FALSE, NoLaunch, p.since)
    /\ UNCHANGED <<link, invite, used>>

RecoverRotated(t, n) ==
    /\ Usable(t) /\ cred[t].rotated /\ ~cred[t].temp
    /\ \E s \in SessionIds : session[s].of = t /\ session[s].ver < cred[t].ver
    /\ Evicts(t, cred[t].ver, cred[t].code, FALSE, NoLaunch, n)
    /\ UNCHANGED <<onStaff, cred, link, invite, used, door, moment>>

(* revokeVisitTeacherSession, and the end of a session's time *)
LogOut(s) ==
    /\ session[s].status = "live"
    /\ session' = Revoked({s})
    /\ UNCHANGED <<onStaff, cred, link, invite, used, door, moment>>

TimePasses ==
    /\ moment < LastMoment                                          \* bound
    /\ moment' = moment + 1
    /\ UNCHANGED <<onStaff, cred, link, invite, session, used, door>>

-----------------------------------------------------------------------------
(* The librarian: issueVisitTeacherCode (and the bulk issue and import for *)
(* teachers without one), protectLostVisitTeacherPhone,                    *)
(* updateVisitTeacherAccess, disconnectTelegram                            *)

EndsSessions(t) == session' = Revoked(Live(t))

IssueCode(t, n) ==
    /\ onStaff[t] /\ cred[t].ver < MaxAccess                        \* bound
    /\ cred' = [cred EXCEPT ![t] = Temporary(@.ver + 1, n + CodeTime)]
    /\ EndsSessions(t) /\ Closes(InvitesOf(t))
    /\ UNCHANGED <<onStaff, link, used, door, moment>>

ProtectPhone(t, n) ==
    /\ Usable(t) /\ link[t].on /\ cred[t].ver < MaxAccess           \* bound
    /\ cred' = [cred EXCEPT ![t] = Temporary(@.ver + 1, n + CodeTime)]
    /\ EndsSessions(t) /\ Closes(InvitesOf(t) \cup InvitesOn(link[t].phone))
    /\ link' = [link EXCEPT ![t].on = FALSE]
    /\ UNCHANGED <<onStaff, used, door, moment>>

UpdateAccess(t, action) ==
    /\ onStaff[t] /\ cred[t].status # "none" /\ cred[t].ver < MaxAccess     \* bound
    /\ cred' = [cred EXCEPT ![t] = Status(@, CASE action = "enable" -> "active"
                                              [] action = "disable" -> "disabled"
                                              [] OTHER -> @.status)]
    /\ EndsSessions(t) /\ Closes(InvitesOf(t))
    /\ link' = [link EXCEPT ![t].on = @ /\ action # "disable"]
    /\ UNCHANGED <<onStaff, used, door, moment>>

Disconnect(t) ==
    /\ link[t].on
    /\ EndsSessions(t) /\ Closes(InvitesOf(t) \cup InvitesOn(link[t].phone))
    /\ link' = [link EXCEPT ![t].on = FALSE]
    /\ UNCHANGED <<onStaff, cred, used, door, moment>>

(* createTelegramTeacherActivationInvite: a teacher without a credential   *)
(* gets one with a code nobody knows                                       *)
IssueInvite(t, i) ==
    /\ onStaff[t] /\ cred[t].status # "disabled" /\ invite[i].status = "none"
    /\ cred' = [cred EXCEPT ![t] =
           IF @.status = "none" THEN Credential("active", TRUE, 0, 0, 1, FALSE) ELSE @]
    /\ invite' = [j \in Invites |->
           IF j = i THEN [status |-> "open", for |-> t, phone |-> NoPhone, ver |-> cred'[t].ver]
           ELSE IF j \in InvitesOf(t) THEN [invite[j] EXCEPT !.status = "revoked"]
           ELSE invite[j]]
    /\ UNCHANGED <<onStaff, link, session, used, door, moment>>

RevokeInvite(i) ==
    /\ i \in OpenInvites /\ invite[i].for # Anyone
    /\ Closes({i})
    /\ UNCHANGED <<onStaff, cred, link, session, used, door, moment>>

(* processTeacherActivationInviteStart: the first phone that opens the     *)
(* link has the invite.  Card, credential and conflict are only read       *)
(* before the batch, which does not ask again: they are left out.          *)
ClaimInvite(i, p) ==
    /\ i \in OpenInvites /\ invite[i].for # Anyone /\ invite[i].phone \in {NoPhone, p}
    /\ invite' = [j \in Invites |->
           IF j = i THEN [invite[i] EXCEPT !.phone = p]
           ELSE IF j \in InvitesOn(p) THEN [invite[j] EXCEPT !.status = "revoked"]
           ELSE invite[j]]
    /\ UNCHANGED <<onStaff, cred, link, session, used, door, moment>>

(* createGenericTeacherActivationGrant *)
Start(i, p) ==
    /\ invite[i].status = "none" /\ Personal(p) = {}
    /\ invite' = [j \in Invites |->
           IF j = i THEN [status |-> "open", for |-> Anyone, ver |-> 0, phone |-> p]
           ELSE IF j \in InvitesOn(p) /\ invite[j].for = Anyone
           THEN [invite[j] EXCEPT !.status = "revoked"] ELSE invite[j]]
    /\ UNCHANGED <<onStaff, cred, link, session, used, door, moment>>

(* closeTeacher, restoreTeacher *)
LeaveStaff(t) ==
    /\ onStaff[t] /\ cred[t].ver < MaxAccess                        \* bound
    /\ onStaff' = [onStaff EXCEPT ![t] = FALSE]
    /\ cred' = [cred EXCEPT ![t] = IF @.status = "none" THEN @ ELSE Status(@, "disabled")]
    /\ EndsSessions(t)
    /\ UNCHANGED <<link, invite, used, door, moment>>

RejoinStaff(t) ==
    /\ ~onStaff[t]
    /\ onStaff' = [onStaff EXCEPT ![t] = TRUE]
    /\ UNCHANGED <<cred, link, invite, session, used, door, moment>>

(* the instants a handler may have begun at *)
Begun == 0..moment

AtTheDoor ==
    \E d \in Doors :
        \/ \E n \in Begun :
            \/ \E t \in Staff : PlanSignIn(d, t, n)
            \/ \E t \in Staff, p \in Phones, a \in Launches :
                   PlanOpen(d, t, p, a, n) \/ PlanActivate(d, t, p, a, n)
            \/ \E s \in SessionIds : PlanRotate(d, s, n)
        \/ CommitSignIn(d) \/ CommitOpen(d) \/ CommitActivate(d) \/ CommitRotate(d)
        \/ TurnedAway(d)

AccessNext ==
    \/ AtTheDoor
    \/ TimePasses
    \/ \E s \in SessionIds : LogOut(s)
    \/ \E t \in Staff, n \in Begun : RecoverRotated(t, n) \/ IssueCode(t, n) \/ ProtectPhone(t, n)
    \/ \E t \in Staff :
        \/ Disconnect(t)
        \/ \E action \in {"enable", "disable", "other"} : UpdateAccess(t, action)
        \/ \E i \in Invites : IssueInvite(t, i)
        \/ LeaveStaff(t) \/ RejoinStaff(t)
    \/ \E i \in Invites : RevokeInvite(i)
    \/ \E i \in Invites, p \in Phones : ClaimInvite(i, p) \/ Start(i, p)

AccessSpec == AccessInit /\ [][AccessNext]_accessVars

-----------------------------------------------------------------------------
(* Properties *)

(* A live session belongs to an open card and an active credential, and    *)
(* was opened with today's version and today's code: whatever was under    *)
(* way when the code changed or the access was blocked, nothing survives.  *)
LiveIsValid ==
    \A t \in Staff : \A s \in Live(t) :
        Usable(t) /\ session[s].ver = cred[t].ver /\ session[s].code = cred[t].code

(* A call that signs in with a temporary code ends it for every call that  *)
(* begins then or later: a further session of the code belongs to a call   *)
(* that had begun before every call that was let in with it.  A launch of  *)
(* the Mini App opens one session, nobody has more live ones than the      *)
(* limit, and a phone is linked to one teacher.                            *)
OpenedOnce ==
    /\ \A s, r \in SessionIds :
        /\ s < r /\ session[s].of = session[r].of /\ session[s].code = session[r].code
        /\ session[s].temp /\ session[r].temp
        => session[r].created < session[s].created
    /\ \A s, r \in SessionIds : s # r => session[s].launch # session[r].launch
                                         \/ session[s].launch = NoLaunch
    /\ \A t \in Staff : Cardinality(Live(t)) <= SessionLimit
    /\ \A t, u \in Staff : t # u /\ link[t].on => link[t].phone # link[u].phone \/ ~link[u].on

AccessSound == LiveIsValid /\ OpenedOnce
=============================================================================
