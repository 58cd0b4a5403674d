---------------------------- MODULE AccessProofs -----------------------------
(***************************************************************************)
(* Proofs that the safety properties of TeacherAccess and ReaderAccess     *)
(* hold for every value of their constants.  Each component has an         *)
(* inductive invariant, a lemma per handler and, at the end of its part,   *)
(* its theorems.                                                           *)
(***************************************************************************)
EXTENDS TeacherAccess, ReaderAccess, SumTheorems

-----------------------------------------------------------------------------
(* The doors of teachers: the inductive invariant                          *)

(* What a credential and the codes it had may become in one step *)
CredOnward(b, a) ==
    /\ a.ver >= b.ver /\ a.code >= b.code /\ a.code <= a.ver
    /\ a.ver = b.ver => a.code = b.code
    /\ a.code = b.code /\ a.code > 0 /\ a.temp => b.temp /\ a.until <= b.until
    /\ a.status = "none" => a.ver = 0
CredFine ==
    \A t \in Staff : /\ cred[t].code <= cred[t].ver
                     /\ cred[t].status = "none" => cred[t].ver = 0
(* The code a handler checked is today's when the version still is. *)
Coded(d) == door[d] # Quiet /\ door[d].op \in {"signin", "activate"}
CodeAsRead(p) ==
    /\ p.ver <= cred[p.of].ver
    /\ p.ver = cred[p.of].ver => p.code = cred[p.of].code
    /\ p.op = "signin" => p.code > 0
DoorsFine == \A d \in Doors : Coded(d) => CodeAsRead(door[d])
(* The code that opened a session is an old one, or ends no later than the *)
(* call that opened it began.                                              *)
TempSession(s) ==
    LET c == cred[session[s].of] IN
    /\ session[s].of \in Staff /\ session[s].status # "none"
    /\ session[s].code > 0 /\ session[s].code <= c.code
    /\ session[s].code = c.code /\ c.temp => c.until <= session[s].created
TempFine == \A s \in SessionIds : session[s].temp => TempSession(s)
LaunchesUsed == \A s \in SessionIds : session[s].launch # NoLaunch => session[s].launch \in used

OneByCode ==
    \A s, r \in SessionIds :
        /\ s < r /\ session[s].of = session[r].of /\ session[s].code = session[r].code
        /\ session[s].temp /\ session[r].temp
        => session[r].created < session[s].created
OneByLaunch ==
    \A s, r \in SessionIds : s # r => session[s].launch # session[r].launch
                                      \/ session[s].launch = NoLaunch
WithinSessions == \A t \in Staff : Cardinality(Live(t)) <= SessionLimit
OneByPhone ==
    \A t, u \in Staff : t # u /\ link[t].on => link[t].phone # link[u].phone \/ ~link[u].on

LiveOwned == \A s \in SessionIds : session[s].status = "live" => session[s].of \in Staff

SessionsFine ==
    LiveIsValid /\ LiveOwned /\ TempFine /\ LaunchesUsed /\ OneByCode /\ OneByLaunch /\ WithinSessions
AccessInv == AccessTypeOK /\ CredFine /\ DoorsFine /\ SessionsFine /\ OneByPhone

LEMMA LiveFinite ==
    ASSUME NEW t, NEW S \in SUBSET Live(t)
    PROVE  IsFiniteSet(S) /\ Cardinality(S) \in Nat /\ IsFiniteSet(Live(t))
           /\ Cardinality(S) <= Cardinality(Live(t)) /\ Cardinality(Live(t)) \in Nat
<1>1. IsFiniteSet(SessionIds)
  BY AccessBounds, FS_Interval DEF SessionIds
<1>2. Live(t) \in SUBSET SessionIds
  BY DEF Live
<1>3. IsFiniteSet(Live(t))
  BY <1>1, <1>2, FS_Subset
<1> QED BY <1>3, FS_Subset, FS_CardinalityType

(* The next number is above every session there is. *)
LEMMA NextSessionIsNew ==
    /\ NextSession \in Nat /\ NextSession >= 1
    /\ \A s \in SessionIds : session[s].status # "none" => s < NextSession
<1> DEFINE S == {0} \cup {s \in SessionIds : session[s].status # "none"}
<1>1. MaxSession \in Nat /\ S \in SUBSET (0..MaxSession) /\ S # {}
  BY AccessBounds DEF SessionIds
<1>2. Max(S) \in 0..MaxSession /\ \A y \in S : Max(S) >= y
  <2> HIDE DEF S
  <2>1. Max(S) \in S /\ \A y \in S : Max(S) >= y
    BY <1>1, LargestOf
  <2> QED BY <1>1, <2>1
<1>3. PICK m \in 0..MaxSession : m = Max(S)
  BY <1>2
<1>4. \A s \in SessionIds : session[s].status # "none" => m >= s
  BY <1>2, <1>3
<1>5. NextSession = 1 + m
  BY <1>3 DEF NextSession
<1> QED BY <1>1, <1>4, <1>5 DEF SessionIds

(* Who makes room is one of the live sessions. *)
LEMMA EvictedLive ==
    ASSUME NEW t, NEW S \in Evictions(t)
    PROVE  /\ S \subseteq Live(t) /\ S \in SUBSET SessionIds
           /\ Cardinality(Live(t)) >= SessionLimit => \E x \in Live(t) : S = {x}
<1>1. Live(t) \in SUBSET SessionIds
  BY DEF Live
<1>2. CASE Cardinality(Live(t)) >= SessionLimit
  <2>1. PICK x \in Oldest(t) : S = {x}
    BY <1>2 DEF Evictions
  <2>2. x \in Live(t)
    BY DEF Oldest
  <2> QED BY <1>1, <2>1, <2>2
<1>3. CASE ~(Cardinality(Live(t)) >= SessionLimit)
  BY <1>3 DEF Evictions
<1> QED BY <1>2, <1>3

(* The batch that revokes some sessions keeps whose they are. *)
LEMMA RevokedRows ==
    ASSUME AccessTypeOK, NEW S \in SUBSET SessionIds, NEW s \in SessionIds
    PROVE  LET r == Revoked(S)[s] IN
           /\ r \in SessionType
           /\ r.of = session[s].of /\ r.ver = session[s].ver /\ r.code = session[s].code
           /\ r.temp = session[s].temp /\ r.launch = session[s].launch
           /\ r.created = session[s].created
           /\ session[s].status # "none" => r.status # "none"
           /\ r.status = "live" => session[s].status = "live" /\ s \notin S
<1>1. session[s] \in SessionType
  BY DEF AccessTypeOK
<1> QED BY <1>1 DEF Revoked, Revoke, SessionType

LEMMA OpenedRows ==
    ASSUME AccessTypeOK, NEW S \in SUBSET SessionIds, NEW t \in Staff, NEW v \in Nat,
           NEW code \in Nat, NEW temp \in BOOLEAN, NEW a \in Launches \cup {NoLaunch},
           NEW z \in Nat, Opens(t, S, v, code, temp, a, z)
    PROVE  /\ NextSession \in SessionIds
           /\ session' \in [SessionIds -> SessionType]
           /\ session'[NextSession] = [status |-> "live", of |-> t, ver |-> v, code |-> code,
                                       temp |-> temp, launch |-> a, created |-> z]
           /\ \A s \in SessionIds : s # NextSession => session'[s] = Revoked(S)[s]
<1> DEFINE r == [status |-> "live", of |-> t, ver |-> v, code |-> code, temp |-> temp,
                 launch |-> a, created |-> z]
<1>1. NextSession \in SessionIds
  BY NextSessionIsNew, AccessBounds DEF Opens, SessionIds
<1>2. Revoked(S) \in [SessionIds -> SessionType]
  BY RevokedRows DEF Revoked
<1>3. r \in SessionType
  BY DEF SessionType
<1>4. session' = [Revoked(S) EXCEPT ![NextSession] = r]
  BY DEF Opens
<1> HIDE DEF r
<1>5. session'[NextSession] = r /\ session' \in [SessionIds -> SessionType]
      /\ \A s \in SessionIds : s # NextSession => session'[s] = Revoked(S)[s]
  BY <1>1, <1>2, <1>3, <1>4
<1> QED BY <1>1, <1>5 DEF r

(* What becomes of the rows a batch does not write anew: S are revoked, and *)
(* whose access changes has all of theirs revoked.                         *)
KeptRow(s, S) ==
    /\ session'[s].of = session[s].of /\ session'[s].ver = session[s].ver
    /\ session'[s].code = session[s].code /\ session'[s].temp = session[s].temp
    /\ session'[s].launch = session[s].launch /\ session'[s].created = session[s].created
    /\ session[s].status # "none" => session'[s].status # "none"
    /\ session'[s].status = "live" => session[s].status = "live" /\ s \notin S
SameAccess(t) ==
    /\ onStaff'[t] = onStaff[t] /\ cred'[t].status = cred[t].status
    /\ cred'[t].ver = cred[t].ver /\ cred'[t].code = cred[t].code
CredsOnward == \A t \in Staff : CredOnward(cred[t], cred'[t])
Spared(S) == \A t \in Staff : Live(t) \subseteq S \/ SameAccess(t)

LEMMA OldRows ==
    ASSUME AccessInv, NEW S \in SUBSET SessionIds, NEW K \in SUBSET SessionIds,
           \A s \in K : KeptRow(s, S), CredsOnward, Spared(S), used \subseteq used',
           cred' \in [Staff -> CredType]
    PROVE  /\ \A s \in K, t \in Staff : session'[s].status = "live" /\ session'[s].of = t =>
                 /\ Usable(t)' /\ s \in Live(t) \ S
                 /\ session'[s].ver = cred'[t].ver /\ session'[s].code = cred'[t].code
           /\ \A s \in K : session'[s].temp => TempSession(s)'
           /\ \A s \in K : session'[s].launch # NoLaunch => session'[s].launch \in used'
<1>1. ASSUME NEW s \in K, NEW t \in Staff, session'[s].status = "live", session'[s].of = t
      PROVE  /\ Usable(t)' /\ s \in Live(t) \ S
             /\ session'[s].ver = cred'[t].ver /\ session'[s].code = cred'[t].code
  <2>1. s \in Live(t) /\ s \notin S
    BY <1>1 DEF KeptRow, Live
  <2>2. SameAccess(t)
    BY <2>1 DEF Spared
  <2>3. Usable(t) /\ session[s].ver = cred[t].ver /\ session[s].code = cred[t].code
    BY <2>1 DEF AccessInv, SessionsFine, LiveIsValid
  <2> QED BY <1>1, <2>1, <2>2, <2>3 DEF KeptRow, SameAccess, Usable
<1>2. ASSUME NEW s \in K, session'[s].temp PROVE TempSession(s)'
  <2> DEFINE t == session[s].of
  <2>1. session'[s].temp = session[s].temp /\ session'[s].of = t
        /\ session'[s].code = session[s].code /\ session'[s].created = session[s].created
        /\ (session[s].status # "none" => session'[s].status # "none")
    BY DEF KeptRow
  <2>2. TempSession(s)
    BY <1>2, <2>1 DEF AccessInv, SessionsFine, TempFine
  <2>3. t \in Staff /\ session[s].code > 0 /\ session[s].code <= cred[t].code
        /\ session[s].status # "none"
        /\ (session[s].code = cred[t].code /\ cred[t].temp => cred[t].until <= session[s].created)
    BY <2>2 DEF TempSession
  <2>4. CredOnward(cred[t], cred'[t])
    BY <2>3 DEF CredsOnward
  <2>5. session[s].code \in Nat /\ cred[t].code \in Nat /\ cred'[t].code \in Nat
        /\ session[s].created \in Nat /\ cred[t].until \in Nat /\ cred'[t].until \in Nat
    BY <2>3 DEF AccessInv, AccessTypeOK, SessionType, CredType
  <2>6. session[s].code <= cred'[t].code
    BY <2>3, <2>4, <2>5 DEF CredOnward
  <2>7. session[s].code = cred'[t].code /\ cred'[t].temp => cred'[t].until <= session[s].created
    <3> SUFFICES ASSUME session[s].code = cred'[t].code, cred'[t].temp
                 PROVE  cred'[t].until <= session[s].created
      OBVIOUS
    <3>1. cred'[t].code = cred[t].code /\ cred'[t].code > 0
      BY <2>3, <2>4, <2>5 DEF CredOnward
    <3>2. cred[t].temp /\ cred'[t].until <= cred[t].until
      BY <2>4, <3>1 DEF CredOnward
    <3> QED BY <2>3, <2>5, <3>1, <3>2
  <2> HIDE DEF t
  <2> QED BY <2>1, <2>3, <2>6, <2>7 DEF TempSession
<1>3. ASSUME NEW s \in K, session'[s].launch # NoLaunch PROVE session'[s].launch \in used'
  BY <1>3 DEF KeptRow, AccessInv, SessionsFine, LaunchesUsed
<1> QED BY <1>1, <1>2, <1>3

(* A batch that only revokes *)
LEMMA RowsKept ==
    ASSUME AccessInv, NEW S \in SUBSET SessionIds, session' = Revoked(S), CredsOnward,
           Spared(S), used \subseteq used', cred' \in [Staff -> CredType]
    PROVE  SessionsFine' /\ session' \in [SessionIds -> SessionType]
<1>1. \A s \in SessionIds : KeptRow(s, S)
  BY RevokedRows DEF KeptRow, AccessInv
<1>2. session' \in [SessionIds -> SessionType]
  BY RevokedRows DEF Revoked, AccessInv
<1>3. /\ \A s \in SessionIds, t \in Staff : session'[s].status = "live" /\ session'[s].of = t =>
            /\ Usable(t)' /\ s \in Live(t) \ S
            /\ session'[s].ver = cred'[t].ver /\ session'[s].code = cred'[t].code
      /\ \A s \in SessionIds : session'[s].temp => TempSession(s)'
      /\ \A s \in SessionIds : session'[s].launch # NoLaunch => session'[s].launch \in used'
  BY <1>1, OldRows
<1>4. LiveIsValid' /\ TempFine' /\ LaunchesUsed'
  BY <1>3 DEF LiveIsValid, Live, TempFine, LaunchesUsed
<1>5. OneByCode' /\ OneByLaunch' /\ LiveOwned'
  BY <1>1 DEF LiveOwned, KeptRow, AccessInv, SessionsFine, OneByCode, OneByLaunch
<1>6. WithinSessions'
  <2> SUFFICES ASSUME NEW t \in Staff PROVE (Cardinality(Live(t)) <= SessionLimit)'
    BY DEF WithinSessions
  <2> DEFINE T == Live(t)'
  <2>1. T \subseteq Live(t)
    BY <1>3 DEF Live
  <2>2. Cardinality(T) \in Nat /\ Cardinality(T) <= Cardinality(Live(t))
        /\ Cardinality(Live(t)) \in Nat
    <3> HIDE DEF T
    <3> QED BY <2>1, LiveFinite
  <2>3. Cardinality(Live(t)) <= SessionLimit
    BY DEF AccessInv, SessionsFine, WithinSessions
  <2>4. Cardinality(T) <= SessionLimit
    <3> HIDE DEF T
    <3> QED BY <2>2, <2>3, AccessBounds
  <2> QED BY <2>4 DEF T
<1> QED BY <1>2, <1>4, <1>5, <1>6 DEF SessionsFine

(* A batch that opens a session *)
LEMMA RowOpened ==
    ASSUME AccessInv, NEW S \in SUBSET SessionIds, NEW t \in Staff, NEW v \in Nat,
           NEW code \in Nat, NEW temp \in BOOLEAN, NEW a \in Launches \cup {NoLaunch},
           NEW z \in Nat, Opens(t, S, v, code, temp, a, z),
           S = Live(t) \/ S \in Evictions(t),
           CredsOnward, Spared(S), used \subseteq used', cred' \in [Staff -> CredType],
           Usable(t)', v = cred'[t].ver, code = cred'[t].code,
           temp => code > 0 /\ cred[t].code = code /\ cred[t].temp /\ z < cred[t].until
                   /\ cred'[t].until <= z,
           a # NoLaunch => a \notin used /\ a \in used'
    PROVE  SessionsFine' /\ session' \in [SessionIds -> SessionType]
<1> DEFINE n == NextSession
           K == SessionIds \ {n}
<1>t. AccessTypeOK
  BY DEF AccessInv
<1>0. /\ n \in SessionIds /\ session' \in [SessionIds -> SessionType]
      /\ session'[n] = [status |-> "live", of |-> t, ver |-> v, code |-> code,
                        temp |-> temp, launch |-> a, created |-> z]
      /\ \A s \in SessionIds : s # n => session'[s] = Revoked(S)[s]
  BY <1>t, OpenedRows
<1>n. PICK m \in SessionIds : m = n
  BY <1>0
<1>m. \A s \in SessionIds : session[s].status # "none" => s < m
  BY <1>n, NextSessionIsNew
<1>1. K \in SUBSET SessionIds /\ \A s \in K : KeptRow(s, S)
  BY <1>t, <1>0, RevokedRows DEF KeptRow
<1>2. /\ \A s \in K, u \in Staff : session'[s].status = "live" /\ session'[s].of = u =>
            /\ Usable(u)' /\ s \in Live(u) \ S
            /\ session'[s].ver = cred'[u].ver /\ session'[s].code = cred'[u].code
      /\ \A s \in K : session'[s].temp => TempSession(s)'
      /\ \A s \in K : session'[s].launch # NoLaunch => session'[s].launch \in used'
  <2> HIDE DEF K
  <2> QED BY <1>1, OldRows
<1>3. /\ session'[m].status = "live" /\ session'[m].of = t /\ session'[m].ver = v
      /\ session'[m].code = code /\ session'[m].temp = temp /\ session'[m].launch = a
      /\ session'[m].created = z /\ K = SessionIds \ {m}
  BY <1>0, <1>n
<1> HIDE DEF n, K
<1>4. LiveIsValid'
  BY <1>2, <1>3 DEF LiveIsValid, Live
<1>5. TempFine'
  <2>1. temp => TempSession(m)'
    BY <1>3 DEF TempSession
  <2> QED BY <1>2, <1>3, <2>1 DEF TempFine
<1>6. LaunchesUsed'
  BY <1>2, <1>3 DEF LaunchesUsed
<1>7. \A s \in K : session'[s].temp = session[s].temp /\ session'[s].of = session[s].of
                   /\ session'[s].code = session[s].code /\ session'[s].launch = session[s].launch
                   /\ session'[s].created = session[s].created
  BY <1>1 DEF KeptRow
<1>8. OneByCode'
  <2>1. ASSUME NEW s \in K, session'[s].temp PROVE s < m /\ TempSession(s)
    <3>1. s \in SessionIds /\ session[s].temp
      BY <1>1, <1>7, <2>1
    <3>2. TempSession(s)
      BY <3>1 DEF AccessInv, SessionsFine, TempFine
    <3> QED BY <1>m, <3>1, <3>2 DEF TempSession
  <2>2. ASSUME NEW s \in K, session'[s].of = t, temp, session'[s].temp, session'[s].code = code
        PROVE  z < session'[s].created
    <3>1. TempSession(s)
      BY <2>1, <2>2
    <3>2. s \in SessionIds /\ session[s] \in SessionType /\ cred[t] \in CredType
      BY <1>1, <1>t DEF AccessTypeOK
    <3>3. session[s].created \in Nat /\ cred[t].until \in Nat
      BY <3>2 DEF SessionType, CredType
    <3>4. session[s].of = t /\ session[s].code = code /\ session'[s].created = session[s].created
      BY <1>7, <2>2
    <3>5. cred[t].until <= session[s].created
      BY <2>2, <3>1, <3>4 DEF TempSession
    <3> QED BY <2>2, <3>3, <3>4, <3>5
  <2>3. \A s, r \in K :
            /\ s < r /\ session'[s].of = session'[r].of /\ session'[s].code = session'[r].code
            /\ session'[s].temp /\ session'[r].temp
            => session'[r].created < session'[s].created
    BY <1>1, <1>7 DEF AccessInv, SessionsFine, OneByCode
  <2>4. ASSUME NEW s \in SessionIds, NEW r \in SessionIds, s < r,
               session'[s].of = session'[r].of, session'[s].code = session'[r].code,
               session'[s].temp, session'[r].temp
        PROVE  session'[r].created < session'[s].created
    <3>1. CASE s \in K /\ r \in K
      BY <2>3, <2>4, <3>1
    <3>2. CASE r = m
      <4>1. s \in K /\ s # m
        BY <1>3, <2>4, <3>2, AccessBounds DEF SessionIds
      <4> QED BY <1>3, <2>2, <2>4, <3>2, <4>1
    <3>3. CASE s = m /\ r \in K
      <4>1. r < m
        BY <2>1, <2>4, <3>3
      <4>2. m \in Nat /\ r \in Nat
        BY AccessBounds DEF SessionIds
      <4> QED BY <2>4, <3>3, <4>1, <4>2
    <3> QED BY <1>3, <3>1, <3>2, <3>3
  <2> QED BY <2>4 DEF OneByCode
<1>9. OneByLaunch'
  <2>1. ASSUME NEW s \in K, a # NoLaunch PROVE session'[s].launch # a
    BY <1>1, <1>7, <2>1 DEF AccessInv, SessionsFine, LaunchesUsed
  <2>2. \A s, r \in K : s # r => session'[s].launch # session'[r].launch
                                 \/ session'[s].launch = NoLaunch
    BY <1>1, <1>7 DEF AccessInv, SessionsFine, OneByLaunch
  <2> QED BY <1>3, <2>1, <2>2 DEF OneByLaunch
<1>10. WithinSessions'
  <2> SUFFICES ASSUME NEW u \in Staff PROVE (Cardinality(Live(u)) <= SessionLimit)'
    BY DEF WithinSessions
  <2> DEFINE T == Live(u)'
  <2>0. Cardinality(Live(u)) <= SessionLimit /\ SessionLimit \in Nat /\ SessionLimit >= 1
    BY AccessBounds DEF AccessInv, SessionsFine, WithinSessions
  <2>1. CASE u # t
    <3>1. T \subseteq Live(u)
      BY <1>2, <1>3, <2>1 DEF Live
    <3>2. Cardinality(T) \in Nat /\ Cardinality(T) <= Cardinality(Live(u))
          /\ Cardinality(Live(u)) \in Nat
      <4> HIDE DEF T
      <4> QED BY <3>1, LiveFinite
    <3>3. Cardinality(T) <= SessionLimit
      <4> HIDE DEF T
      <4> QED BY <2>0, <3>2
    <3> QED BY <3>3 DEF T
  <2>2. CASE u = t
    <3> DEFINE R == Live(t) \ S
    <3>1. T \subseteq R \cup {m} /\ R \subseteq Live(t)
      BY <1>2, <1>3, <2>2 DEF Live
    <3>2. IsFiniteSet(R) /\ Cardinality(R) \in Nat /\ Cardinality(R) <= Cardinality(Live(t))
          /\ Cardinality(Live(t)) \in Nat /\ IsFiniteSet(Live(t))
      <4> HIDE DEF R
      <4> QED BY <3>1, LiveFinite
    <3>3. Cardinality(R) <= SessionLimit - 1
      <4>1. CASE S = Live(t)
        <5>1. R = {}
          BY <4>1
        <5>2. Cardinality(R) = 0
          BY <5>1, FS_EmptySet
        <5> QED BY <2>0, <5>2
      <4>2. CASE S \in Evictions(t) /\ Cardinality(Live(t)) >= SessionLimit
        <5>1. PICK x \in Live(t) : S = {x}
          BY <4>2, EvictedLive
        <5>2. Cardinality(R) = Cardinality(Live(t)) - 1
          <6> DEFINE L == Live(t)
          <6>1. x \in L /\ IsFiniteSet(L) /\ R = L \ {x}
            BY <3>2, <5>1
          <6> HIDE DEF L, R
          <6>2. Cardinality(L \ {x}) = Cardinality(L) - 1
            BY <6>1, FS_RemoveElement
          <6> QED BY <6>1, <6>2 DEF L
        <5> QED BY <2>0, <2>2, <3>2, <5>2
      <4>3. CASE S \in Evictions(t) /\ ~(Cardinality(Live(t)) >= SessionLimit)
        BY <2>0, <3>2, <4>3
      <4> QED BY <4>1, <4>2, <4>3
    <3>4. IsFiniteSet(R \cup {m}) /\ Cardinality(R \cup {m}) <= SessionLimit
          /\ Cardinality(R \cup {m}) \in Nat
      <4> HIDE DEF R
      <4>1. /\ IsFiniteSet(R \cup {m})
            /\ Cardinality(R \cup {m}) = IF m \in R THEN Cardinality(R) ELSE Cardinality(R) + 1
        BY <3>2, FS_AddElement
      <4> QED BY <2>0, <3>2, <3>3, <4>1
    <3>5. Cardinality(T) \in Nat /\ Cardinality(T) <= Cardinality(R \cup {m})
      <4> HIDE DEF R, T
      <4>1. T \in SUBSET (R \cup {m})
        BY <3>1
      <4>2. IsFiniteSet(T) /\ Cardinality(T) <= Cardinality(R \cup {m})
        BY <3>4, <4>1, FS_Subset
      <4> QED BY <4>2, FS_CardinalityType
    <3>6. Cardinality(T) <= SessionLimit
      <4> HIDE DEF R, T
      <4> QED BY <2>0, <3>4, <3>5
    <3> QED BY <2>2, <3>6 DEF T
  <2> QED BY <2>1, <2>2
<1>11. LiveOwned'
  BY <1>1, <1>3 DEF KeptRow, AccessInv, SessionsFine, LiveOwned
<1> QED BY <1>0, <1>4, <1>5, <1>6, <1>8, <1>9, <1>10, <1>11 DEF SessionsFine

-----------------------------------------------------------------------------
(* Credentials only go onward *)

LEMMA CredForms ==
    ASSUME NEW b \in CredType, b.code <= b.ver, b.status = "none" => b.ver = 0
    PROVE  /\ CredOnward(b, b)
           /\ \A n \in Nat : n <= b.until =>
                 [b EXCEPT !.until = n] \in CredType /\ CredOnward(b, [b EXCEPT !.until = n])
           /\ \A n \in Nat :
                 Temporary(b.ver + 1, n) \in CredType /\ CredOnward(b, Temporary(b.ver + 1, n))
           /\ \A x \in BOOLEAN :
                 OwnPin(b.ver + 1, x) \in CredType /\ CredOnward(b, OwnPin(b.ver + 1, x))
           /\ \A s \in {"active", "disabled"} :
                 Status(b, s) \in CredType /\ CredOnward(b, Status(b, s))
           /\ b.status = "none" =>
                 /\ Credential("active", TRUE, 0, 0, 1, FALSE) \in CredType
                 /\ CredOnward(b, Credential("active", TRUE, 0, 0, 1, FALSE))
<1>0. b.code \in Nat /\ b.ver \in Nat /\ b.temp \in BOOLEAN /\ b.until \in Nat
      /\ b.status \in {"none", "active", "disabled"}
  BY DEF CredType
<1>1. CredOnward(b, b)
  BY <1>0 DEF CredOnward
<1>2. ASSUME NEW n \in Nat, n <= b.until
      PROVE  [b EXCEPT !.until = n] \in CredType /\ CredOnward(b, [b EXCEPT !.until = n])
  BY <1>0, <1>2 DEF CredOnward, CredType
<1>3. ASSUME NEW n \in Nat
      PROVE  Temporary(b.ver + 1, n) \in CredType /\ CredOnward(b, Temporary(b.ver + 1, n))
  BY <1>0 DEF Temporary, Credential, CredType, CredOnward
<1>4. ASSUME NEW x \in BOOLEAN
      PROVE  OwnPin(b.ver + 1, x) \in CredType /\ CredOnward(b, OwnPin(b.ver + 1, x))
  BY <1>0 DEF OwnPin, Credential, CredType, CredOnward
<1>5. ASSUME NEW s \in {"active", "disabled"}
      PROVE  Status(b, s) \in CredType /\ CredOnward(b, Status(b, s))
  BY <1>0 DEF Status, Credential, CredType, CredOnward
<1>6. ASSUME b.status = "none"
      PROVE  /\ Credential("active", TRUE, 0, 0, 1, FALSE) \in CredType
             /\ CredOnward(b, Credential("active", TRUE, 0, 0, 1, FALSE))
  BY <1>0, <1>6 DEF Credential, CredType, CredOnward
<1> QED BY <1>1, <1>2, <1>3, <1>4, <1>5, <1>6

LEMMA CredAt ==
    ASSUME AccessInv, NEW t \in Staff
    PROVE  cred[t] \in CredType /\ cred[t].code <= cred[t].ver
           /\ (cred[t].status = "none" => cred[t].ver = 0) /\ cred[t].ver \in Nat
           /\ cred[t].code \in Nat /\ cred[t].temp \in BOOLEAN
           /\ cred[t].until \in Nat
BY DEF AccessInv, AccessTypeOK, CredFine, CredType

LEMMA OneCred ==
    ASSUME AccessInv, NEW t \in Staff, NEW x \in CredType, CredOnward(cred[t], x),
           cred' = [cred EXCEPT ![t] = x]
    PROVE  CredsOnward /\ cred' \in [Staff -> CredType] /\ cred'[t] = x
           /\ \A u \in Staff : u # t => cred'[u] = cred[u]
<1>1. cred \in [Staff -> CredType]
  BY DEF AccessInv, AccessTypeOK
<1>2. cred' \in [Staff -> CredType] /\ cred'[t] = x /\ \A u \in Staff : u # t => cred'[u] = cred[u]
  BY <1>1
<1>3. \A u \in Staff : CredOnward(cred[u], cred[u])
  BY CredAt, CredForms
<1> QED BY <1>2, <1>3 DEF CredsOnward

LEMMA NoCred ==
    ASSUME AccessInv, cred' = cred
    PROVE  CredsOnward /\ cred' \in [Staff -> CredType]
<1>1. \A u \in Staff : CredOnward(cred[u], cred[u])
  BY CredAt, CredForms
<1> QED BY <1>1 DEF CredsOnward, AccessInv, AccessTypeOK

(* What a handler carries *)
LEMMA DoorFields ==
    ASSUME NEW p \in DoorPlan
    PROVE  /\ p.of \in Staff /\ p.ver \in Nat /\ p.since \in Nat
           /\ p.op \in {"signin", "activate"} => p.code \in Nat
           /\ p.op \in {"open", "activate"} => p.phone \in Phones /\ p.launch \in Launches
           /\ p.op = "rotate" => p.session \in SessionIds
           /\ p.op = "activate" => p.temp \in BOOLEAN
BY DEF DoorPlan

DoorsKept == door' = door \/ \E d \in Doors : door' = [door EXCEPT ![d] = Quiet]
LEMMA DoorsStay ==
    ASSUME AccessInv, CredsOnward, DoorsKept, cred' \in [Staff -> CredType]
    PROVE  DoorsFine' /\ door' \in [Doors -> DoorPlan \cup {Quiet}] /\ CredFine'
<1>1. door \in [Doors -> DoorPlan \cup {Quiet}]
  BY DEF AccessInv, AccessTypeOK
<1>2. door' \in [Doors -> DoorPlan \cup {Quiet}]
      /\ \A d \in Doors : door'[d] = door[d] \/ door'[d] = Quiet
  BY <1>1 DEF DoorsKept
<1>3. ASSUME NEW d \in Doors, Coded(d)' PROVE CodeAsRead(door[d])'
  <2>1. door'[d] = door[d] /\ Coded(d)
    BY <1>2, <1>3 DEF Coded
  <2> DEFINE p == door[d]
  <2>2. p \in DoorPlan /\ p.op \in {"signin", "activate"}
    BY <1>1, <2>1 DEF Coded
  <2>3. p.of \in Staff /\ p.ver \in Nat /\ p.code \in Nat
    BY <2>2, DoorFields
  <2>4. CodeAsRead(p)
    BY <2>1 DEF AccessInv, DoorsFine
  <2>5. CredOnward(cred[p.of], cred'[p.of]) /\ cred[p.of] \in CredType /\ cred'[p.of] \in CredType
    BY <2>3, CredAt DEF CredsOnward
  <2>6. p.ver <= cred'[p.of].ver /\ (p.ver = cred'[p.of].ver => p.code = cred'[p.of].code)
        /\ (p.op = "signin" => p.code > 0)
    <3>1. cred[p.of].ver \in Nat /\ cred'[p.of].ver \in Nat
      BY <2>5 DEF CredType
    <3>2. cred'[p.of].ver >= cred[p.of].ver
          /\ (cred'[p.of].ver = cred[p.of].ver => cred'[p.of].code = cred[p.of].code)
      BY <2>5 DEF CredOnward
    <3>3. p.ver <= cred[p.of].ver /\ (p.ver = cred[p.of].ver => p.code = cred[p.of].code)
          /\ (p.op = "signin" => p.code > 0)
      BY <2>4 DEF CodeAsRead
    <3> HIDE DEF p
    <3> QED BY <2>3, <3>1, <3>2, <3>3
  <2> HIDE DEF p
  <2>7. door'[d] = p
    BY <2>1 DEF p
  <2> QED BY <2>6, <2>7 DEF CodeAsRead
<1>4. CredFine'
  BY DEF CredsOnward, CredOnward, CredFine
<1> QED BY <1>2, <1>3, <1>4 DEF DoorsFine

(* The parts of a step *)
LEMMA AccessParts ==
    ASSUME AccessInv, CredsOnward, DoorsKept, cred' \in [Staff -> CredType], SessionsFine',
           session' \in [SessionIds -> SessionType], OneByPhone',
           onStaff' \in [Staff -> BOOLEAN], link' \in [Staff -> LinkType],
           invite' \in [Invites -> InviteType], used' \in SUBSET Launches,
           moment' \in 0..LastMoment
    PROVE  AccessInv'
BY DoorsStay DEF AccessInv, AccessTypeOK

LEMMA RowsSame ==
    ASSUME AccessInv, session' = session, CredsOnward, cred' \in [Staff -> CredType],
           used \subseteq used', \A t \in Staff : Live(t) = {} \/ SameAccess(t)
    PROVE  SessionsFine' /\ session' \in [SessionIds -> SessionType]
<1>1. session' = Revoked({})
  BY DEF AccessInv, AccessTypeOK, Revoked
<1>2. Spared({})
  BY DEF Spared
<1> QED BY <1>1, <1>2, RowsKept

LEMMA Knocking ==
    ASSUME AccessInv, NEW d \in Doors, NEW p \in DoorPlan, Knocks(d, p),
           p.op \in {"signin", "activate"} => CodeAsRead(p)
    PROVE  AccessInv'
<1>1. /\ door \in [Doors -> DoorPlan \cup {Quiet}] /\ door' = [door EXCEPT ![d] = p]
      /\ UNCHANGED <<onStaff, cred, link, invite, session, used, moment>>
  BY DEF AccessInv, AccessTypeOK, Knocks
<1>2. CredsOnward /\ cred' \in [Staff -> CredType]
  BY <1>1, NoCred
<1>3. SessionsFine'
  BY <1>1, <1>2, RowsSame DEF SameAccess
<1>4. DoorsFine'
  <2> SUFFICES ASSUME NEW e \in Doors, Coded(e)' PROVE CodeAsRead(door[e])'
    BY DEF DoorsFine
  <2>1. CASE e = d
    BY <1>1, <2>1 DEF Coded, CodeAsRead
  <2>2. CASE e # d
    BY <1>1, <2>2 DEF Coded, CodeAsRead, AccessInv, DoorsFine
  <2> QED BY <2>1, <2>2
<1>5. AccessTypeOK'
  <2>1. door' \in [Doors -> DoorPlan \cup {Quiet}]
    BY <1>1
  <2> QED BY <1>1, <2>1 DEF AccessInv, AccessTypeOK
<1>6. CredFine' /\ OneByPhone'
  BY <1>1 DEF AccessInv, CredFine, OneByPhone
<1> QED BY <1>3, <1>4, <1>5, <1>6 DEF AccessInv

LEMMA SignInKeeps ==
    ASSUME AccessInv, NEW d \in Doors, CommitSignIn(d)
    PROVE  AccessInv'
<1> DEFINE p == door[d]
<1>1. /\ p \in DoorPlan /\ p.op = "signin" /\ DoorsKept /\ Coded(d)
      /\ UNCHANGED <<onStaff, link, invite, used, moment>>
  BY DEF AccessInv, AccessTypeOK, CommitSignIn, Enters, DoorsKept, Coded
<1>2. PICK t \in Staff : t = p.of
  BY <1>1, DoorFields
<1>z. PICK z \in Nat : z = p.since
  BY <1>1, DoorFields
<1>c. cred[t] \in CredType /\ cred[t].until \in Nat /\ cred[t].temp \in BOOLEAN
  BY CredAt
<1>w. PICK w \in Nat : w = IF cred[t].temp THEN z ELSE cred[t].until
  BY <1>c
<1>3. /\ Usable(t) /\ cred[t].ver = p.ver /\ CodeOpen(t, z)
      /\ Evicts(t, p.ver, p.code, cred[t].temp, NoLaunch, z)
      /\ cred' = [cred EXCEPT ![t] = [@ EXCEPT !.until = w]]
  BY <1>2, <1>z, <1>w DEF CommitSignIn, SameCredential, CodeStillOpen
<1>e. PICK S \in Evictions(t) : Opens(t, S, p.ver, p.code, cred[t].temp, NoLaunch, z)
  BY <1>3 DEF Evicts
<1>4. CodeAsRead(p)
  BY <1>1 DEF AccessInv, DoorsFine
<1>5. p.ver \in Nat /\ p.code \in Nat /\ p.code = cred[t].code /\ p.code > 0
  BY <1>1, <1>2, <1>3, <1>4, DoorFields DEF CodeAsRead
<1>u. w <= cred[t].until /\ (cred[t].temp => z < cred[t].until /\ w <= z)
  BY <1>c, <1>w, <1>3 DEF CodeOpen
<1> DEFINE x == [cred[t] EXCEPT !.until = w]
<1>6. x \in CredType /\ CredOnward(cred[t], x)
  BY <1>u, CredAt, CredForms
<1>7. /\ x.until = w /\ x.code = cred[t].code /\ x.ver = cred[t].ver
      /\ x.status = cred[t].status
  BY <1>c DEF CredType
<1>8. CredsOnward /\ cred' \in [Staff -> CredType] /\ cred'[t] = x
      /\ \A u \in Staff : u # t => cred'[u] = cred[u]
  <2> HIDE DEF x
  <2>1. cred' = [cred EXCEPT ![t] = x]
    BY <1>3 DEF x
  <2> QED BY <1>6, <2>1, OneCred
<1>9. \A u \in Staff : SameAccess(u)
  BY <1>1, <1>7, <1>8 DEF SameAccess
<1>10. Usable(t)' /\ p.ver = cred'[t].ver /\ p.code = cred'[t].code
  BY <1>1, <1>3, <1>5, <1>7, <1>8 DEF Usable
<1>11. cred[t].temp => z < cred[t].until /\ cred'[t].until <= z
  BY <1>u, <1>7, <1>8
<1>12. Spared(S) /\ S \in SUBSET SessionIds
  BY <1>9, EvictedLive DEF Spared
<1> HIDE DEF x, p
<1>13. SessionsFine' /\ session' \in [SessionIds -> SessionType]
  BY <1>1, <1>c, <1>e, <1>5, <1>8, <1>10, <1>11, <1>12, RowOpened
<1>14. OneByPhone'
  BY <1>1 DEF AccessInv, OneByPhone
<1> QED BY <1>1, <1>8, <1>13, <1>14, AccessParts DEF AccessInv, AccessTypeOK

LEMMA OpenKeeps ==
    ASSUME AccessInv, NEW d \in Doors, CommitOpen(d)
    PROVE  AccessInv'
<1> DEFINE p == door[d]
<1>1. /\ p \in DoorPlan /\ p.op = "open" /\ DoorsKept
      /\ UNCHANGED <<onStaff, cred, link, invite, moment>>
  BY DEF AccessInv, AccessTypeOK, CommitOpen, Enters, DoorsKept
<1>2. PICK t \in Staff : t = p.of
  BY <1>1, DoorFields
<1>3. PICK a \in Launches : a = p.launch
  BY <1>1, DoorFields
<1>z. PICK z \in Nat : z = p.since
  BY <1>1, DoorFields
<1>4. /\ Usable(t) /\ cred[t].ver = p.ver /\ a \notin used /\ used' = used \cup {a}
      /\ Evicts(t, p.ver, cred[t].code, FALSE, a, z)
  BY <1>2, <1>3, <1>z DEF CommitOpen, SameCredential, FreshLaunch
<1>e. PICK S \in Evictions(t) : Opens(t, S, p.ver, cred[t].code, FALSE, a, z)
  BY <1>4 DEF Evicts
<1>5. p.ver \in Nat /\ cred[t].code \in Nat
  BY <1>1, DoorFields, CredAt
<1>6. CredsOnward /\ cred' \in [Staff -> CredType]
  BY <1>1, NoCred
<1>7. Spared(S) /\ S \in SUBSET SessionIds
  BY <1>1, EvictedLive DEF Spared, SameAccess
<1>8. Usable(t)' /\ p.ver = cred'[t].ver /\ cred[t].code = cred'[t].code
  BY <1>1, <1>4 DEF Usable
<1> HIDE DEF p
<1>9. SessionsFine' /\ session' \in [SessionIds -> SessionType]
  BY <1>4, <1>e, <1>5, <1>6, <1>7, <1>8, RowOpened
<1>10. OneByPhone' /\ used' \in SUBSET Launches
  BY <1>1, <1>4 DEF AccessInv, AccessTypeOK, OneByPhone
<1> QED BY <1>1, <1>6, <1>9, <1>10, AccessParts DEF AccessInv, AccessTypeOK

(* A phone that is bound leaves whoever had it. *)
LEMMA BoundPhone ==
    ASSUME AccessInv, NEW t \in Staff, NEW q \in Phones,
           link' = [u \in Staff |->
               IF u = t THEN [phone |-> q, on |-> TRUE]
               ELSE IF link[u].phone = q THEN [phone |-> NoPhone, on |-> FALSE]
               ELSE link[u]]
    PROVE  OneByPhone' /\ link' \in [Staff -> LinkType]
<1>1. link' \in [Staff -> LinkType]
  BY DEF AccessInv, AccessTypeOK, LinkType
<1>2. link'[t].phone = q
  OBVIOUS
<1>3. ASSUME NEW u \in Staff, u # t, link'[u].on
      PROVE  link'[u].phone # q /\ link'[u] = link[u]
  BY <1>3
<1>4. \A u, w \in Staff : u # w /\ link[u].on => link[u].phone # link[w].phone \/ ~link[w].on
  BY DEF AccessInv, OneByPhone
<1>5. \A u, w \in Staff : u # w /\ link'[u].on => link'[u].phone # link'[w].phone \/ ~link'[w].on
  BY <1>2, <1>3, <1>4
<1> QED BY <1>1, <1>5 DEF OneByPhone

LEMMA ActivateKeeps ==
    ASSUME AccessInv, NEW d \in Doors, CommitActivate(d)
    PROVE  AccessInv'
<1> DEFINE p == door[d]
<1>1. /\ p \in DoorPlan /\ p.op = "activate" /\ DoorsKept /\ Coded(d) /\ onStaff' = onStaff
      /\ moment' = moment
  BY DEF AccessInv, AccessTypeOK, CommitActivate, Enters, DoorsKept, Coded
<1>2. PICK t \in Staff : t = p.of
  BY <1>1, DoorFields
<1>3. PICK a \in Launches : a = p.launch
  BY <1>1, DoorFields
<1>4. PICK q \in Phones : q = p.phone
  BY <1>1, DoorFields
<1>z. PICK z \in Nat : z = p.since
  BY <1>1, DoorFields
<1> DEFINE newPin == p.kind = "personal" \/ p.temp
           v == IF newPin THEN p.ver + 1 ELSE p.ver
           code == IF newPin THEN v ELSE p.code
           outs == IF newPin \/ (link[t].on /\ link[t].phone # p.phone) THEN {Live(t)}
                   ELSE Evictions(t)
<1>5. /\ Usable(t) /\ cred[t].ver = p.ver /\ a \notin used /\ used' = used \cup {a}
      /\ cred' = [cred EXCEPT ![t] = IF newPin THEN OwnPin(v, FALSE) ELSE @]
      /\ \E S \in outs : Opens(t, S, v, code, FALSE, a, z)
      /\ link' = [u \in Staff |->
             IF u = t THEN [phone |-> q, on |-> TRUE]
             ELSE IF link[u].phone = q THEN [phone |-> NoPhone, on |-> FALSE]
             ELSE link[u]]
  BY <1>2, <1>3, <1>4, <1>z DEF CommitActivate, SameCredential, FreshLaunch
<1>e. PICK S \in outs : Opens(t, S, v, code, FALSE, a, z)
  BY <1>5
<1>6. CodeAsRead(p)
  BY <1>1 DEF AccessInv, DoorsFine
<1>7. p.ver \in Nat /\ p.code \in Nat /\ p.code = cred[t].code
  BY <1>1, <1>2, <1>5, <1>6, DoorFields DEF CodeAsRead
<1>8. invite' \in [Invites -> InviteType]
  <2>1. ASSUME NEW i \in Invites, NEW s \in {"consumed", "revoked"}
        PROVE  [invite[i] EXCEPT !.status = s] \in InviteType
    BY DEF AccessInv, AccessTypeOK, InviteType
  <2>2. /\ invite' = [i \in Invites |->
               IF i = p.invite THEN [invite[i] EXCEPT !.status = "consumed"]
               ELSE IF i \in InvitesOf(p.of) \cup InvitesOn(p.phone)
               THEN [invite[i] EXCEPT !.status = "revoked"] ELSE invite[i]]
        /\ invite \in [Invites -> InviteType]
    BY DEF CommitActivate, AccessInv, AccessTypeOK
  <2> HIDE DEF p
  <2> QED BY <2>1, <2>2
<1>9. OneByPhone' /\ link' \in [Staff -> LinkType]
  BY <1>5, BoundPhone
<1> DEFINE x == IF newPin THEN OwnPin(v, FALSE) ELSE cred[t]
<1>10. x \in CredType /\ CredOnward(cred[t], x)
  BY <1>5, CredAt, CredForms
<1>11. x.ver = v /\ x.code = code /\ x.status = "active"
  <2>1. CASE newPin
    BY <2>1 DEF OwnPin, Credential
  <2>2. CASE ~newPin
    BY <1>5, <1>7, <2>2 DEF Usable
  <2> QED BY <2>1, <2>2
<1>12. CredsOnward /\ cred' \in [Staff -> CredType] /\ cred'[t] = x
       /\ \A u \in Staff : u # t => cred'[u] = cred[u]
  <2>1. cred' = [cred EXCEPT ![t] = x]
    BY <1>5
  <2> HIDE DEF x
  <2> QED BY <1>10, <2>1, OneCred
<1>13. Spared(S) /\ S \in SUBSET SessionIds /\ (S = Live(t) \/ S \in Evictions(t))
  <2>1. S = Live(t) \/ S \in Evictions(t)
    BY <1>e
  <2>2. S \in SUBSET SessionIds
    BY <2>1, EvictedLive DEF Live
  <2>3. \A u \in Staff : u # t => SameAccess(u)
    BY <1>1, <1>12 DEF SameAccess
  <2>4. CASE newPin
    <3>1. S = Live(t)
      BY <1>e, <2>4
    <3> QED BY <2>1, <2>2, <2>3, <3>1 DEF Spared
  <2>5. CASE ~newPin
    <3>1. cred'[t] = cred[t]
      BY <1>12, <2>5
    <3>2. SameAccess(t)
      BY <1>1, <3>1 DEF SameAccess
    <3> QED BY <2>1, <2>2, <2>3, <3>2 DEF Spared
  <2> HIDE DEF newPin
  <2> QED BY <2>4, <2>5
<1>14. v \in Nat /\ code \in Nat
  BY <1>7
<1>15. Usable(t)' /\ v = cred'[t].ver /\ code = cred'[t].code
  BY <1>1, <1>5, <1>11, <1>12 DEF Usable
<1>16. SessionsFine' /\ session' \in [SessionIds -> SessionType]
  <2>1. a \notin used /\ a \in used' /\ used \subseteq used'
    BY <1>5
  <2> HIDE DEF p, x, outs, code, v
  <2> QED BY <1>e, <1>12, <1>13, <1>14, <1>15, <2>1, RowOpened
<1>17. used' \in SUBSET Launches
  BY <1>5 DEF AccessInv, AccessTypeOK
<1> QED BY <1>1, <1>8, <1>9, <1>12, <1>16, <1>17, AccessParts DEF AccessInv, AccessTypeOK

LEMMA RotateKeeps ==
    ASSUME AccessInv, NEW d \in Doors, CommitRotate(d)
    PROVE  AccessInv'
<1> DEFINE p == door[d]
<1>1. /\ p \in DoorPlan /\ p.op = "rotate" /\ DoorsKept
      /\ UNCHANGED <<onStaff, link, invite, used, moment>>
  BY DEF AccessInv, AccessTypeOK, CommitRotate, Enters, DoorsKept
<1>2. PICK t \in Staff : t = p.of
  BY <1>1, DoorFields
<1>z. PICK z \in Nat : z = p.since
  BY <1>1, DoorFields
<1>3. /\ Usable(t) /\ cred[t].ver = p.ver
      /\ cred' = [cred EXCEPT ![t] = OwnPin(p.ver + 1, TRUE)]
      /\ Opens(t, Live(t), p.ver + 1, p.ver + 1, FALSE, NoLaunch, z)
  BY <1>2, <1>z DEF CommitRotate, SameCredential
<1> DEFINE x == OwnPin(p.ver + 1, TRUE)
<1>4. x \in CredType /\ CredOnward(cred[t], x) /\ p.ver + 1 \in Nat
  <2>1. x = OwnPin(cred[t].ver + 1, TRUE) /\ p.ver + 1 \in Nat
    BY <1>3, CredAt
  <2>2. OwnPin(cred[t].ver + 1, TRUE) \in CredType
        /\ CredOnward(cred[t], OwnPin(cred[t].ver + 1, TRUE))
    BY CredAt, CredForms
  <2> HIDE DEF x
  <2> QED BY <2>1, <2>2
<1>5. x.ver = p.ver + 1 /\ x.code = p.ver + 1 /\ x.status = "active"
  BY DEF OwnPin, Credential
<1>6. CredsOnward /\ cred' \in [Staff -> CredType] /\ cred'[t] = x
      /\ \A u \in Staff : u # t => cred'[u] = cred[u]
  <2>1. cred' = [cred EXCEPT ![t] = x]
    BY <1>3
  <2> HIDE DEF x
  <2> QED BY <1>4, <2>1, OneCred
<1>7. Spared(Live(t)) /\ Live(t) \in SUBSET SessionIds
  BY <1>1, <1>6 DEF Spared, SameAccess, Live
<1>8. Usable(t)' /\ p.ver + 1 = cred'[t].ver /\ p.ver + 1 = cred'[t].code
  BY <1>1, <1>3, <1>5, <1>6 DEF Usable
<1>9. SessionsFine' /\ session' \in [SessionIds -> SessionType]
  <2>1. used \subseteq used'
    BY <1>1
  <2> HIDE DEF p, x
  <2> QED BY <1>3, <1>4, <1>6, <1>7, <1>8, <2>1, RowOpened
<1>10. OneByPhone'
  BY <1>1 DEF AccessInv, OneByPhone
<1> QED BY <1>1, <1>6, <1>9, <1>10, AccessParts DEF AccessInv, AccessTypeOK

LEMMA RecoverKeeps ==
    ASSUME AccessInv, NEW t \in Staff, NEW z \in Nat, RecoverRotated(t, z)
    PROVE  AccessInv'
<1>1. /\ Usable(t) /\ Evicts(t, cred[t].ver, cred[t].code, FALSE, NoLaunch, z)
      /\ UNCHANGED <<onStaff, cred, link, invite, used, door, moment>>
  BY DEF RecoverRotated
<1>e. PICK S \in Evictions(t) : Opens(t, S, cred[t].ver, cred[t].code, FALSE, NoLaunch, z)
  BY <1>1 DEF Evicts
<1>2. CredsOnward /\ cred' \in [Staff -> CredType] /\ cred[t].ver \in Nat /\ cred[t].code \in Nat
  BY <1>1, NoCred, CredAt
<1>3. Spared(S) /\ S \in SUBSET SessionIds /\ DoorsKept
  BY <1>1, EvictedLive DEF Spared, SameAccess, DoorsKept
<1>4. Usable(t)' /\ cred[t].ver = cred'[t].ver /\ cred[t].code = cred'[t].code
  BY <1>1 DEF Usable
<1>5. SessionsFine' /\ session' \in [SessionIds -> SessionType]
  BY <1>1, <1>e, <1>2, <1>3, <1>4, RowOpened
<1>6. OneByPhone'
  BY <1>1 DEF AccessInv, OneByPhone
<1> QED BY <1>1, <1>2, <1>3, <1>5, <1>6, AccessParts DEF AccessInv, AccessTypeOK

-----------------------------------------------------------------------------
(* The librarian *)

LEMMA InviteChanged ==
    ASSUME AccessInv, NEW i \in Invites, NEW s \in {"consumed", "revoked"}
    PROVE  [invite[i] EXCEPT !.status = s] \in InviteType
BY DEF AccessInv, AccessTypeOK, InviteType

LEMMA ClosesTyped ==
    ASSUME AccessInv, NEW S, Closes(S)
    PROVE  invite' \in [Invites -> InviteType]
BY InviteChanged DEF AccessInv, AccessTypeOK, Closes

LEMMA LinkOff ==
    ASSUME AccessInv, NEW t \in Staff, NEW b \in BOOLEAN, b => link[t].on,
           link' = [link EXCEPT ![t].on = b]
    PROVE  OneByPhone' /\ link' \in [Staff -> LinkType]
<1>1. link \in [Staff -> LinkType]
  BY DEF AccessInv, AccessTypeOK
<1>2. [link[t] EXCEPT !.on = b] \in LinkType
  BY <1>1 DEF LinkType
<1>3. link' = [link EXCEPT ![t] = [link[t] EXCEPT !.on = b]]
  OBVIOUS
<1>4. link' \in [Staff -> LinkType]
  BY <1>1, <1>2, <1>3
<1>5. \A u \in Staff : link'[u].phone = link[u].phone /\ (link'[u].on => link[u].on)
  BY <1>1, <1>3 DEF LinkType
<1> QED BY <1>4, <1>5 DEF AccessInv, OneByPhone

(* All sessions of a teacher end, whatever becomes of the access. *)
LEMMA EndedKeeps ==
    ASSUME AccessInv, NEW t \in Staff, session' = Revoked(Live(t)), UNCHANGED <<used, door, moment>>,
           CredsOnward, cred' \in [Staff -> CredType],
           \A u \in Staff : u # t => cred'[u] = cred[u] /\ onStaff'[u] = onStaff[u],
           onStaff' \in [Staff -> BOOLEAN], invite' \in [Invites -> InviteType],
           link' \in [Staff -> LinkType], OneByPhone'
    PROVE  AccessInv'
<1>1. Live(t) \in SUBSET SessionIds /\ Spared(Live(t)) /\ DoorsKept
  BY DEF Live, Spared, SameAccess, DoorsKept
<1>2. SessionsFine' /\ session' \in [SessionIds -> SessionType]
  BY <1>1, RowsKept
<1>3. used' \in SUBSET Launches /\ moment' \in 0..LastMoment
  BY DEF AccessInv, AccessTypeOK
<1> QED BY <1>1, <1>2, <1>3, AccessParts

LEMMA LinkSame ==
    ASSUME AccessInv, link' = link PROVE OneByPhone' /\ link' \in [Staff -> LinkType]
BY DEF AccessInv, AccessTypeOK, OneByPhone

LEMMA LibrarianKeeps ==
    ASSUME AccessInv, NEW t \in Staff, NEW z \in Nat,
           \/ IssueCode(t, z) \/ ProtectPhone(t, z) \/ Disconnect(t) \/ LeaveStaff(t)
           \/ \E action \in {"enable", "disable", "other"} : UpdateAccess(t, action)
    PROVE  AccessInv'
<1>n. PICK n \in Nat : n = z + CodeTime
  BY AccessTimes
<1>1. /\ cred[t] \in CredType /\ Temporary(cred[t].ver + 1, n) \in CredType
      /\ CredOnward(cred[t], Temporary(cred[t].ver + 1, n))
      /\ \A s \in {"active", "disabled"} :
            Status(cred[t], s) \in CredType /\ CredOnward(cred[t], Status(cred[t], s))
      /\ CredOnward(cred[t], cred[t])
  BY CredAt, CredForms
<1>2. /\ session' = Revoked(Live(t)) /\ UNCHANGED <<used, door, moment>>
  BY DEF IssueCode, ProtectPhone, Disconnect, LeaveStaff, UpdateAccess, EndsSessions
<1>3. onStaff' \in [Staff -> BOOLEAN] /\ \A u \in Staff : u # t => onStaff'[u] = onStaff[u]
  BY DEF AccessInv, AccessTypeOK, IssueCode, ProtectPhone, Disconnect, LeaveStaff, UpdateAccess
<1>4. invite' \in [Invites -> InviteType]
  <2>1. CASE IssueCode(t, z)
    BY <2>1, ClosesTyped DEF IssueCode
  <2>2. CASE ProtectPhone(t, z)
    BY <2>2, ClosesTyped DEF ProtectPhone
  <2>3. CASE Disconnect(t)
    BY <2>3, ClosesTyped DEF Disconnect
  <2>4. CASE LeaveStaff(t)
    BY <2>4 DEF LeaveStaff, AccessInv, AccessTypeOK
  <2>5. ASSUME NEW action \in {"enable", "disable", "other"}, UpdateAccess(t, action)
        PROVE  invite' \in [Invites -> InviteType]
    BY <2>5, ClosesTyped DEF UpdateAccess
  <2> QED BY <2>1, <2>2, <2>3, <2>4, <2>5
<1>5. OneByPhone' /\ link' \in [Staff -> LinkType]
  <2>1. CASE IssueCode(t, z) \/ LeaveStaff(t)
    BY <2>1, LinkSame DEF IssueCode, LeaveStaff
  <2>2. CASE ProtectPhone(t, z) \/ Disconnect(t)
    BY <2>2, LinkOff DEF ProtectPhone, Disconnect
  <2>3. ASSUME NEW action \in {"enable", "disable", "other"}, UpdateAccess(t, action)
        PROVE  OneByPhone' /\ link' \in [Staff -> LinkType]
    <3> DEFINE b == link[t].on /\ action # "disable"
    <3>1. link[t].on \in BOOLEAN
      BY DEF AccessInv, AccessTypeOK, LinkType
    <3>2. b \in BOOLEAN /\ (b => link[t].on)
      OBVIOUS
    <3>3. link' = [link EXCEPT ![t].on = b]
      BY <2>3 DEF UpdateAccess
    <3> HIDE DEF b
    <3> QED BY <3>2, <3>3, LinkOff
  <2> QED BY <2>1, <2>2, <2>3
<1>6. PICK x \in CredType : CredOnward(cred[t], x) /\ cred' = [cred EXCEPT ![t] = x]
  <2>1. CASE IssueCode(t, z)
    BY <1>n, <1>1, <2>1 DEF IssueCode
  <2>2. CASE ProtectPhone(t, z)
    BY <1>n, <1>1, <2>2 DEF ProtectPhone
  <2>3. CASE Disconnect(t)
    <3>1. cred' = [cred EXCEPT ![t] = cred[t]]
      BY <2>3 DEF Disconnect, AccessInv, AccessTypeOK
    <3> QED BY <1>1, <3>1
  <2>4. CASE LeaveStaff(t)
    <3> DEFINE y == IF cred[t].status = "none" THEN cred[t] ELSE Status(cred[t], "disabled")
    <3>1. y \in CredType /\ CredOnward(cred[t], y)
      BY <1>1
    <3>2. cred' = [cred EXCEPT ![t] = y]
      BY <2>4 DEF LeaveStaff
    <3> HIDE DEF y
    <3> QED BY <3>1, <3>2
  <2>5. ASSUME NEW action \in {"enable", "disable", "other"}, UpdateAccess(t, action)
        PROVE  \E y \in CredType : CredOnward(cred[t], y) /\ cred' = [cred EXCEPT ![t] = y]
    <3> DEFINE s == CASE action = "enable" -> "active"
                      [] action = "disable" -> "disabled"
                      [] OTHER -> cred[t].status
    <3>1. s \in {"active", "disabled"}
      <4>1. cred[t].status \in {"active", "disabled"}
        BY <1>1, <2>5 DEF UpdateAccess, CredType
      <4>2. CASE action = "enable"
        BY <4>2
      <4>3. CASE action = "disable"
        BY <4>3
      <4>4. CASE action = "other"
        BY <4>1, <4>4
      <4> QED BY <4>2, <4>3, <4>4
    <3>2. cred' = [cred EXCEPT ![t] = Status(cred[t], s)]
      BY <2>5 DEF UpdateAccess
    <3> HIDE DEF s
    <3> QED BY <1>1, <3>1, <3>2
  <2> QED BY <2>1, <2>2, <2>3, <2>4, <2>5
<1>7. CredsOnward /\ cred' \in [Staff -> CredType] /\ \A u \in Staff : u # t => cred'[u] = cred[u]
  BY <1>6, OneCred
<1> QED BY <1>2, <1>3, <1>4, <1>5, <1>7, EndedKeeps

(* Steps that leave the sessions alone *)
LEMMA RestKeeps ==
    ASSUME AccessInv, session' = session, UNCHANGED <<used, door>>, moment' \in 0..LastMoment,
           CredsOnward, cred' \in [Staff -> CredType],
           \A t \in Staff : Live(t) = {} \/ SameAccess(t),
           onStaff' \in [Staff -> BOOLEAN], invite' \in [Invites -> InviteType],
           link' = link
    PROVE  AccessInv'
<1>1. SessionsFine' /\ session' \in [SessionIds -> SessionType]
  BY RowsSame
<1>2. used' \in SUBSET Launches /\ DoorsKept
  BY DEF AccessInv, AccessTypeOK, DoorsKept
<1> QED BY <1>1, <1>2, LinkSame, AccessParts

LEMMA LogOutKeeps ==
    ASSUME AccessInv, NEW s \in SessionIds, LogOut(s)
    PROVE  AccessInv'
<1>1. session' = Revoked({s}) /\ UNCHANGED <<onStaff, cred, link, invite, used, door, moment>>
  BY DEF LogOut
<1>2. CredsOnward /\ cred' \in [Staff -> CredType]
  BY <1>1, NoCred
<1>3. Spared({s}) /\ DoorsKept
  BY <1>1 DEF Spared, SameAccess, DoorsKept
<1>4. SessionsFine' /\ session' \in [SessionIds -> SessionType]
  BY <1>1, <1>2, <1>3, RowsKept
<1> QED BY <1>1, <1>2, <1>3, <1>4, LinkSame, AccessParts DEF AccessInv, AccessTypeOK

LEMMA TimePassesKeeps ==
    ASSUME AccessInv, TimePasses
    PROVE  AccessInv'
<1>1. UNCHANGED <<onStaff, cred, link, invite, session, used, door>>
  BY DEF TimePasses
<1>2. CredsOnward /\ cred' \in [Staff -> CredType] /\ \A u \in Staff : SameAccess(u)
  BY <1>1, NoCred DEF SameAccess
<1>3. moment' \in 0..LastMoment
  BY AccessTimes DEF TimePasses, AccessInv, AccessTypeOK
<1> QED BY <1>1, <1>2, <1>3, RestKeeps DEF AccessInv, AccessTypeOK

LEMMA RejoinKeeps ==
    ASSUME AccessInv, NEW t \in Staff, RejoinStaff(t)
    PROVE  AccessInv'
<1>1. /\ ~onStaff[t] /\ onStaff' = [onStaff EXCEPT ![t] = TRUE]
      /\ UNCHANGED <<cred, link, invite, session, used, door, moment>>
  BY DEF RejoinStaff
<1>2. CredsOnward /\ cred' \in [Staff -> CredType]
  BY <1>1, NoCred
<1>3. Live(t) = {}
  BY <1>1 DEF AccessInv, SessionsFine, LiveIsValid, Usable
<1>4. onStaff' \in [Staff -> BOOLEAN] /\ \A u \in Staff : u # t => SameAccess(u)
  BY <1>1 DEF AccessInv, AccessTypeOK, SameAccess
<1> QED BY <1>1, <1>2, <1>3, <1>4, RestKeeps DEF AccessInv, AccessTypeOK

LEMMA IssueInviteKeeps ==
    ASSUME AccessInv, NEW t \in Staff, NEW i \in Invites, IssueInvite(t, i)
    PROVE  AccessInv'
<1> DEFINE x == IF cred[t].status = "none" THEN Credential("active", TRUE, 0, 0, 1, FALSE)
                ELSE cred[t]
<1>1. x \in CredType /\ CredOnward(cred[t], x)
  BY CredAt, CredForms
<1>2. cred' = [cred EXCEPT ![t] = x] /\ UNCHANGED <<onStaff, link, session, used, door, moment>>
  BY DEF IssueInvite
<1>3. CredsOnward /\ cred' \in [Staff -> CredType] /\ cred'[t] = x
      /\ \A u \in Staff : u # t => cred'[u] = cred[u]
  <2> HIDE DEF x
  <2> QED BY <1>1, <1>2, OneCred
<1>4. Live(t) = {} \/ SameAccess(t)
  <2>1. CASE cred[t].status = "none"
    BY <2>1 DEF AccessInv, SessionsFine, LiveIsValid, Usable
  <2>2. CASE cred[t].status # "none"
    BY <1>2, <1>3, <2>2 DEF SameAccess
  <2> QED BY <2>1, <2>2
<1>5. \A u \in Staff : u # t => SameAccess(u)
  BY <1>2, <1>3 DEF SameAccess
<1>6. invite' \in [Invites -> InviteType]
  <2> DEFINE r == [status |-> "open", for |-> t, phone |-> NoPhone, ver |-> cred'[t].ver]
  <2>1. r \in InviteType
    BY <1>3 DEF InviteType, CredType
  <2>2. invite \in [Invites -> InviteType]
    BY DEF AccessInv, AccessTypeOK
  <2>3. \A j \in Invites : [invite[j] EXCEPT !.status = "revoked"] \in InviteType
    BY InviteChanged
  <2>4. invite' = [j \in Invites |->
           IF j = i THEN r
           ELSE IF j \in InvitesOf(t) THEN [invite[j] EXCEPT !.status = "revoked"]
           ELSE invite[j]]
    BY DEF IssueInvite
  <2> HIDE DEF r
  <2> QED BY <2>1, <2>2, <2>3, <2>4
<1> HIDE DEF x
<1> QED BY <1>2, <1>3, <1>4, <1>5, <1>6, RestKeeps DEF AccessInv, AccessTypeOK

LEMMA InvitesKeep ==
    ASSUME AccessInv, NEW i \in Invites,
           RevokeInvite(i) \/ \E p \in Phones : ClaimInvite(i, p) \/ Start(i, p)
    PROVE  AccessInv'
<1>1. UNCHANGED <<onStaff, cred, link, session, used, door, moment>>
  BY DEF RevokeInvite, ClaimInvite, Start
<1>2. CredsOnward /\ cred' \in [Staff -> CredType]
  BY <1>1, NoCred
<1>3. \A u \in Staff : SameAccess(u)
  BY <1>1 DEF SameAccess
<1>4. invite' \in [Invites -> InviteType]
  <2>1. /\ invite \in [Invites -> InviteType]
        /\ \A j \in Invites : [invite[j] EXCEPT !.status = "revoked"] \in InviteType
    BY InviteChanged DEF AccessInv, AccessTypeOK
  <2>2. CASE RevokeInvite(i)
    BY <2>2, ClosesTyped DEF RevokeInvite
  <2>3. ASSUME NEW p \in Phones, ClaimInvite(i, p) PROVE invite' \in [Invites -> InviteType]
    <3>1. [invite[i] EXCEPT !.phone = p] \in InviteType
      BY <2>1 DEF InviteType
    <3> QED BY <2>1, <2>3, <3>1 DEF ClaimInvite
  <2>4. ASSUME NEW p \in Phones, Start(i, p) PROVE invite' \in [Invites -> InviteType]
    <3>1. [status |-> "open", for |-> Anyone, ver |-> 0, phone |-> p] \in InviteType
      BY DEF InviteType
    <3> QED BY <2>1, <2>4, <3>1 DEF Start
  <2> QED BY <2>2, <2>3, <2>4
<1> QED BY <1>1, <1>2, <1>3, <1>4, RestKeeps DEF AccessInv, AccessTypeOK

LEMMA TurnedAwayKeeps ==
    ASSUME AccessInv, NEW d \in Doors, TurnedAway(d)
    PROVE  AccessInv'
<1>1. DoorsKept /\ UNCHANGED <<onStaff, cred, link, invite, session, used, moment>>
  BY DEF TurnedAway, DoorsKept
<1>2. CredsOnward /\ cred' \in [Staff -> CredType] /\ \A u \in Staff : SameAccess(u)
  BY <1>1, NoCred DEF SameAccess
<1>3. SessionsFine' /\ session' \in [SessionIds -> SessionType]
  BY <1>1, <1>2, RowsSame
<1> QED BY <1>1, <1>2, <1>3, LinkSame, AccessParts DEF AccessInv, AccessTypeOK

LEMMA PlansKeep ==
    ASSUME AccessInv, NEW d \in Doors, NEW n \in Nat,
           \/ \E t \in Staff : PlanSignIn(d, t, n)
           \/ \E t \in Staff, p \in Phones, a \in Launches :
                  PlanOpen(d, t, p, a, n) \/ PlanActivate(d, t, p, a, n)
           \/ \E s \in SessionIds : PlanRotate(d, s, n)
    PROVE  AccessInv'
<1>1. ASSUME NEW t \in Staff, PlanSignIn(d, t, n) PROVE AccessInv'
  <2> DEFINE p == [op |-> "signin", since |-> n, of |-> t, ver |-> cred[t].ver, code |-> cred[t].code]
  <2>1. p \in DoorPlan /\ Knocks(d, p)
    BY <1>1, CredAt DEF PlanSignIn, DoorPlan
  <2>2. CodeAsRead(p)
    BY <1>1, CredAt DEF CodeAsRead, PlanSignIn
  <2> HIDE DEF p
  <2> QED BY <2>1, <2>2, Knocking
<1>2. ASSUME NEW t \in Staff, NEW q \in Phones, NEW a \in Launches, PlanOpen(d, t, q, a, n)
      PROVE  AccessInv'
  <2> DEFINE p == [op |-> "open", since |-> n, of |-> t, ver |-> cred[t].ver,
                   phone |-> q, launch |-> a]
  <2>1. p \in DoorPlan /\ Knocks(d, p) /\ p.op = "open"
    BY <1>2, CredAt DEF PlanOpen, DoorPlan
  <2> HIDE DEF p
  <2> QED BY <2>1, Knocking
<1>3. ASSUME NEW t \in Staff, NEW q \in Phones, NEW a \in Launches, PlanActivate(d, t, q, a, n)
      PROVE  AccessInv'
  <2>1. PICK kind \in {"personal", "connected", "generic"}, i \in Invites \cup {NoInvite} :
            Activation(d, kind, i, t, q, a, n)
    BY <1>3 DEF PlanActivate, Personal, OpenInvites
  <2> DEFINE p == [op |-> "activate", since |-> n, of |-> t, ver |-> cred[t].ver, code |-> cred[t].code,
                   temp |-> cred[t].temp, kind |-> kind, invite |-> i, phone |-> q,
                   launch |-> a]
  <2>2. p \in DoorPlan /\ Knocks(d, p)
    BY <2>1, CredAt DEF Activation, DoorPlan
  <2>3. CodeAsRead(p)
    BY CredAt DEF CodeAsRead
  <2> HIDE DEF p
  <2> QED BY <2>2, <2>3, Knocking
<1>4. ASSUME NEW s \in SessionIds, PlanRotate(d, s, n) PROVE AccessInv'
  <2> DEFINE t == session[s].of
             p == [op |-> "rotate", since |-> n, of |-> t, ver |-> session[s].ver,
                   temp |-> cred[t].temp, session |-> s]
  <2>1. session[s].ver \in Nat /\ t \in Staff \cup {Anyone}
    BY DEF AccessInv, AccessTypeOK, SessionType
  <2>2. t \in Staff
    BY <1>4 DEF PlanRotate, AccessInv, SessionsFine, LiveOwned
  <2>3. p \in DoorPlan /\ Knocks(d, p) /\ p.op = "rotate"
    BY <1>4, <2>1, <2>2, CredAt DEF PlanRotate, DoorPlan
  <2> HIDE DEF p
  <2> QED BY <2>3, Knocking
<1> QED BY <1>1, <1>2, <1>3, <1>4

-----------------------------------------------------------------------------
(* Every step keeps the invariant *)

LEMMA AccessStart == AccessInit => AccessInv
<1> SUFFICES ASSUME AccessInit PROVE AccessInv
  OBVIOUS
<1>1. AccessTypeOK
  <2>1. cred \in [Staff -> CredType]
    BY DEF AccessInit, CredType
  <2>2. session \in [SessionIds -> SessionType]
    BY DEF AccessInit, SessionType
  <2>3. link \in [Staff -> LinkType] /\ invite \in [Invites -> InviteType]
    BY DEF AccessInit, LinkType, InviteType
  <2>4. moment \in 0..LastMoment
    BY AccessTimes DEF AccessInit
  <2> QED BY <2>1, <2>2, <2>3, <2>4 DEF AccessInit, AccessTypeOK
<1>2. CredFine /\ DoorsFine /\ OneByPhone
  BY DEF AccessInit, CredFine, DoorsFine, Coded, OneByPhone
<1>3. \A s \in SessionIds : session[s].status = "none" /\ session[s].temp = FALSE
                            /\ session[s].launch = NoLaunch
  BY DEF AccessInit
<1>4. LiveIsValid /\ LiveOwned /\ TempFine /\ LaunchesUsed /\ OneByCode /\ OneByLaunch
  BY <1>3 DEF LiveIsValid, Live, LiveOwned, TempFine, LaunchesUsed, OneByCode, OneByLaunch
<1>5. WithinSessions
  <2> SUFFICES ASSUME NEW t \in Staff PROVE Cardinality(Live(t)) <= SessionLimit
    BY DEF WithinSessions
  <2>1. Live(t) = {}
    BY <1>3 DEF Live
  <2>2. Cardinality(Live(t)) = 0
    BY <2>1, FS_EmptySet
  <2> QED BY <2>2, AccessBounds
<1> QED BY <1>1, <1>2, <1>4, <1>5 DEF AccessInv, SessionsFine

LEMMA AccessStepKeeps == AccessInv /\ [AccessNext]_accessVars => AccessInv'
<1> SUFFICES ASSUME AccessInv, [AccessNext]_accessVars PROVE AccessInv'
  OBVIOUS
<1>0. Begun \subseteq Nat
  BY AccessTimes DEF Begun, AccessInv, AccessTypeOK
<1>1. CASE AtTheDoor
  <2>1. PICK d \in Doors :
        \/ \E n \in Begun :
            \/ \E t \in Staff : PlanSignIn(d, t, n)
            \/ \E t \in Staff, p \in Phones, a \in Launches :
                   PlanOpen(d, t, p, a, n) \/ PlanActivate(d, t, p, a, n)
            \/ \E s \in SessionIds : PlanRotate(d, s, n)
        \/ CommitSignIn(d) \/ CommitOpen(d) \/ CommitActivate(d) \/ CommitRotate(d)
        \/ TurnedAway(d)
    BY <1>1 DEF AtTheDoor
  <2>2. ASSUME NEW n \in Begun,
               \/ \E t \in Staff : PlanSignIn(d, t, n)
               \/ \E t \in Staff, p \in Phones, a \in Launches :
                      PlanOpen(d, t, p, a, n) \/ PlanActivate(d, t, p, a, n)
               \/ \E s \in SessionIds : PlanRotate(d, s, n)
        PROVE  AccessInv'
    <3>1. n \in Nat
      BY <1>0
    <3> QED BY <2>2, <3>1, PlansKeep
  <2>3. CASE CommitSignIn(d) \/ CommitOpen(d) \/ CommitActivate(d) \/ CommitRotate(d)
             \/ TurnedAway(d)
    BY <2>3, SignInKeeps, OpenKeeps, ActivateKeeps, RotateKeeps, TurnedAwayKeeps
  <2> QED BY <2>1, <2>2, <2>3
<1>2. ASSUME TimePasses \/ \E s \in SessionIds : LogOut(s) PROVE AccessInv'
  BY <1>2, TimePassesKeeps, LogOutKeeps
<1>3. ASSUME NEW t \in Staff, NEW n \in Begun,
             RecoverRotated(t, n) \/ IssueCode(t, n) \/ ProtectPhone(t, n)
      PROVE  AccessInv'
  <2>1. n \in Nat
    BY <1>0
  <2> QED BY <1>3, <2>1, RecoverKeeps, LibrarianKeeps
<1>4. ASSUME NEW t \in Staff,
             \/ Disconnect(t)
             \/ \E action \in {"enable", "disable", "other"} : UpdateAccess(t, action)
             \/ \E i \in Invites : IssueInvite(t, i)
             \/ LeaveStaff(t) \/ RejoinStaff(t)
      PROVE  AccessInv'
  <2>1. 0 \in Nat
    OBVIOUS
  <2> QED BY <1>4, <2>1, LibrarianKeeps, IssueInviteKeeps, RejoinKeeps
<1>5. ASSUME NEW i \in Invites, RevokeInvite(i) \/ \E p \in Phones : ClaimInvite(i, p) \/ Start(i, p)
      PROVE  AccessInv'
  BY <1>5, InvitesKeep
<1>6. CASE UNCHANGED accessVars
  <2>1. CredsOnward /\ cred' \in [Staff -> CredType] /\ \A u \in Staff : SameAccess(u)
    BY <1>6, NoCred DEF SameAccess, accessVars
  <2>2. moment' \in 0..LastMoment
    BY <1>6 DEF AccessInv, AccessTypeOK, accessVars
  <2> QED BY <1>6, <2>1, <2>2, RestKeeps DEF AccessInv, AccessTypeOK, accessVars
<1> QED BY <1>1, <1>2, <1>3, <1>4, <1>5, <1>6 DEF AccessNext

(* Credentials, sessions, bindings, invites and plans of handlers keep     *)
(* their shape (visit-teacher-auth.ts).                                    *)
THEOREM AccessTyped == AccessSpec => []AccessTypeOK
<1>1. AccessInv => AccessTypeOK
  BY DEF AccessInv
<1> QED BY <1>1, AccessStart, AccessStepKeeps, PTL DEF AccessSpec

(* No session outlives the code, the access or the card it was opened      *)
(* with; a temporary code opens a further session only to a call that had  *)
(* begun before every call it let in; a launch and a phone serve once;     *)
(* nobody has more sessions than the limit (visit-teacher-auth.ts).        *)
THEOREM AccessSafe == AccessSpec => []AccessSound
<1>1. AccessInv => AccessSound
  BY DEF AccessInv, SessionsFine, AccessSound, OpenedOnce, OneByCode, OneByLaunch,
         WithinSessions, OneByPhone
<1> QED BY <1>1, AccessStart, AccessStepKeeps, PTL DEF AccessSpec

-----------------------------------------------------------------------------
(* The gates of readers: the inductive invariant                           *)

(* A temporary code and a PIN are named by the version that set them.      *)
SecretsFine ==
    \A r \in Readers :
        /\ secret[r].code \in {0, secret[r].ver}
        /\ secret[r].status = "active" /\ ~secret[r].must => secret[r].code = secret[r].ver

(* A grant is of a code that was used up when it was given; a pass that    *)
(* can still set a PIN is of a code that set none.                         *)
GrantSound(g) ==
    LET c == secret[grant[g].of] IN
    /\ grant[g].of \in Readers /\ grant[g].issue = grant[g].cv /\ grant[g].cv > 0
    /\ grant[g].cv <= c.ver
    /\ grant[g].cv = c.ver => c.code = 0
GrantsFine ==
    /\ \A g \in Grants : grant[g].status # "none" => GrantSound(g)
    /\ \A g, h \in Grants : /\ grant[g].status = "open" /\ grant[h].status = "open"
                            /\ grant[g].of = grant[h].of
                            => g = h
IssueUnused(i) == \A s \in Entries : entry[s].of = pass[i].of => entry[s].issue # pass[i].issue
PassSound(i) ==
    /\ pass[i].of \in Readers
    /\ pass[i].issue <= secret[pass[i].of].ver
    /\ pass[i].issue > 0 => pass[i].for = "web" /\ (pass[i].status = "open" => IssueUnused(i))
PassesFine == \A i \in Passes : pass[i].status # "none" => PassSound(i)

(* A session is of an access the card has or had, and of a code that was   *)
(* exchanged; one of a chat that lives is of the binding of now.           *)
Dated(r, av) == av <= person[r].av /\ (person[r].linked => av < person[r].av)
Exchanged(r, issue) == issue = 0 \/ issue < secret[r].ver
OfBinding(s) ==
    LET c == chat[entry[s].of] IN
    c.status = "active" /\ c.of = entry[s].chat /\ c.ver = entry[s].chatVer
EntrySound(s) ==
    LET r == entry[s].of IN
    /\ r \in Readers /\ Dated(r, entry[s].av) /\ Exchanged(r, entry[s].issue)
    /\ entry[s].chat = NoChat => entry[s].code = entry[s].cv
    /\ entry[s].start \in seen \cup {NoStart}
    /\ entry[s].status = "live" /\ entry[s].chat # NoChat => OfBinding(s)
EntryBlank(s) ==
    entry[s].of = NoReader /\ entry[s].issue = 0 /\ entry[s].start = NoStart
EntriesFine ==
    \A s \in Entries : IF entry[s].status = "none" THEN EntryBlank(s) ELSE EntrySound(s)
OneByIssue ==
    \A s, t \in Entries : s # t /\ entry[s].of = entry[t].of =>
        entry[s].issue = 0 \/ entry[s].issue # entry[t].issue
OneByStart ==
    \A s, t \in Entries : s # t => entry[s].start = NoStart \/ entry[s].start # entry[t].start
EntriesFew ==
    \A r \in Readers : /\ Cardinality(WebOf(r)) <= KeptSessions + 1
                       /\ Cardinality(ChatOf(r)) <= KeptSessions + 1
ChatsApart ==
    \A r \in Readers : \A q \in Readers \ {r} : chat[r].of # chat[q].of \/ chat[r].of = NoChat
BindingsReal == \A r \in Readers : chat[r].status # "none" => chat[r].of \in Chats
ChatsFine == ChatsApart /\ BindingsReal

(* What a handler read of the access is no newer than the card, and what   *)
(* it read of a grant or a pass stays true.                                *)
PlanDated(p) == Dated(p.of, p.av)
CardRead(p) ==
    /\ p.ver <= person[p.of].ver
    /\ p.ver = person[p.of].ver => p.av = person[p.of].av
GrantRead(p) == /\ grant[p.grant].status # "none" /\ grant[p.grant].of = p.of
                /\ grant[p.grant].cv = p.cv
PassRead(p) == pass[p.pass].status # "none" /\ pass[p.pass].of = p.of
PlanSound(p) ==
    /\ PlanDated(p)
    /\ p.op \in {"setup", "redeem"} => CardRead(p)
    /\ p.op \in {"temp", "bind"} => p.code > 0
    /\ p.op = "setup" => GrantRead(p)
    /\ p.op = "redeem" => PassRead(p)
    /\ p.op = "join" => PassRead(p) /\ pass[p.pass].av = p.av
GatesFine == \A d \in Gates : gate[d] # Shut => PlanSound(gate[d])

RecordsSound == SecretsFine /\ GrantsFine /\ PassesFine
EntriesSound == EntriesFine /\ OneByIssue /\ OneByStart /\ EntriesFew
ReadersInv == ReaderTypeOK /\ RecordsSound /\ EntriesSound /\ ChatsFine /\ GatesFine

-----------------------------------------------------------------------------
(* What a step may do to the rows it does not create *)

CardOnward(b, a) ==
    /\ a.ver >= b.ver /\ a.av >= b.av
    /\ a.av # b.av => a.ver > b.ver
    /\ \/ a.av > b.av
       \/ /\ b.access = "blocked" => a.access = "blocked"
          /\ a.on = b.on /\ a.linked = b.linked
CardsOnward == \A r \in Readers : CardOnward(person[r], person'[r])
SecretOnward(b, a) == a.ver >= b.ver /\ (a.ver = b.ver => a.code \in {0, b.code})
SecretsOnward == \A r \in Readers : SecretOnward(secret[r], secret'[r])

GrantKept(b, a) ==
    /\ a.of = b.of /\ a.cv = b.cv /\ a.issue = b.issue
    /\ a.status = "none" <=> b.status = "none"
    /\ a.status = "open" => b.status = "open"
PassKept(b, a) ==
    /\ a.of = b.of /\ a.for = b.for /\ a.av = b.av /\ a.issue = b.issue
    /\ a.status = "none" <=> b.status = "none"
    /\ a.status = "open" => b.status = "open"
EntryKept(b, a) ==
    /\ a.of = b.of /\ a.av = b.av /\ a.cv = b.cv /\ a.chat = b.chat /\ a.code = b.code
    /\ a.chatVer = b.chatVer /\ a.issue = b.issue /\ a.start = b.start
    /\ a.status = "none" <=> b.status = "none"
    /\ a.status = "live" => b.status = "live"
GrantRows(S) == \A g \in Grants : IF g \in S THEN grant[g].status = "none"
                                             ELSE GrantKept(grant[g], grant'[g])
PassRows(S) == \A i \in Passes : IF i \in S THEN pass[i].status = "none"
                                            ELSE PassKept(pass[i], pass'[i])
EntryRows(S) == \A s \in Entries : IF s \in S THEN entry[s].status = "none"
                                              ELSE EntryKept(entry[s], entry'[s])
(* A binding changes only with no session left that was opened with it.    *)
BindingsKept(S) ==
    \A s \in Entries \ S : entry'[s].status = "live" /\ entry[s].chat # NoChat
                           => chat'[entry[s].of] = chat[entry[s].of]

LEMMA CardWritten ==
    ASSUME ReaderTypeOK, NEW r \in Readers, NEW c \in PersonType, CardOnward(person[r], c),
           person' = [person EXCEPT ![r] = c]
    PROVE  CardsOnward /\ person' \in [Readers -> PersonType] /\ person'[r] = c
<1>1. person \in [Readers -> PersonType]
  BY DEF ReaderTypeOK
<1>2. /\ person' \in [Readers -> PersonType] /\ person'[r] = c
      /\ \A q \in Readers \ {r} : person'[q] = person[q]
  BY <1>1
<1>3. \A q \in Readers : CardOnward(person[q], person[q])
  BY <1>1 DEF CardOnward, PersonType
<1> QED BY <1>2, <1>3 DEF CardsOnward

LEMMA CardsSame == ReaderTypeOK /\ person' = person => CardsOnward
BY DEF CardsOnward, CardOnward, ReaderTypeOK, PersonType

SecretFine(c) == /\ c.code \in {0, c.ver}
                 /\ c.status = "active" /\ ~c.must => c.code = c.ver
LEMMA SecretWritten ==
    ASSUME ReadersInv, NEW r \in Readers, NEW c \in SecretType, SecretOnward(secret[r], c),
           SecretFine(c), secret' = [secret EXCEPT ![r] = c]
    PROVE  SecretsOnward /\ SecretsFine' /\ secret' \in [Readers -> SecretType] /\ secret'[r] = c
<1>1. secret \in [Readers -> SecretType] /\ SecretsFine
  BY DEF ReaderTypeOK, ReadersInv, RecordsSound
<1>2. /\ secret' \in [Readers -> SecretType] /\ secret'[r] = c
      /\ \A q \in Readers \ {r} : secret'[q] = secret[q]
  BY <1>1
<1>3. \A q \in Readers : SecretOnward(secret[q], secret[q])
  BY <1>1 DEF SecretOnward, SecretType
<1>4. SecretsOnward
  BY <1>2, <1>3 DEF SecretsOnward
<1>5. \A q \in Readers : SecretFine(secret'[q])
  BY <1>1, <1>2 DEF SecretsFine, SecretFine
<1> QED BY <1>2, <1>4, <1>5 DEF SecretsFine, SecretFine

LEMMA SecretsSame == ReadersInv /\ secret' = secret => SecretsOnward /\ SecretsFine'
BY DEF SecretsOnward, SecretOnward, ReaderTypeOK, SecretType, SecretsFine, ReadersInv,
       RecordsSound

LEMMA GrantsClosed ==
    ASSUME ReaderTypeOK, NEW S, \A g \in S : grant[g].status # "none"
    PROVE  /\ GrantsLess(S) \in [Grants -> GrantType]
           /\ \A g \in Grants : GrantKept(grant[g], GrantsLess(S)[g])
           /\ \A g \in Grants : g \in S => GrantsLess(S)[g].status = "closed"
<1>1. ASSUME NEW g \in Grants
      PROVE  /\ GrantsLess(S)[g] \in GrantType
             /\ GrantKept(grant[g], GrantsLess(S)[g])
             /\ g \in S => GrantsLess(S)[g].status = "closed"
  <2>1. grant[g] \in GrantType
    BY DEF ReaderTypeOK
  <2> QED BY <2>1 DEF GrantsLess, GrantType, GrantKept
<1> QED BY <1>1 DEF GrantsLess

LEMMA PassesClosed ==
    ASSUME ReaderTypeOK, NEW S, \A i \in S : pass[i].status # "none"
    PROVE  /\ PassesLess(S) \in [Passes -> PassType]
           /\ \A i \in Passes : PassKept(pass[i], PassesLess(S)[i])
           /\ \A i \in Passes : i \in S => PassesLess(S)[i].status = "closed"
<1>1. ASSUME NEW i \in Passes
      PROVE  /\ PassesLess(S)[i] \in PassType
             /\ PassKept(pass[i], PassesLess(S)[i])
             /\ i \in S => PassesLess(S)[i].status = "closed"
  <2>1. pass[i] \in PassType
    BY DEF ReaderTypeOK
  <2> QED BY <2>1 DEF PassesLess, PassType, PassKept
<1> QED BY <1>1 DEF PassesLess

LEMMA EntriesClosed ==
    ASSUME ReaderTypeOK, NEW S, \A s \in S : entry[s].status # "none"
    PROVE  /\ EntriesLess(S) \in [Entries -> EntryRow]
           /\ \A s \in Entries : EntryKept(entry[s], EntriesLess(S)[s])
           /\ \A s \in Entries : s \in S => EntriesLess(S)[s].status = "revoked"
<1>1. ASSUME NEW s \in Entries
      PROVE  /\ EntriesLess(S)[s] \in EntryRow
             /\ EntryKept(entry[s], EntriesLess(S)[s])
             /\ s \in S => EntriesLess(S)[s].status = "revoked"
  <2>1. entry[s] \in EntryRow
    BY DEF ReaderTypeOK
  <2> QED BY <2>1 DEF EntriesLess, Over, EntryRow, EntryKept
<1> QED BY <1>1 DEF EntriesLess

LEMMA GateRowsSame ==
    /\ UNCHANGED grant => GrantRows({})
    /\ UNCHANGED pass => PassRows({})
    /\ UNCHANGED entry => EntryRows({})
BY DEF GrantRows, GrantKept, PassRows, PassKept, EntryRows, EntryKept

-----------------------------------------------------------------------------
(* What stays true of the rows and plans that a step does not create *)

LEMMA GrantStays ==
    ASSUME ReadersInv, ReaderTypeOK', SecretsOnward, NEW g \in Grants,
           grant[g].status # "none", GrantKept(grant[g], grant'[g])
    PROVE  GrantSound(g)'
<1> DEFINE r == grant[g].of
<1>1. GrantSound(g)
  BY DEF ReadersInv, RecordsSound, GrantsFine
<1>2. PICK q \in Readers : q = grant[g].of
  BY <1>1 DEF GrantSound
<1>3. secret[q] \in SecretType /\ secret'[q] \in SecretType /\ grant[g] \in GrantType
  BY DEF ReadersInv, ReaderTypeOK
<1>4. SecretOnward(secret[q], secret'[q])
  BY DEF SecretsOnward
<1>5. grant[g].cv \in Nat /\ secret[q].ver \in Nat /\ secret'[q].ver \in Nat
  BY <1>3 DEF GrantType, SecretType
<1>6. /\ grant[g].cv <= secret[q].ver /\ (grant[g].cv = secret[q].ver => secret[q].code = 0)
      /\ grant[g].issue = grant[g].cv /\ grant[g].cv > 0
  BY <1>1, <1>2 DEF GrantSound
<1>7. /\ grant[g].cv <= secret'[q].ver
      /\ grant[g].cv = secret'[q].ver => secret'[q].code = 0
  BY <1>4, <1>5, <1>6 DEF SecretOnward
<1> QED BY <1>2, <1>6, <1>7 DEF GrantSound, GrantKept

LEMMA GrantsKeep ==
    ASSUME ReadersInv, ReaderTypeOK', SecretsOnward, GrantRows({})
    PROVE  GrantsFine'
<1>1. \A g \in Grants : GrantKept(grant[g], grant'[g])
  BY DEF GrantRows
<1>2. ASSUME NEW g \in Grants, grant'[g].status # "none" PROVE GrantSound(g)'
  <2>1. grant[g].status # "none"
    BY <1>1, <1>2 DEF GrantKept
  <2> QED BY <1>1, <2>1, GrantStays
<1>3. ASSUME NEW g \in Grants, NEW h \in Grants, grant'[g].status = "open",
             grant'[h].status = "open", grant'[g].of = grant'[h].of
      PROVE  g = h
  BY <1>1, <1>3 DEF GrantKept, ReadersInv, RecordsSound, GrantsFine
<1> QED BY <1>2, <1>3 DEF GrantsFine

LEMMA PassStays ==
    ASSUME ReadersInv, ReaderTypeOK', SecretsOnward, NEW i \in Passes,
           pass[i].status # "none", PassKept(pass[i], pass'[i]),
           pass[i].issue > 0 /\ pass'[i].status = "open" /\ IssueUnused(i) => IssueUnused(i)'
    PROVE  PassSound(i)'
<1>1. PassSound(i)
  BY DEF ReadersInv, RecordsSound, PassesFine
<1>2. PICK q \in Readers : q = pass[i].of
  BY <1>1 DEF PassSound
<1>3. secret[q] \in SecretType /\ secret'[q] \in SecretType /\ pass[i] \in PassType
  BY DEF ReadersInv, ReaderTypeOK
<1>4. SecretOnward(secret[q], secret'[q])
  BY DEF SecretsOnward
<1>5. pass[i].issue \in Nat /\ secret[q].ver \in Nat /\ secret'[q].ver \in Nat
  BY <1>3 DEF PassType, SecretType
<1>6. pass[i].issue <= secret'[q].ver
  BY <1>1, <1>2, <1>4, <1>5 DEF PassSound, SecretOnward
<1>7. pass'[i].of = q /\ pass'[i].issue = pass[i].issue /\ pass'[i].for = pass[i].for
      /\ (pass'[i].status = "open" => pass[i].status = "open")
  BY <1>2 DEF PassKept
<1>8. ASSUME pass'[i].issue > 0
      PROVE  pass'[i].for = "web" /\ (pass'[i].status = "open" => IssueUnused(i)')
  BY <1>1, <1>7, <1>8 DEF PassSound
<1> QED BY <1>6, <1>7, <1>8 DEF PassSound

LEMMA UnusedStays ==
    ASSUME EntryRows({}), NEW i \in Passes, PassKept(pass[i], pass'[i]), IssueUnused(i)
    PROVE  IssueUnused(i)'
BY DEF EntryRows, EntryKept, PassKept, IssueUnused

LEMMA PassesKeep ==
    ASSUME ReadersInv, ReaderTypeOK', SecretsOnward, PassRows({}), EntryRows({})
    PROVE  PassesFine'
<1>1. \A i \in Passes : PassKept(pass[i], pass'[i])
  BY DEF PassRows
<1>2. ASSUME NEW i \in Passes, pass'[i].status # "none" PROVE PassSound(i)'
  <2>1. pass[i].status # "none"
    BY <1>1, <1>2 DEF PassKept
  <2>2. IssueUnused(i) => IssueUnused(i)'
    BY <1>1, UnusedStays
  <2> QED BY <1>1, <2>1, <2>2, PassStays
<1> QED BY <1>2 DEF PassesFine

LEMMA DatedStays ==
    ASSUME ReaderTypeOK, ReaderTypeOK', CardsOnward, NEW r \in Readers, NEW av \in Nat, Dated(r, av)
    PROVE  Dated(r, av)'
<1>1. person[r] \in PersonType /\ person'[r] \in PersonType
  BY DEF ReaderTypeOK
<1>2. CardOnward(person[r], person'[r])
  BY DEF CardsOnward
<1> QED BY <1>1, <1>2 DEF CardOnward, Dated, PersonType

LEMMA EntryStays ==
    ASSUME ReadersInv, ReaderTypeOK', CardsOnward, SecretsOnward, seen \subseteq seen',
           NEW s \in Entries, entry[s].status # "none", EntryKept(entry[s], entry'[s]),
           entry'[s].status = "live" /\ entry[s].chat # NoChat
               => chat'[entry[s].of] = chat[entry[s].of]
    PROVE  EntrySound(s)'
<1>1. EntrySound(s) /\ ReaderTypeOK
  BY DEF ReadersInv, EntriesSound, EntriesFine
<1>2. PICK q \in Readers : q = entry[s].of
  BY <1>1 DEF EntrySound
<1>3. /\ entry[s] \in EntryRow /\ secret[q] \in SecretType /\ secret'[q] \in SecretType
      /\ SecretOnward(secret[q], secret'[q])
  BY DEF ReadersInv, ReaderTypeOK, SecretsOnward
<1>4. /\ entry[s].av \in Nat /\ entry[s].issue \in Nat
      /\ secret[q].ver \in Nat /\ secret'[q].ver \in Nat
  BY <1>3 DEF EntryRow, SecretType
<1>5. Dated(q, entry[s].av)'
  <2>1. Dated(q, entry[s].av)
    BY <1>1, <1>2 DEF EntrySound
  <2>2. PICK n \in Nat : n = entry[s].av
    BY <1>4
  <2>3. Dated(q, n)'
    BY <1>1, <2>1, <2>2, DatedStays
  <2>4. entry'[s].av = n
    BY <2>2 DEF EntryKept
  <2> QED BY <2>3, <2>4
<1>6. Exchanged(q, entry[s].issue)'
  <2>1. Exchanged(q, entry[s].issue) /\ entry'[s].issue = entry[s].issue
    BY <1>1, <1>2 DEF EntrySound, EntryKept
  <2> QED BY <1>3, <1>4, <2>1 DEF Exchanged, SecretOnward
<1>7. entry'[s].of = q /\ entry'[s].chat = entry[s].chat
  BY <1>2 DEF EntryKept
<1>8. entry'[s].status = "live" /\ entry'[s].chat # NoChat => OfBinding(s)'
  BY <1>1, <1>2, <1>7 DEF EntrySound, OfBinding, EntryKept
<1> QED BY <1>1, <1>5, <1>6, <1>7, <1>8 DEF EntrySound, EntryKept

LEMMA EntriesStay ==
    ASSUME ReadersInv, ReaderTypeOK', CardsOnward, SecretsOnward, seen \subseteq seen',
           NEW S, EntryRows(S), BindingsKept(S)
    PROVE  \A s \in Entries \ S :
               IF entry'[s].status = "none" THEN EntryBlank(s)' ELSE EntrySound(s)'
<1> SUFFICES ASSUME NEW s \in Entries \ S
             PROVE  IF entry'[s].status = "none" THEN EntryBlank(s)' ELSE EntrySound(s)'
  OBVIOUS
<1>1. EntryKept(entry[s], entry'[s])
  BY DEF EntryRows
<1>2. ASSUME entry'[s].status = "none" PROVE EntryBlank(s)'
  <2>1. EntryBlank(s)
    BY <1>1, <1>2 DEF EntryKept, ReadersInv, EntriesSound, EntriesFine
  <2> QED BY <1>1, <2>1 DEF EntryKept, EntryBlank
<1>3. ASSUME entry'[s].status # "none" PROVE EntrySound(s)'
  <2>1. entry[s].status # "none"
    BY <1>1, <1>3 DEF EntryKept
  <2>2. entry'[s].status = "live" /\ entry[s].chat # NoChat
               => chat'[entry[s].of] = chat[entry[s].of]
    BY DEF BindingsKept
  <2> QED BY <1>1, <2>1, <2>2, EntryStays
<1> QED BY <1>2, <1>3

LEMMA LiveRows ==
    ASSUME NEW r, NEW T \in SUBSET LiveOf(r)
    PROVE  /\ IsFiniteSet(T) /\ Cardinality(T) \in Nat /\ T \in SUBSET Entries
           /\ \A U \in SUBSET T : IsFiniteSet(U) /\ Cardinality(U) \in Nat
                                  /\ Cardinality(U) <= Cardinality(T)
<1>1. IsFiniteSet(Entries)
  BY ReaderBounds, FS_Interval DEF Entries
<1>2. T \in SUBSET Entries
  BY DEF LiveOf
<1>3. IsFiniteSet(T)
  BY <1>1, <1>2, FS_Subset
<1> QED BY <1>2, <1>3, FS_Subset, FS_CardinalityType

(* Pruning leaves the newest: the oldest it leaves has few newer ones.     *)
LEMMA FewLeft ==
    ASSUME NEW r, NEW T \in SUBSET LiveOf(r), NEW U \in SUBSET T, Surplus(T) \cap U = {}
    PROVE  Cardinality(U) <= KeptSessions
<1>0. KeptSessions \in Nat \ {0}
  BY ReaderBounds
<1>1. CASE U = {}
  BY <1>0, <1>1, FS_EmptySet
<1>2. CASE U # {}
  <2>1. U \in SUBSET Nat /\ T \in SUBSET Nat
    <3>1. T \in SUBSET Entries /\ Entries \in SUBSET Nat
      BY LiveRows, ReaderBounds DEF Entries
    <3> QED BY <3>1
  <2>2. PICK m \in U : \A y \in U : m <= y
    BY <1>2, <2>1, LeastOf
  <2> DEFINE N == {t \in T : t > m}
  <2>3. ~(Cardinality(N) >= KeptSessions)
    BY <2>2 DEF Surplus
  <2>4. N \in SUBSET T /\ U \ {m} \in SUBSET N
    BY <2>1, <2>2
  <2>5. IsFiniteSet(N) /\ Cardinality(N) \in Nat /\ IsFiniteSet(U) /\ Cardinality(U) \in Nat
    <3> HIDE DEF N
    <3> QED BY <2>4, LiveRows
  <2>6. Cardinality(U \ {m}) <= Cardinality(N)
    <3> HIDE DEF N
    <3> QED BY <2>4, <2>5, FS_Subset
  <2>7. Cardinality(U \ {m}) = Cardinality(U) - 1
    BY <2>2, <2>5, FS_RemoveElement
  <2> HIDE DEF N
  <2> QED BY <1>0, <2>3, <2>5, <2>6, <2>7
<1> QED BY <1>1, <1>2

LEMMA FewStay ==
    ASSUME ReadersInv, EntryRows({})
    PROVE  EntriesFew'
<1> SUFFICES ASSUME NEW r \in Readers
             PROVE  /\ (Cardinality(WebOf(r)) <= KeptSessions + 1)'
                    /\ (Cardinality(ChatOf(r)) <= KeptSessions + 1)'
  BY DEF EntriesFew
<1> DEFINE W == WebOf(r)'
           C == ChatOf(r)'
<1>1. W \in SUBSET WebOf(r) /\ C \in SUBSET ChatOf(r)
  BY DEF EntryRows, EntryKept, LiveOf, WebOf, ChatOf
<1>2. WebOf(r) \in SUBSET LiveOf(r) /\ ChatOf(r) \in SUBSET LiveOf(r)
  BY DEF WebOf, ChatOf
<1>3. Cardinality(WebOf(r)) <= KeptSessions + 1 /\ Cardinality(ChatOf(r)) <= KeptSessions + 1
  BY DEF ReadersInv, EntriesSound, EntriesFew
<1> HIDE DEF W, C
<1>4. /\ Cardinality(W) <= Cardinality(WebOf(r)) /\ Cardinality(C) <= Cardinality(ChatOf(r))
      /\ {Cardinality(W), Cardinality(C), Cardinality(WebOf(r)), Cardinality(ChatOf(r))} \subseteq Nat
  BY <1>1, <1>2, LiveRows
<1>5. Cardinality(W) <= KeptSessions + 1 /\ Cardinality(C) <= KeptSessions + 1
  BY <1>3, <1>4, ReaderBounds
<1> QED BY <1>5 DEF W, C

LEMMA GatePlanStays ==
    ASSUME ReadersInv, ReaderTypeOK', CardsOnward, NEW S, NEW T, GrantRows(S), PassRows(T),
           NEW p \in GatePlan, PlanSound(p)
    PROVE  PlanSound(p)'
<1>0. ReaderTypeOK
  BY DEF ReadersInv
<1>1. p.of \in Readers /\ p.av \in Nat
  BY DEF GatePlan
<1>2. PlanDated(p)'
  BY <1>0, <1>1, DatedStays DEF PlanSound, PlanDated
<1>3. ASSUME p.op \in {"setup", "redeem"} PROVE CardRead(p)'
  <2>1. CardRead(p) /\ p.ver \in Nat
    BY <1>3 DEF PlanSound, GatePlan
  <2>2. person[p.of] \in PersonType /\ person'[p.of] \in PersonType
    BY <1>0, <1>1 DEF ReaderTypeOK
  <2>3. CardOnward(person[p.of], person'[p.of])
    BY <1>1 DEF CardsOnward
  <2> QED BY <1>1, <2>1, <2>2, <2>3 DEF CardRead, CardOnward, PersonType
<1>4. ASSUME p.op = "setup" PROVE GrantRead(p)'
  <2>1. GrantRead(p) /\ p.grant \in Grants
    BY <1>4 DEF PlanSound, GatePlan
  <2>2. GrantKept(grant[p.grant], grant'[p.grant])
    BY <2>1 DEF GrantRead, GrantRows
  <2> QED BY <2>1, <2>2 DEF GrantRead, GrantKept
<1>5. ASSUME p.op \in {"redeem", "join"}
      PROVE  PassRead(p)' /\ pass'[p.pass].av = pass[p.pass].av
  <2>1. PassRead(p) /\ p.pass \in Passes
    BY <1>5 DEF PlanSound, GatePlan
  <2>2. PassKept(pass[p.pass], pass'[p.pass])
    BY <2>1 DEF PassRead, PassRows
  <2> QED BY <2>1, <2>2 DEF PassRead, PassKept
<1> QED BY <1>2, <1>3, <1>4, <1>5 DEF PlanSound

GatesOnward == \A d \in Gates : gate'[d] \in {gate[d], Shut} \/ PlanSound(gate[d])'

LEMMA GatesKeep ==
    ASSUME ReadersInv, ReaderTypeOK', CardsOnward, NEW S, NEW T, GrantRows(S), PassRows(T),
           GatesOnward
    PROVE  GatesFine'
<1> SUFFICES ASSUME NEW d \in Gates, gate'[d] # Shut PROVE PlanSound(gate[d])'
  BY DEF GatesFine
<1>1. CASE gate'[d] = gate[d]
  <2>1. PICK p \in GatePlan : p = gate[d]
    BY <1>1 DEF ReadersInv, ReaderTypeOK
  <2>2. PlanSound(p)
    BY <1>1, <2>1 DEF ReadersInv, GatesFine
  <2>3. PlanSound(p)'
    BY <2>2, GatePlanStays
  <2> QED BY <1>1, <2>1, <2>3
<1>2. CASE gate'[d] # gate[d]
  BY <1>2 DEF GatesOnward
<1> QED BY <1>1, <1>2

ChatsOnward ==
    \A r \in Readers : /\ chat'[r].of = chat[r].of
                       /\ chat'[r].status = "none" <=> chat[r].status = "none"

(* A step that creates no session, grant or pass.                          *)
LEMMA NothingNew ==
    ASSUME ReadersInv, ReaderTypeOK', CardsOnward, SecretsOnward, SecretsFine',
           GrantRows({}), PassRows({}), EntryRows({}), BindingsKept({}),
           ChatsOnward, seen \subseteq seen', GatesOnward
    PROVE  ReadersInv' /\ BarredStep
<1>1. GrantsFine' /\ PassesFine'
  BY GrantsKeep, PassesKeep
<1>2. EntriesFine'
  <2>1. \A s \in Entries \ {} :
               IF entry'[s].status = "none" THEN EntryBlank(s)' ELSE EntrySound(s)'
    BY EntriesStay
  <2> QED BY <2>1 DEF EntriesFine
<1>3. OneByIssue' /\ OneByStart'
  BY DEF EntryRows, EntryKept, ReadersInv, EntriesSound, OneByIssue, OneByStart
<1>4. EntriesFew' /\ GatesFine'
  BY FewStay, GatesKeep
<1>5. ChatsFine'
  <2>1. ChatsApart'
    BY DEF ReadersInv, ChatsFine, ChatsApart, ChatsOnward
  <2>2. BindingsReal'
    BY DEF ReadersInv, ChatsFine, BindingsReal, ChatsOnward
  <2> QED BY <2>1, <2>2 DEF ChatsFine
<1>6. BarredStep
  <2>1. \A s \in Entries : ~(entry[s].status = "none" /\ entry'[s].status = "live")
    BY DEF EntryRows, EntryKept
  <2>2. ASSUME NEW r \in Readers
        PROVE  \/ person'[r].av > person[r].av
               \/ /\ person[r].access = "blocked" => person'[r].access = "blocked"
                  /\ person'[r].on = person[r].on /\ person'[r].linked = person[r].linked
    BY DEF CardsOnward, CardOnward
  <2> QED BY <2>1, <2>2 DEF BarredStep
<1> QED BY <1>1, <1>2, <1>3, <1>4, <1>5, <1>6 DEF ReadersInv, RecordsSound, EntriesSound

-----------------------------------------------------------------------------
(* A new session *)

LEMMA NextEntryIsNew ==
    ASSUME NextEntry <= MaxEntry
    PROVE  NextEntry \in Entries /\ entry[NextEntry].status = "none"
<1> DEFINE T == {0} \cup {s \in Entries : entry[s].status # "none"}
<1>1. MaxEntry \in Nat /\ T \in SUBSET (0..MaxEntry) /\ T # {}
  BY ReaderBounds DEF Entries
<1>2. Max(T) \in 0..MaxEntry /\ \A y \in T : Max(T) >= y
  <2> HIDE DEF T
  <2> QED BY <1>1, LargestOf
<1>3. NextEntry = 1 + Max(T)
  BY DEF NextEntry
<1>4. NextEntry \in Entries /\ ~(Max(T) >= NextEntry)
  <2> HIDE DEF T
  <2> QED BY <1>1, <1>2, <1>3 DEF Entries
<1> QED BY <1>2, <1>4

(* What a batch that opens a session for r leaves behind *)
Opened(n, e, S) ==
    /\ entry[n].status = "none" /\ entry'[n] = e
    /\ EntryRows({n}) /\ \A s \in S : entry'[s].status = "revoked"
LEMMA Admitted ==
    ASSUME ReaderTypeOK, NEW r, NEW S \in SUBSET LiveOf(r), NEW e \in EntryRow, Admits(S, e)
    PROVE  entry' \in [Entries -> EntryRow] /\ \E n \in Entries : Opened(n, e, S)
<1>1. PICK n \in Entries : n = NextEntry /\ entry[n].status = "none"
  BY NextEntryIsNew DEF Admits
<1>2. S \in SUBSET Entries /\ \A s \in S : entry[s].status # "none"
  BY DEF LiveOf
<1> DEFINE less == EntriesLess(S)
<1>3. /\ less \in [Entries -> EntryRow] /\ \A s \in Entries : EntryKept(entry[s], less[s])
      /\ \A s \in Entries : s \in S => less[s].status = "revoked"
  BY <1>2, EntriesClosed
<1>4. entry' = [less EXCEPT ![n] = e]
  BY <1>1 DEF Admits
<1> HIDE DEF less
<1>5. /\ entry' \in [Entries -> EntryRow] /\ entry'[n] = e
      /\ \A s \in Entries \ {n} : entry'[s] = less[s]
  BY <1>3, <1>4
<1>6. EntryRows({n})
  BY <1>1, <1>3, <1>5 DEF EntryRows
<1> QED BY <1>1, <1>2, <1>3, <1>5, <1>6 DEF Opened

MakesRoom(r, e, S) ==
    /\ e.chat = NoChat => WebOf(r) \subseteq S \/ Surplus(WebOf(r)) \subseteq S
    /\ e.chat # NoChat => ChatOf(r) \subseteq S \/ Surplus(LiveOf(r)) \subseteq S

(* Whoever comes in is one more than those who were left. *)
LEMMA FewAdded ==
    ASSUME ReadersInv, NEW r \in Readers, NEW S \in SUBSET LiveOf(r), NEW e \in EntryRow,
           e.of = r, NEW n \in Entries, Opened(n, e, S), MakesRoom(r, e, S)
    PROVE  EntriesFew'
<1>0. KeptSessions \in Nat \ {0}
  BY ReaderBounds
<1> SUFFICES ASSUME NEW q \in Readers
             PROVE  /\ (Cardinality(WebOf(q)) <= KeptSessions + 1)'
                    /\ (Cardinality(ChatOf(q)) <= KeptSessions + 1)'
  BY DEF EntriesFew
<1>1. WebOf(q) \in SUBSET LiveOf(q) /\ ChatOf(q) \in SUBSET LiveOf(q)
  BY DEF WebOf, ChatOf
<1>2. Cardinality(WebOf(q)) <= KeptSessions + 1 /\ Cardinality(ChatOf(q)) <= KeptSessions + 1
  BY DEF ReadersInv, EntriesSound, EntriesFew
<1>3. \A s \in Entries \ {n} : entry'[s].status = "live" =>
          /\ entry[s].status = "live" /\ s \notin S
          /\ entry'[s].of = entry[s].of /\ entry'[s].chat = entry[s].chat
  BY DEF Opened, EntryRows, EntryKept
<1> DEFINE W == WebOf(q)' \ {n}
           C == ChatOf(q)' \ {n}
<1>4. W \in SUBSET (WebOf(q) \ S) /\ C \in SUBSET (ChatOf(q) \ S)
  BY <1>3 DEF WebOf, ChatOf, LiveOf
<1>5. ASSUME NEW T, T \in SUBSET Entries, T \ {n} \in SUBSET LiveOf(q)
      PROVE  Cardinality(T) \in Nat /\ Cardinality(T \ {n}) \in Nat
             /\ Cardinality(T) <= Cardinality(T \ {n}) + 1
             /\ (n \notin T => Cardinality(T) = Cardinality(T \ {n}))
  <2>1. IsFiniteSet(T \ {n}) /\ Cardinality(T \ {n}) \in Nat
    BY <1>5, LiveRows
  <2>2. CASE n \in T
    <3>1. T = (T \ {n}) \cup {n} /\ n \notin T \ {n}
      BY <2>2
    <3> DEFINE U == T \ {n}
    <3> HIDE DEF U
    <3>2. Cardinality(U \cup {n}) = Cardinality(U) + 1
      BY <2>1, <3>1, FS_AddElement DEF U
    <3> QED BY <2>1, <2>2, <3>1, <3>2 DEF U
  <2>3. CASE n \notin T
    <3>1. T = T \ {n}
      BY <2>3
    <3> QED BY <2>1, <3>1
  <2> QED BY <2>2, <2>3
<1>6. WebOf(q)' \in SUBSET Entries /\ ChatOf(q)' \in SUBSET Entries
  BY DEF WebOf, ChatOf, LiveOf
<1>7. Cardinality(W) <= Cardinality(WebOf(q)) /\ Cardinality(C) <= Cardinality(ChatOf(q))
      /\ {Cardinality(W), Cardinality(C), Cardinality(WebOf(q)), Cardinality(ChatOf(q))} \subseteq Nat
  <2> HIDE DEF W, C
  <2>1. W \in SUBSET WebOf(q) /\ C \in SUBSET ChatOf(q)
    BY <1>4
  <2> QED BY <1>1, <2>1, LiveRows
<1>8. (Cardinality(WebOf(q)) <= KeptSessions + 1)'
  <2> DEFINE T == WebOf(q)'
  <2>1. CASE n \in T
    <3>1. q = r /\ e.chat = NoChat
      BY <2>1 DEF Opened, WebOf, LiveOf
    <3>2. WebOf(r) \subseteq S \/ Surplus(WebOf(r)) \subseteq S
      BY <3>1 DEF MakesRoom
    <3>4. W \in SUBSET LiveOf(q) /\ W \in SUBSET WebOf(q) /\ W \cap S = {}
      BY <1>1, <1>4
    <3>5. Cardinality(W) <= KeptSessions
      <4>1. CASE WebOf(r) \subseteq S
        <5>1. W = {}
          BY <1>4, <3>1, <4>1
        <5> QED BY <1>0, <5>1, FS_EmptySet
      <4>2. CASE Surplus(WebOf(r)) \subseteq S
        <5>1. Surplus(WebOf(q)) \cap W = {}
          BY <3>1, <3>4, <4>2
        <5> HIDE DEF W
        <5> QED BY <1>1, <3>4, <5>1, FewLeft
      <4> QED BY <3>2, <4>1, <4>2
    <3>6. Cardinality(T) <= Cardinality(W) + 1 /\ {Cardinality(T), Cardinality(W)} \subseteq Nat
      <4>1. T \ {n} = W /\ T \in SUBSET Entries
        BY <1>6
      <4> HIDE DEF T, W
      <4> QED BY <4>1, <3>4, <1>5
    <3> HIDE DEF T, W
    <3>7. Cardinality(T) <= KeptSessions + 1
      BY <1>0, <3>5, <3>6
    <3> QED BY <3>7 DEF T
  <2>2. CASE n \notin T
    <3>1. T = W
      BY <2>2
    <3>2. Cardinality(W) <= KeptSessions + 1
      <4> HIDE DEF W
      <4> QED BY <1>0, <1>2, <1>7
    <3> QED BY <3>1, <3>2
  <2> QED BY <2>1, <2>2
<1>9. (Cardinality(ChatOf(q)) <= KeptSessions + 1)'
  <2> DEFINE T == ChatOf(q)'
  <2>1. CASE n \in T
    <3>1. q = r /\ e.chat # NoChat
      BY <2>1 DEF Opened, ChatOf, WebOf, LiveOf
    <3>2. ChatOf(r) \subseteq S \/ Surplus(LiveOf(r)) \subseteq S
      BY <3>1 DEF MakesRoom
    <3>4. C \in SUBSET LiveOf(q) /\ C \cap S = {}
      BY <1>1, <1>4
    <3>5. Cardinality(C) <= KeptSessions
      <4>1. CASE ChatOf(r) \subseteq S
        <5>1. C = {}
          BY <1>4, <3>1, <4>1
        <5> QED BY <1>0, <5>1, FS_EmptySet
      <4>2. CASE Surplus(LiveOf(r)) \subseteq S
        <5>1. Surplus(LiveOf(q)) \cap C = {} /\ LiveOf(q) \in SUBSET LiveOf(q)
          BY <3>1, <3>4, <4>2
        <5> HIDE DEF C
        <5> QED BY <3>4, <5>1, FewLeft
      <4> QED BY <3>2, <4>1, <4>2
    <3>6. Cardinality(T) <= Cardinality(C) + 1 /\ {Cardinality(T), Cardinality(C)} \subseteq Nat
      <4>1. T \ {n} = C /\ T \in SUBSET Entries
        BY <1>6
      <4> HIDE DEF T, C
      <4> QED BY <4>1, <3>4, <1>5
    <3> HIDE DEF T, C
    <3>7. Cardinality(T) <= KeptSessions + 1
      BY <1>0, <3>5, <3>6
    <3> QED BY <3>7 DEF T
  <2>2. CASE n \notin T
    <3>1. T = C
      BY <2>2
    <3>2. Cardinality(C) <= KeptSessions + 1
      <4> HIDE DEF C
      <4> QED BY <1>0, <1>2, <1>7
    <3> QED BY <3>1, <3>2
  <2> QED BY <2>1, <2>2
<1> QED BY <1>8, <1>9

(* A session is opened, the grants and passes it was opened with end, and  *)
(* no other row is new.                                                    *)
EntryDue(r, e) ==
    /\ e.of = r /\ e.status = "live"
    /\ Dated(r, e.av)' /\ Exchanged(r, e.issue)'
    /\ e.chat = NoChat => e.code = e.cv
    /\ e.start = NoStart \/ (e.start \notin seen /\ e.start \in seen')
    /\ e.chat # NoChat => chat'[r] = [status |-> "active", of |-> e.chat, ver |-> e.chatVer]
    /\ person' # person => e.av = person'[r].av
IssueDue(r, e) ==
    \/ e.issue = 0
    \/ /\ \A s \in Entries : entry[s].of = r => entry[s].issue # e.issue
       /\ \A i \in Passes : pass[i].of = r /\ pass[i].for = "web" => pass'[i].status # "open"

LEMMA SomebodyIn ==
    ASSUME ReadersInv, ReaderTypeOK', CardsOnward, SecretsOnward, SecretsFine',
           GrantRows({}), PassRows({}), seen \subseteq seen', GatesOnward, ChatsFine',
           NEW r \in Readers, NEW S \in SUBSET LiveOf(r), NEW e \in EntryRow, Admits(S, e),
           EntryDue(r, e), IssueDue(r, e), MakesRoom(r, e, S),
           \A q \in Readers \ {r} : chat'[q] = chat[q],
           chat'[r] = chat[r] \/ ChatOf(r) \subseteq S
    PROVE  ReadersInv' /\ BarredStep
<1>0. ReaderTypeOK
  BY DEF ReadersInv
<1>1. PICK n \in Entries : Opened(n, e, S)
  BY <1>0, Admitted
<1>2. entry[n].status = "none" /\ entry'[n] = e /\ EntryRows({n})
      /\ \A s \in S : entry'[s].status = "revoked"
  BY <1>1 DEF Opened
<1>3. GrantsFine'
  BY GrantsKeep
<1>4. BindingsKept({n})
  <2> SUFFICES ASSUME NEW s \in Entries \ {n}, entry'[s].status = "live",
                      entry[s].chat # NoChat
               PROVE  chat'[entry[s].of] = chat[entry[s].of]
    BY DEF BindingsKept
  <2>1. entry[s].status = "live" /\ s \notin S
    BY <1>2 DEF EntryRows, EntryKept
  <2>2. entry[s].of \in Readers
    BY <2>1 DEF ReadersInv, EntriesSound, EntriesFine, EntrySound
  <2>3. entry[s].of = r => s \in ChatOf(r)
    BY <2>1 DEF ChatOf, WebOf, LiveOf
  <2> QED BY <2>1, <2>2, <2>3
<1>5. \A s \in Entries \ {n} :
               IF entry'[s].status = "none" THEN EntryBlank(s)' ELSE EntrySound(s)'
  BY <1>2, <1>4, EntriesStay
<1>6. EntrySound(n)'
  <2>1. e.status = "live" /\ e.chat # NoChat => OfBinding(n)'
    BY <1>2 DEF EntryDue, OfBinding
  <2> QED BY <1>2, <2>1 DEF EntryDue, EntrySound
<1>7. EntriesFine'
  <2>1. entry'[n].status # "none"
    BY <1>2 DEF EntryDue
  <2> QED BY <1>5, <1>6, <2>1 DEF EntriesFine
<1>8. \A s \in Entries \ {n} : /\ entry'[s].of = entry[s].of /\ entry'[s].issue = entry[s].issue
                               /\ entry'[s].start = entry[s].start
  BY <1>2 DEF EntryRows, EntryKept
<1>9. e.of = r /\ (e.start = NoStart \/ (e.start \notin seen /\ e.start \in seen'))
  BY DEF EntryDue
<1>10. OneByIssue'
  <2>1. \A s, t \in Entries \ {n} : s # t /\ entry'[s].of = entry'[t].of =>
            entry'[s].issue = 0 \/ entry'[s].issue # entry'[t].issue
    BY <1>8 DEF ReadersInv, EntriesSound, OneByIssue
  <2>2. \A s \in Entries \ {n} : entry'[s].of = r => e.issue = 0 \/ entry'[s].issue # e.issue
    BY <1>8 DEF IssueDue
  <2> QED BY <1>2, <1>9, <2>1, <2>2 DEF OneByIssue
<1>11. OneByStart'
  <2>1. \A s, t \in Entries \ {n} : s # t => entry'[s].start = NoStart
                                             \/ entry'[s].start # entry'[t].start
    BY <1>8 DEF ReadersInv, EntriesSound, OneByStart
  <2>2. ASSUME NEW s \in Entries \ {n}, e.start # NoStart PROVE entry'[s].start # e.start
    <3>1. entry[s].start \in seen \cup {NoStart}
      BY DEF ReadersInv, EntriesSound, EntriesFine, EntryBlank, EntrySound
    <3> QED BY <1>8, <1>9, <2>2, <3>1
  <2> QED BY <1>2, <2>1, <2>2 DEF OneByStart
<1>12. PassesFine'
  <2>1. \A i \in Passes : PassKept(pass[i], pass'[i])
    BY DEF PassRows
  <2> SUFFICES ASSUME NEW i \in Passes, pass'[i].status # "none" PROVE PassSound(i)'
    BY DEF PassesFine
  <2>2. pass[i].status # "none"
    BY <2>1 DEF PassKept
  <2>3. ASSUME pass[i].issue > 0, pass'[i].status = "open", IssueUnused(i) PROVE IssueUnused(i)'
    <3>1. pass'[i].of = pass[i].of /\ pass'[i].issue = pass[i].issue
      BY <2>1 DEF PassKept
    <3>2. pass[i].for = "web" /\ pass[i].issue # 0
      <4>1. PassSound(i) /\ pass[i].issue \in Nat
        BY <1>0, <2>2 DEF ReadersInv, RecordsSound, PassesFine, ReaderTypeOK, PassType
      <4> QED BY <2>3, <4>1 DEF PassSound
    <3>3. pass[i].of = r => e.issue = 0
      BY <2>3, <3>2 DEF IssueDue
    <3>4. ASSUME NEW s \in Entries \ {n}, entry'[s].of = pass'[i].of
          PROVE  entry'[s].issue # pass'[i].issue
      BY <1>8, <2>3, <3>1, <3>4 DEF IssueUnused
    <3>5. entry'[n].of = pass'[i].of => entry'[n].issue # pass'[i].issue
      BY <1>2, <1>9, <3>1, <3>2, <3>3
    <3> QED BY <3>4, <3>5 DEF IssueUnused
  <2> QED BY <2>1, <2>2, <2>3, PassStays
<1>13. EntriesFew'
  BY <1>1, <1>9, FewAdded
<1>14. GatesFine'
  BY GatesKeep
<1>15. BarredStep
  <2>1. ASSUME NEW s \in Entries, entry[s].status = "none", entry'[s].status = "live",
               person' # person
        PROVE  entry'[s].av = person'[(entry'[s].of)].av
    <3>1. s = n
      BY <1>2, <2>1 DEF EntryRows, EntryKept
    <3> QED BY <1>2, <2>1, <3>1 DEF EntryDue
  <2>2. ASSUME NEW q \in Readers
        PROVE  \/ person'[q].av > person[q].av
               \/ /\ person[q].access = "blocked" => person'[q].access = "blocked"
                  /\ person'[q].on = person[q].on /\ person'[q].linked = person[q].linked
    BY DEF CardsOnward, CardOnward
  <2> QED BY <2>1, <2>2 DEF BarredStep
<1> QED BY <1>3, <1>7, <1>10, <1>11, <1>12, <1>13, <1>14, <1>15
        DEF ReadersInv, RecordsSound, EntriesSound

-----------------------------------------------------------------------------
(* The handlers at the gates *)

LEMMA ReaderStart == ReaderInit => ReadersInv
<1> SUFFICES ASSUME ReaderInit PROVE ReadersInv
  OBVIOUS
<1>1. ReaderTypeOK
  <2>1. person \in [Readers -> PersonType] /\ secret \in [Readers -> SecretType]
    BY DEF ReaderInit, PersonType, SecretType
  <2>2. /\ grant \in [Grants -> GrantType] /\ pass \in [Passes -> PassType]
        /\ chat \in [Readers -> ChatType] /\ entry \in [Entries -> EntryRow]
        /\ seen \in SUBSET AppStarts /\ gate \in [Gates -> GatePlan \cup {Shut}]
    BY DEF ReaderInit, GrantType, PassType, ChatType, EntryRow
  <2> QED BY <2>1, <2>2 DEF ReaderTypeOK
<1>2. RecordsSound
  BY DEF ReaderInit, RecordsSound, SecretsFine, GrantsFine, PassesFine
<1>3. EntriesFine /\ OneByIssue /\ OneByStart
  BY DEF ReaderInit, EntriesFine, EntryBlank, OneByIssue, OneByStart
<1>4. EntriesFew
  <2>1. \A r \in Readers : WebOf(r) = {} /\ ChatOf(r) = {}
    BY DEF ReaderInit, WebOf, ChatOf, LiveOf
  <2> QED BY <2>1, FS_EmptySet, ReaderBounds DEF EntriesFew
<1>5. ChatsFine /\ GatesFine
  BY DEF ReaderInit, ChatsFine, BindingsReal, ChatsApart, GatesFine
<1> QED BY <1>1, <1>2, <1>3, <1>4, <1>5 DEF ReadersInv, EntriesSound

LEMMA WaitsKeeps ==
    ASSUME ReadersInv, NEW d \in Gates, NEW p \in GatePlan, Waits(d, p), PlanSound(p)
    PROVE  ReadersInv' /\ BarredStep
<1>0. ReaderTypeOK /\ gate \in [Gates -> GatePlan \cup {Shut}]
  BY DEF ReadersInv, ReaderTypeOK
<1>1. UNCHANGED <<person, secret, grant, pass, chat, entry, seen>>
      /\ gate' = [gate EXCEPT ![d] = p]
  BY DEF Waits
<1>2. gate' \in [Gates -> GatePlan \cup {Shut}] /\ gate'[d] = p
      /\ \A c \in Gates \ {d} : gate'[c] = gate[c]
  BY <1>0, <1>1
<1>3. ReaderTypeOK'
  BY <1>0, <1>1, <1>2 DEF ReaderTypeOK
<1>4. GrantRows({}) /\ PassRows({}) /\ EntryRows({}) /\ CardsOnward /\ SecretsOnward /\ SecretsFine'
  BY <1>0, <1>1, GateRowsSame, CardsSame, SecretsSame
<1>5. PlanSound(p)'
  BY <1>3, <1>4, GatePlanStays
<1>6. GatesOnward
  BY <1>2, <1>5 DEF GatesOnward
<1> QED BY <1>1, <1>3, <1>4, <1>6, NothingNew DEF BindingsKept, ChatsOnward

LEMMA PlanPinKeeps ==
    ASSUME ReadersInv, NEW d \in Gates, NEW r \in Readers, PlanPin(d, r)
    PROVE  ReadersInv' /\ BarredStep
<1>1. person[r] \in PersonType /\ secret[r] \in SecretType
  BY DEF ReadersInv, ReaderTypeOK
<1> DEFINE p == [op |-> IF secret[r].must THEN "temp" ELSE "pin", of |-> r,
                 cv |-> secret[r].ver, code |-> secret[r].code, av |-> person[r].av]
<1>2. p \in GatePlan
  BY <1>1 DEF GatePlan, PersonType, SecretType
<1>3. ~person[r].linked /\ secret[r].code > 0 /\ Waits(d, p)
  BY DEF PlanPin, Pupil, MayEnter, CodeLive
<1>4. PlanSound(p)
  BY <1>1, <1>3 DEF PlanSound, PlanDated, Dated, PersonType
<1> HIDE DEF p
<1> QED BY <1>2, <1>3, <1>4, WaitsKeeps

LEMMA PlanSetupKeeps ==
    ASSUME ReadersInv, NEW d \in Gates, NEW g \in Grants, PlanSetup(d, g)
    PROVE  ReadersInv' /\ BarredStep
<1>1. grant[g].status = "open" /\ GrantSound(g)
  BY DEF PlanSetup, ReadersInv, RecordsSound, GrantsFine
<1>2. PICK r \in Readers : r = grant[g].of
  BY <1>1 DEF GrantSound
<1>3. person[r] \in PersonType /\ secret[r] \in SecretType
  BY DEF ReadersInv, ReaderTypeOK
<1> DEFINE p == [op |-> "setup", of |-> r, cv |-> secret[r].ver, av |-> person[r].av,
                 ver |-> person[r].ver, grant |-> g]
<1>4. p \in GatePlan
  BY <1>3 DEF GatePlan, PersonType, SecretType
<1>5. ~person[r].linked /\ grant[g].cv = secret[r].ver /\ Waits(d, p)
  BY <1>2 DEF PlanSetup, Pupil, MayEnter, SecretAsRead
<1>6. PlanSound(p)
  BY <1>1, <1>2, <1>3, <1>5 DEF PlanSound, PlanDated, Dated, CardRead, GrantRead, PersonType
<1> HIDE DEF p
<1> QED BY <1>4, <1>5, <1>6, WaitsKeeps

LEMMA PassOwner ==
    ASSUME ReadersInv, NEW i \in Passes, pass[i].status = "open"
    PROVE  /\ pass[i].of \in Readers /\ person[pass[i].of] \in PersonType
           /\ secret[pass[i].of] \in SecretType
BY DEF ReadersInv, ReaderTypeOK, RecordsSound, PassesFine, PassSound

LEMMA PlanRedeemKeeps ==
    ASSUME ReadersInv, NEW d \in Gates, NEW i \in Passes, PlanRedeem(d, i)
    PROVE  ReadersInv' /\ BarredStep
<1>1. PICK r \in Readers : r = pass[i].of
  BY PassOwner DEF PlanRedeem
<1>2. person[r] \in PersonType /\ secret[r] \in SecretType
  BY DEF ReadersInv, ReaderTypeOK
<1> DEFINE p == [op |-> "redeem", of |-> r, cv |-> secret[r].ver, av |-> person[r].av,
                 ver |-> person[r].ver, pass |-> i]
<1>3. p \in GatePlan
  BY <1>2 DEF GatePlan, PersonType, SecretType
<1>4. ~person[r].linked /\ pass[i].status = "open" /\ Waits(d, p)
  BY <1>1 DEF PlanRedeem, Pupil, MayEnter
<1>5. PlanSound(p)
  BY <1>1, <1>2, <1>4 DEF PlanSound, PlanDated, Dated, CardRead, PassRead, PersonType
<1> HIDE DEF p
<1> QED BY <1>3, <1>4, <1>5, WaitsKeeps

LEMMA PlanJoinKeeps ==
    ASSUME ReadersInv, NEW d \in Gates, NEW i \in Passes, NEW c \in Chats, NEW a \in AppStarts,
           PlanJoin(d, i, c, a)
    PROVE  ReadersInv' /\ BarredStep
<1>1. PICK r \in Readers : r = pass[i].of
  BY PassOwner DEF PlanJoin
<1>2. person[r] \in PersonType
  BY DEF ReadersInv, ReaderTypeOK
<1> DEFINE p == [op |-> "join", of |-> r, av |-> person[r].av, pass |-> i, chat |-> c,
                 start |-> a]
<1>3. p \in GatePlan
  BY <1>2 DEF GatePlan, PersonType
<1>4. /\ ~person[r].linked /\ pass[i].status = "open" /\ pass[i].av = person[r].av
      /\ Waits(d, p)
  BY <1>1 DEF PlanJoin, MayEnter
<1>5. PlanSound(p)
  BY <1>1, <1>2, <1>4 DEF PlanSound, PlanDated, Dated, PassRead, PersonType
<1> HIDE DEF p
<1> QED BY <1>3, <1>4, <1>5, WaitsKeeps

LEMMA PlanLaunchKeeps ==
    ASSUME ReadersInv, NEW d \in Gates, NEW r \in Readers, NEW a \in AppStarts, PlanLaunch(d, r, a)
    PROVE  ReadersInv' /\ BarredStep
<1>1. person[r] \in PersonType /\ chat[r] \in ChatType
  BY DEF ReadersInv, ReaderTypeOK
<1> DEFINE p == [op |-> "open", of |-> r, av |-> person[r].av, chatVer |-> chat[r].ver,
                 chat |-> chat[r].of, start |-> a]
<1>2. chat[r].of \in Chats
  BY DEF PlanLaunch, ReadersInv, ChatsFine, BindingsReal
<1>3. p \in GatePlan
  BY <1>1, <1>2 DEF GatePlan, PersonType, ChatType
<1>4. ~person[r].linked /\ Waits(d, p)
  BY DEF PlanLaunch, MayEnter
<1>5. PlanSound(p)
  BY <1>1, <1>4 DEF PlanSound, PlanDated, Dated, PersonType
<1> HIDE DEF p
<1> QED BY <1>3, <1>4, <1>5, WaitsKeeps

LEMMA PlanBindKeeps ==
    ASSUME ReadersInv, NEW d \in Gates, NEW r \in Readers, NEW c \in Chats, NEW a \in AppStarts,
           PlanBind(d, r, c, a)
    PROVE  ReadersInv' /\ BarredStep
<1>1. person[r] \in PersonType /\ secret[r] \in SecretType
  BY DEF ReadersInv, ReaderTypeOK
<1> DEFINE p == [op |-> "bind", of |-> r, cv |-> secret[r].ver, code |-> secret[r].code,
                 must |-> secret[r].must, av |-> person[r].av, ver |-> person[r].ver,
                 chat |-> c, start |-> a]
<1>2. p \in GatePlan
  BY <1>1 DEF GatePlan, PersonType, SecretType
<1>3. ~person[r].linked /\ secret[r].code > 0 /\ Waits(d, p)
  BY DEF PlanBind, Pupil, MayEnter, CodeLive
<1>4. PlanSound(p)
  BY <1>1, <1>3 DEF PlanSound, PlanDated, Dated, PersonType
<1> HIDE DEF p
<1> QED BY <1>2, <1>3, <1>4, WaitsKeeps

(* A handler ends: its plan was sound and it forgets it.                   *)
LEMMA PassingPlan ==
    ASSUME ReadersInv, NEW d \in Gates, NEW op, Passing(d, op)
    PROVE  /\ gate[d] \in GatePlan /\ gate[d].op = op /\ PlanSound(gate[d])
           /\ gate' \in [Gates -> GatePlan \cup {Shut}] /\ GatesOnward
<1>1. gate \in [Gates -> GatePlan \cup {Shut}]
  BY DEF ReadersInv, ReaderTypeOK
<1> QED BY <1>1 DEF Passing, GatesOnward, ReadersInv, GatesFine

LEMMA DismissedKeeps ==
    ASSUME ReadersInv, NEW d \in Gates, Dismissed(d)
    PROVE  ReadersInv' /\ BarredStep
<1>0. ReaderTypeOK /\ gate \in [Gates -> GatePlan \cup {Shut}]
  BY DEF ReadersInv, ReaderTypeOK
<1>1. UNCHANGED <<person, secret, grant, pass, chat, entry, seen>>
      /\ gate' = [gate EXCEPT ![d] = Shut]
  BY DEF Dismissed
<1>2. ReaderTypeOK' /\ GatesOnward
  BY <1>0, <1>1 DEF ReaderTypeOK, GatesOnward
<1>3. GrantRows({}) /\ PassRows({}) /\ EntryRows({}) /\ CardsOnward /\ SecretsOnward /\ SecretsFine'
  BY <1>0, <1>1, GateRowsSame, CardsSame, SecretsSame
<1> QED BY <1>1, <1>2, <1>3, NothingNew DEF BindingsKept, ChatsOnward

(* beginReaderSignIn *)
LEMMA CommitPinKeeps ==
    ASSUME ReadersInv, NEW d \in Gates, CommitPin(d)
    PROVE  ReadersInv' /\ BarredStep
<1>0. ReaderTypeOK
  BY DEF ReadersInv
<1>1. PICK p \in GatePlan : p = gate[d] /\ p.op = "pin" /\ PlanSound(p)
  BY PassingPlan DEF CommitPin
<1>2. gate' \in [Gates -> GatePlan \cup {Shut}] /\ GatesOnward
  BY PassingPlan DEF CommitPin
<1>3. /\ p.of \in Readers /\ p.av \in Nat /\ p.cv \in Nat /\ p.code \in Nat
  BY <1>1 DEF GatePlan
<1>4. PICK r \in Readers : r = p.of
  BY <1>3
<1> DEFINE e == WebEntry(r, p.av, p.cv, p.code, 0)
           S == Surplus(WebOf(r))
<1>5. /\ secret[r].ver = p.cv /\ secret[r].code = p.code
      /\ secret[r].status = "active" /\ ~secret[r].must
      /\ Admits(S, e) /\ UNCHANGED <<person, secret, grant, pass, chat, seen>>
  BY <1>1, <1>4 DEF CommitPin, SecretAsRead
<1>6. e \in EntryRow /\ S \in SUBSET LiveOf(r)
  BY <1>3, ReaderValues DEF EntryRow, WebEntry, Surplus, WebOf
<1>7. p.code = p.cv
  BY <1>5 DEF ReadersInv, RecordsSound, SecretsFine
<1>8. EntryDue(r, e)
  <2>1. Dated(r, p.av)'
    BY <1>1, <1>4, <1>5 DEF PlanSound, PlanDated, Dated
  <2> QED BY <1>5, <1>7, <2>1 DEF EntryDue, WebEntry, Exchanged
<1>9. IssueDue(r, e) /\ MakesRoom(r, e, S)
  BY DEF IssueDue, MakesRoom, WebEntry
<1> HIDE DEF e, S
<1>10. entry' \in [Entries -> EntryRow]
  BY <1>0, <1>5, <1>6, Admitted
<1>11. ReaderTypeOK'
  BY <1>0, <1>2, <1>5, <1>10 DEF ReaderTypeOK
<1>12. GrantRows({}) /\ PassRows({}) /\ CardsOnward /\ SecretsOnward /\ SecretsFine'
  BY <1>0, <1>5, GateRowsSame, CardsSame, SecretsSame
<1>13. ChatsFine'
  BY <1>5 DEF ReadersInv, ChatsFine, ChatsApart, BindingsReal
<1> QED BY <1>2, <1>5, <1>6, <1>8, <1>9, <1>11, <1>12, <1>13, SomebodyIn

LEMMA NextGrantIsNew ==
    ASSUME NextGrant <= MaxGrant
    PROVE  NextGrant \in Grants /\ grant[NextGrant].status = "none"
<1> DEFINE T == {0} \cup {g \in Grants : grant[g].status # "none"}
<1>1. MaxGrant \in Nat /\ T \in SUBSET (0..MaxGrant) /\ T # {}
  BY ReaderBounds DEF Grants
<1>2. Max(T) \in 0..MaxGrant /\ \A y \in T : Max(T) >= y
  <2> HIDE DEF T
  <2> QED BY <1>1, LargestOf
<1>3. NextGrant = 1 + Max(T)
  BY DEF NextGrant
<1>4. NextGrant \in Grants /\ ~(Max(T) >= NextGrant)
  <2> HIDE DEF T
  <2> QED BY <1>1, <1>2, <1>3 DEF Grants
<1> QED BY <1>2, <1>4

LEMMA CommitTempKeeps ==
    ASSUME ReadersInv, NEW d \in Gates, CommitTemp(d)
    PROVE  ReadersInv' /\ BarredStep
<1>0. ReaderTypeOK
  BY DEF ReadersInv
<1>1. PICK p \in GatePlan : p = gate[d] /\ p.op = "temp" /\ PlanSound(p)
  BY PassingPlan DEF CommitTemp
<1>2. gate' \in [Gates -> GatePlan \cup {Shut}] /\ GatesOnward
  BY PassingPlan DEF CommitTemp
<1>3. p.of \in Readers /\ p.cv \in Nat /\ p.code \in Nat /\ p.code > 0
  BY <1>1 DEF GatePlan, PlanSound
<1>4. PICK r \in Readers : r = p.of
  BY <1>3
<1>5. PICK n \in Grants : n = NextGrant /\ grant[n].status = "none"
  BY NextGrantIsNew DEF CommitTemp
<1> DEFINE g0 == [status |-> "open", of |-> r, cv |-> p.cv, issue |-> p.code]
           c == [secret[r] EXCEPT !.code = 0, !.open = FALSE]
           less == GrantsLess(OpenGrants(r))
<1>6. /\ secret[r].ver = p.cv /\ secret[r].code = p.code
      /\ secret[r].status = "active" /\ secret[r].must
      /\ secret' = [secret EXCEPT ![r].code = 0, ![r].open = FALSE]
      /\ grant' = [less EXCEPT ![n] = g0]
      /\ UNCHANGED <<person, pass, chat, entry, seen>>
  BY <1>1, <1>4, <1>5 DEF CommitTemp, SecretAsRead, CodeThere
<1>7. secret[r] \in SecretType
  BY <1>0 DEF ReaderTypeOK
<1>8. c \in SecretType /\ c.ver = secret[r].ver /\ c.code = 0 /\ c.must = secret[r].must
  BY <1>7 DEF SecretType
<1>9. secret' = [secret EXCEPT ![r] = c]
  BY <1>0, <1>6 DEF ReaderTypeOK
<1> HIDE DEF c
<1>10. SecretOnward(secret[r], c) /\ SecretFine(c)
  BY <1>6, <1>7, <1>8 DEF SecretOnward, SecretFine, SecretType
<1>11. /\ SecretsOnward /\ SecretsFine' /\ secret' \in [Readers -> SecretType]
       /\ secret'[r].ver = p.cv /\ secret'[r].code = 0
  BY <1>6, <1>8, <1>9, <1>10, SecretWritten
<1>12. /\ less \in [Grants -> GrantType] /\ \A g \in Grants : GrantKept(grant[g], less[g])
       /\ \A g \in OpenGrants(r) : less[g].status = "closed"
  BY <1>0, GrantsClosed DEF OpenGrants
<1>13. g0 \in GrantType /\ g0.of = r /\ g0.cv = p.cv /\ g0.issue = p.code /\ g0.status = "open"
  BY <1>3 DEF GrantType
<1> HIDE DEF less, g0
<1>14. /\ grant' \in [Grants -> GrantType] /\ grant'[n] = g0
       /\ \A g \in Grants \ {n} : grant'[g] = less[g]
  BY <1>6, <1>12, <1>13
<1>15. GrantRows({n}) /\ PassRows({}) /\ EntryRows({}) /\ CardsOnward
  <2>1. GrantRows({n})
    BY <1>5, <1>12, <1>14 DEF GrantRows
  <2> QED BY <1>0, <1>6, <2>1, GateRowsSame, CardsSame
<1>16. ReaderTypeOK'
  BY <1>0, <1>2, <1>6, <1>11, <1>14 DEF ReaderTypeOK
<1>17. GrantsFine'
  <2>1. GrantSound(n)'
    <3>1. p.code = p.cv
      BY <1>3, <1>6 DEF ReadersInv, RecordsSound, SecretsFine
    <3> QED BY <1>3, <1>11, <1>13, <1>14, <3>1 DEF GrantSound
  <2>2. ASSUME NEW g \in Grants \ {n}, grant'[g].status # "none" PROVE GrantSound(g)'
    <3>1. GrantKept(grant[g], grant'[g]) /\ grant[g].status # "none"
      BY <1>12, <1>14, <2>2 DEF GrantKept
    <3> QED BY <1>11, <1>16, <3>1, GrantStays
  <2>3. ASSUME NEW g \in Grants \ {n}, grant'[g].status = "open"
        PROVE  grant'[g].of = grant[g].of /\ grant[g].status = "open" /\ grant[g].of # r
    <3>1. GrantKept(grant[g], grant'[g]) /\ g \notin OpenGrants(r)
      BY <1>12, <1>14, <2>3
    <3> QED BY <2>3, <3>1 DEF GrantKept, OpenGrants
  <2>4. \A g, h \in Grants : /\ grant'[g].status = "open" /\ grant'[h].status = "open"
                             /\ grant'[g].of = grant'[h].of
                             => g = h
    <3>1. \A g, h \in Grants \ {n} : /\ grant'[g].status = "open" /\ grant'[h].status = "open"
                                     /\ grant'[g].of = grant'[h].of
                                     => g = h
      BY <2>3 DEF ReadersInv, RecordsSound, GrantsFine
    <3> QED BY <1>13, <1>14, <2>3, <3>1
  <2> QED BY <2>1, <2>2, <2>4 DEF GrantsFine
<1>18. PassesFine'
  BY <1>11, <1>15, <1>16, PassesKeep
<1>19. EntriesFine'
  <2>1. BindingsKept({})
    BY <1>6 DEF BindingsKept
  <2>2. \A s \in Entries \ {} :
               IF entry'[s].status = "none" THEN EntryBlank(s)' ELSE EntrySound(s)'
    BY <1>6, <1>11, <1>15, <1>16, <2>1, EntriesStay
  <2> QED BY <2>2 DEF EntriesFine
<1>20. OneByIssue' /\ OneByStart' /\ EntriesFew'
  BY <1>6, <1>15, FewStay DEF ReadersInv, EntriesSound, OneByIssue, OneByStart
<1>21. ChatsFine'
  BY <1>6 DEF ReadersInv, ChatsFine, ChatsApart, BindingsReal
<1>22. GatesFine'
  BY <1>2, <1>15, <1>16, GatesKeep
<1>23. BarredStep
  BY <1>6 DEF BarredStep
<1> QED BY <1>11, <1>16, <1>17, <1>18, <1>19, <1>20, <1>21, <1>22, <1>23
        DEF ReadersInv, RecordsSound, EntriesSound

LEMMA PinChosen ==
    ASSUME ReadersInv, NEW r \in Readers, secret' = [secret EXCEPT ![r] = ChosenPin(r)]
    PROVE  /\ SecretsOnward /\ SecretsFine' /\ secret' \in [Readers -> SecretType]
           /\ secret'[r].ver = secret[r].ver + 1 /\ secret[r].ver \in Nat
           /\ secret[r].code \in {0, secret[r].ver}
<1>1. secret[r] \in SecretType /\ secret[r].code \in {0, secret[r].ver}
  BY DEF ReadersInv, ReaderTypeOK, RecordsSound, SecretsFine
<1> DEFINE c == ChosenPin(r)
<1>2. c \in SecretType /\ c.ver = secret[r].ver + 1 /\ c.code = c.ver /\ secret[r].ver \in Nat
  BY <1>1 DEF SecretType, ChosenPin
<1>3. secret' = [secret EXCEPT ![r] = c]
  OBVIOUS
<1> HIDE DEF c
<1>4. SecretOnward(secret[r], c) /\ SecretFine(c)
  BY <1>2 DEF SecretOnward, SecretFine
<1> QED BY <1>1, <1>2, <1>3, <1>4, SecretWritten

LEMMA CardOpened ==
    ASSUME ReaderTypeOK, NEW r \in Readers, person[r].access # "blocked",
           person' = [person EXCEPT ![r] = OpenCard(r)]
    PROVE  CardsOnward /\ person' \in [Readers -> PersonType] /\ person'[r].av = person[r].av
<1>1. person[r] \in PersonType
  BY DEF ReaderTypeOK
<1> DEFINE c == OpenCard(r)
<1>2. /\ c \in PersonType /\ c.ver = person[r].ver + 1 /\ c.av = person[r].av
      /\ c.on = person[r].on /\ c.linked = person[r].linked
      /\ person[r].ver \in Nat /\ person[r].av \in Nat
  <2>1. person[r].ver + 1 \in Nat /\ person[r].ver \in Nat /\ person[r].av \in Nat
    BY <1>1 DEF PersonType
  <2>2. c \in PersonType
    BY <1>1, <2>1 DEF PersonType, OpenCard
  <2>3. /\ c.ver = person[r].ver + 1 /\ c.av = person[r].av
        /\ c.on = person[r].on /\ c.linked = person[r].linked
    BY <1>1 DEF PersonType, OpenCard
  <2> HIDE DEF c
  <2> QED BY <2>1, <2>2, <2>3
<1>3. person' = [person EXCEPT ![r] = c]
  OBVIOUS
<1> HIDE DEF c
<1>4. CardOnward(person[r], c)
  BY <1>2 DEF CardOnward
<1> QED BY <1>2, <1>3, <1>4, CardWritten

(* A batch may close some rows and mark one of them as used.               *)
LEMMA GrantUsed ==
    ASSUME ReaderTypeOK, NEW S, \A h \in S : grant[h].status # "none",
           NEW g \in Grants, grant[g].status = "open",
           grant' = [GrantsLess(S) EXCEPT ![g].status = "consumed"]
    PROVE  GrantRows({}) /\ grant' \in [Grants -> GrantType]
<1> DEFINE less == GrantsLess(S)
<1>1. less \in [Grants -> GrantType] /\ \A h \in Grants : GrantKept(grant[h], less[h])
  BY GrantsClosed
<1>2. grant' = [less EXCEPT ![g].status = "consumed"]
  OBVIOUS
<1> HIDE DEF less
<1>3. /\ grant' \in [Grants -> GrantType]
      /\ grant'[g] = [less[g] EXCEPT !.status = "consumed"]
      /\ \A h \in Grants \ {g} : grant'[h] = less[h]
  <2> DEFINE b == [less[g] EXCEPT !.status = "consumed"]
  <2>1. b \in GrantType
    BY <1>1 DEF GrantType
  <2>2. grant' = [less EXCEPT ![g] = b]
    BY <1>1, <1>2
  <2> HIDE DEF b
  <2>3. /\ grant' \in [Grants -> GrantType] /\ grant'[g] = b
        /\ \A h \in Grants \ {g} : grant'[h] = less[h]
    BY <1>1, <2>1, <2>2
  <2> QED BY <2>3 DEF b
<1>4. GrantKept(grant[g], grant'[g])
  <2>1. less[g] \in GrantType /\ GrantKept(grant[g], less[g])
    BY <1>1
  <2> QED BY <1>3, <2>1 DEF GrantKept, GrantType
<1> QED BY <1>1, <1>3, <1>4 DEF GrantRows

LEMMA PassUsed ==
    ASSUME ReaderTypeOK, NEW S, \A j \in S : pass[j].status # "none",
           NEW i \in Passes, pass[i].status = "open",
           pass' = [PassesLess(S) EXCEPT ![i].status = "consumed"]
    PROVE  /\ PassRows({}) /\ pass' \in [Passes -> PassType]
           /\ \A j \in Passes : j \in S \/ j = i => pass'[j].status # "open"
<1> DEFINE less == PassesLess(S)
<1>1. /\ less \in [Passes -> PassType] /\ \A j \in Passes : PassKept(pass[j], less[j])
      /\ \A j \in Passes : j \in S => less[j].status = "closed"
  BY PassesClosed
<1>2. pass' = [less EXCEPT ![i].status = "consumed"]
  OBVIOUS
<1> HIDE DEF less
<1>3. /\ pass' \in [Passes -> PassType]
      /\ pass'[i] = [less[i] EXCEPT !.status = "consumed"]
      /\ \A j \in Passes \ {i} : pass'[j] = less[j]
  <2> DEFINE b == [less[i] EXCEPT !.status = "consumed"]
  <2>1. b \in PassType
    BY <1>1 DEF PassType
  <2>2. pass' = [less EXCEPT ![i] = b]
    BY <1>1, <1>2
  <2> HIDE DEF b
  <2>3. /\ pass' \in [Passes -> PassType] /\ pass'[i] = b
        /\ \A j \in Passes \ {i} : pass'[j] = less[j]
    BY <1>1, <2>1, <2>2
  <2> QED BY <2>3 DEF b
<1>4. PassKept(pass[i], pass'[i]) /\ pass'[i].status = "consumed"
  <2>1. less[i] \in PassType /\ PassKept(pass[i], less[i])
    BY <1>1
  <2> QED BY <1>3, <2>1 DEF PassKept, PassType
<1> QED BY <1>1, <1>3, <1>4 DEF PassRows

(* completeReaderPinSetup *)
LEMMA CommitSetupKeeps ==
    ASSUME ReadersInv, NEW d \in Gates, CommitSetup(d)
    PROVE  ReadersInv' /\ BarredStep
<1>0. ReaderTypeOK
  BY DEF ReadersInv
<1>1. PICK p \in GatePlan : p = gate[d] /\ p.op = "setup" /\ PlanSound(p)
  BY PassingPlan DEF CommitSetup
<1>2. gate' \in [Gates -> GatePlan \cup {Shut}] /\ GatesOnward
  BY PassingPlan DEF CommitSetup
<1>3. p.of \in Readers /\ p.cv \in Nat /\ p.av \in Nat /\ p.grant \in Grants
  BY <1>1 DEF GatePlan
<1>4. PICK r \in Readers, g \in Grants : r = p.of /\ g = p.grant
  BY <1>3
<1>k. PICK k \in Nat : k = grant[g].issue
  BY <1>0 DEF ReaderTypeOK, GrantType
<1> DEFINE S == WebOf(r)
           e == WebEntry(r, p.av, p.cv + 1, p.cv + 1, k)
<1>5. /\ grant[g].status = "open" /\ secret[r].ver = p.cv
      /\ person[r].ver = p.ver /\ person[r].access # "blocked"
      /\ grant' = [GrantsLess(OpenGrants(r)) EXCEPT ![g].status = "consumed"]
      /\ secret' = [secret EXCEPT ![r] = ChosenPin(r)]
      /\ person' = [person EXCEPT ![r] = OpenCard(r)]
      /\ pass' = PassesLess(PassesOf(r, {"web"}))
      /\ Admits(S, e) /\ UNCHANGED <<chat, seen>>
  BY <1>1, <1>4, <1>k DEF CommitSetup, SecretAsRead, CardAsRead, Pupil, MayEnter
<1>6. k = p.cv /\ k > 0
  <2>1. grant[g].cv = p.cv
    BY <1>1, <1>4 DEF PlanSound, GrantRead
  <2>2. GrantSound(g)
    BY <1>5 DEF ReadersInv, RecordsSound, GrantsFine
  <2> QED BY <1>k, <2>1, <2>2 DEF GrantSound
<1>7. p.av = person[r].av
  BY <1>1, <1>4, <1>5 DEF PlanSound, CardRead
<1>8. e \in EntryRow /\ S \in SUBSET LiveOf(r)
  BY <1>3, <1>6, ReaderValues DEF EntryRow, WebEntry, WebOf
<1>9. /\ SecretsOnward /\ SecretsFine' /\ secret' \in [Readers -> SecretType]
      /\ secret'[r].ver = p.cv + 1
  BY <1>5, PinChosen
<1>10. CardsOnward /\ person' \in [Readers -> PersonType] /\ person'[r].av = person[r].av
  BY <1>0, <1>5, CardOpened
<1>11. GrantRows({}) /\ grant' \in [Grants -> GrantType]
  <2>1. \A h \in OpenGrants(r) : grant[h].status # "none"
    BY DEF OpenGrants
  <2> QED BY <1>0, <1>5, <2>1, GrantUsed
<1>12. /\ PassRows({}) /\ pass' \in [Passes -> PassType]
       /\ \A i \in Passes : pass[i].of = r /\ pass[i].for = "web" => pass'[i].status # "open"
  <2> DEFINE P == PassesOf(r, {"web"})
  <2>1. \A i \in P : pass[i].status # "none"
    BY DEF PassesOf
  <2>2. /\ pass' \in [Passes -> PassType] /\ \A i \in Passes : PassKept(pass[i], pass'[i])
        /\ \A i \in Passes : i \in P => pass'[i].status = "closed"
    <3>1. pass' = PassesLess(P)
      BY <1>5
    <3> HIDE DEF P
    <3> QED BY <1>0, <2>1, <3>1, PassesClosed
  <2>3. ASSUME NEW i \in Passes, pass[i].of = r, pass[i].for = "web", pass'[i].status = "open"
        PROVE  FALSE
    <3>1. i \in P
      BY <2>2, <2>3 DEF PassesOf, PassKept
    <3> QED BY <2>2, <2>3, <3>1
  <2> QED BY <2>2, <2>3 DEF PassRows
<1>13. entry' \in [Entries -> EntryRow]
  <2> HIDE DEF e, S
  <2> QED BY <1>0, <1>5, <1>8, Admitted
<1>14. ReaderTypeOK'
  BY <1>0, <1>2, <1>5, <1>9, <1>10, <1>11, <1>12, <1>13 DEF ReaderTypeOK
<1>15. EntryDue(r, e)
  <2>1. Dated(r, p.av)'
    BY <1>0, <1>1, <1>3, <1>4, <1>10, <1>14, DatedStays DEF PlanSound, PlanDated
  <2>2. Exchanged(r, k)'
    BY <1>3, <1>6, <1>9 DEF Exchanged
  <2> QED BY <1>7, <1>10, <2>1, <2>2 DEF EntryDue, WebEntry
<1>16. IssueDue(r, e)
  <2>1. ASSUME NEW s \in Entries, entry[s].of = r PROVE entry[s].issue # k
    <3>1. entry[s].issue = 0 \/ entry[s].issue < secret[r].ver
      BY <2>1, ReaderValues DEF ReadersInv, EntriesSound, EntriesFine, EntryBlank, EntrySound,
                                Exchanged
    <3> QED BY <1>3, <1>5, <1>6, <3>1
  <2> QED BY <1>12, <2>1 DEF IssueDue, WebEntry
<1>17. MakesRoom(r, e, S) /\ ChatsFine'
  BY <1>5 DEF MakesRoom, WebEntry, ReadersInv, ChatsFine, ChatsApart, BindingsReal
<1> HIDE DEF e, S
<1> QED BY <1>2, <1>5, <1>8, <1>9, <1>10, <1>11, <1>12, <1>14, <1>15, <1>16, <1>17, SomebodyIn

(* redeemReaderWebInviteWithPin *)
LEMMA CommitRedeemKeeps ==
    ASSUME ReadersInv, NEW d \in Gates, CommitRedeem(d)
    PROVE  ReadersInv' /\ BarredStep
<1>0. ReaderTypeOK
  BY DEF ReadersInv
<1>1. PICK p \in GatePlan : p = gate[d] /\ p.op = "redeem" /\ PlanSound(p)
  BY PassingPlan DEF CommitRedeem
<1>2. gate' \in [Gates -> GatePlan \cup {Shut}] /\ GatesOnward
  BY PassingPlan DEF CommitRedeem
<1>3. p.of \in Readers /\ p.cv \in Nat /\ p.av \in Nat /\ p.pass \in Passes
  BY <1>1 DEF GatePlan
<1>4. PICK r \in Readers, i \in Passes : r = p.of /\ i = p.pass
  BY <1>3
<1>k. PICK k \in Nat : k = pass[i].issue
  BY <1>0 DEF ReaderTypeOK, PassType
<1> DEFINE S == WebOf(r)
           e == WebEntry(r, p.av, p.cv + 1, p.cv + 1, k)
           P == PassesOf(r, {"web"})
<1>5. /\ pass[i].status = "open" /\ secret[r].ver = p.cv
      /\ person[r].ver = p.ver /\ person[r].access # "blocked"
      /\ pass' = [PassesLess(P) EXCEPT ![i].status = "consumed"]
      /\ secret' = [secret EXCEPT ![r] = ChosenPin(r)]
      /\ person' = [person EXCEPT ![r] = OpenCard(r)]
      /\ grant' = GrantsLess(OpenGrants(r))
      /\ Admits(S, e) /\ UNCHANGED <<chat, seen>>
  BY <1>1, <1>4, <1>k DEF CommitRedeem, SecretAsRead, CardAsRead
<1>6. pass[i].of = r /\ k <= p.cv /\ (k > 0 => IssueUnused(i))
  <2>1. pass[i].of = r
    BY <1>1, <1>4 DEF PlanSound, PassRead
  <2>2. PassSound(i)
    BY <1>5 DEF ReadersInv, RecordsSound, PassesFine
  <2> QED BY <1>5, <1>k, <2>1, <2>2 DEF PassSound
<1>7. p.av = person[r].av
  BY <1>1, <1>4, <1>5 DEF PlanSound, CardRead
<1>8. e \in EntryRow /\ S \in SUBSET LiveOf(r)
  BY <1>3, ReaderValues DEF EntryRow, WebEntry, WebOf
<1>9. /\ SecretsOnward /\ SecretsFine' /\ secret' \in [Readers -> SecretType]
      /\ secret'[r].ver = p.cv + 1
  BY <1>5, PinChosen
<1>10. CardsOnward /\ person' \in [Readers -> PersonType] /\ person'[r].av = person[r].av
  BY <1>0, <1>5, CardOpened
<1>11. GrantRows({}) /\ grant' \in [Grants -> GrantType]
  <2>1. \A h \in OpenGrants(r) : grant[h].status # "none"
    BY DEF OpenGrants
  <2> QED BY <1>0, <1>5, <2>1, GrantsClosed DEF GrantRows
<1>12. /\ PassRows({}) /\ pass' \in [Passes -> PassType]
       /\ \A j \in Passes : pass[j].of = r /\ pass[j].for = "web" => pass'[j].status # "open"
  <2>1. \A j \in P : pass[j].status # "none"
    BY DEF PassesOf
  <2>2. /\ PassRows({}) /\ pass' \in [Passes -> PassType]
        /\ \A j \in Passes : j \in P \/ j = i => pass'[j].status # "open"
    <3> HIDE DEF P
    <3> QED BY <1>0, <1>5, <2>1, PassUsed
  <2>3. ASSUME NEW j \in Passes, pass[j].of = r, pass[j].for = "web", pass'[j].status = "open"
        PROVE  FALSE
    <3>1. PassKept(pass[j], pass'[j])
      BY <2>2 DEF PassRows
    <3>2. j \in P
      BY <2>3, <3>1 DEF PassesOf, PassKept
    <3> QED BY <2>2, <2>3, <3>2
  <2> QED BY <2>2, <2>3
<1>13. entry' \in [Entries -> EntryRow]
  <2> HIDE DEF e, S
  <2> QED BY <1>0, <1>5, <1>8, Admitted
<1>14. ReaderTypeOK'
  BY <1>0, <1>2, <1>5, <1>9, <1>10, <1>11, <1>12, <1>13 DEF ReaderTypeOK
<1>15. EntryDue(r, e)
  <2>1. Dated(r, p.av)'
    BY <1>0, <1>1, <1>3, <1>4, <1>10, <1>14, DatedStays DEF PlanSound, PlanDated
  <2>2. Exchanged(r, k)'
    BY <1>3, <1>6, <1>9 DEF Exchanged
  <2> QED BY <1>7, <1>10, <2>1, <2>2 DEF EntryDue, WebEntry
<1>16. IssueDue(r, e)
  <2>1. ASSUME k # 0, NEW s \in Entries, entry[s].of = r PROVE entry[s].issue # k
    BY <1>6, <1>k, <2>1 DEF IssueUnused
  <2> QED BY <1>12, <2>1 DEF IssueDue, WebEntry
<1>17. MakesRoom(r, e, S) /\ ChatsFine'
  BY <1>5 DEF MakesRoom, WebEntry, ReadersInv, ChatsFine, ChatsApart, BindingsReal
<1> HIDE DEF e, S
<1> QED BY <1>2, <1>5, <1>8, <1>9, <1>10, <1>11, <1>12, <1>14, <1>15, <1>16, <1>17, SomebodyIn

(* A chat is bound that no one else has. *)
LEMMA ChatBound ==
    ASSUME ReadersInv, NEW r \in Readers, NEW c \in Chats, ChatFree(r, c), chat' = Bound(r, c)
    PROVE  /\ chat' \in [Readers -> ChatType] /\ ChatsFine'
           /\ \A q \in Readers \ {r} : chat'[q] = chat[q]
           /\ \E v \in Nat : chat'[r] = [status |-> "active", of |-> c, ver |-> v]
<1>1. chat \in [Readers -> ChatType]
  BY DEF ReadersInv, ReaderTypeOK
<1>2. PICK v \in Nat : v = chat[r].ver + 1
  BY <1>1 DEF ChatType
<1> DEFINE b == [status |-> "active", of |-> c, ver |-> v]
<1>3. chat' = [chat EXCEPT ![r] = b] /\ b \in ChatType /\ b.of = c
  BY <1>1, <1>2 DEF Bound, ChatType
<1>4. b = [status |-> "active", of |-> c, ver |-> v]
  OBVIOUS
<1> HIDE DEF b
<1>5. chat' \in [Readers -> ChatType] /\ chat'[r] = b
      /\ \A q \in Readers \ {r} : chat'[q] = chat[q]
  BY <1>1, <1>3
<1>6. BindingsReal'
  BY <1>3, <1>5 DEF ReadersInv, ChatsFine, BindingsReal
<1>7. ChatsApart'
  <2> SUFFICES ASSUME NEW p \in Readers, NEW q \in Readers, p # q
               PROVE  chat'[p].of # chat'[q].of \/ chat'[p].of = NoChat
    BY DEF ChatsApart
  <2>1. CASE p = r
    BY <1>3, <1>5, <2>1 DEF ChatFree
  <2>2. CASE q = r
    BY <1>3, <1>5, <2>2 DEF ChatFree
  <2>3. CASE p # r /\ q # r
    BY <1>5, <2>3 DEF ReadersInv, ChatsFine, ChatsApart
  <2> QED BY <2>1, <2>2, <2>3
<1> QED BY <1>4, <1>5, <1>6, <1>7 DEF ChatsFine

(* redeemReaderInvite *)
LEMMA CommitJoinKeeps ==
    ASSUME ReadersInv, NEW d \in Gates, CommitJoin(d)
    PROVE  ReadersInv' /\ BarredStep
<1>0. ReaderTypeOK
  BY DEF ReadersInv
<1>1. PICK p \in GatePlan : p = gate[d] /\ p.op = "join" /\ PlanSound(p)
  BY PassingPlan DEF CommitJoin
<1>2. gate' \in [Gates -> GatePlan \cup {Shut}] /\ GatesOnward
  BY PassingPlan DEF CommitJoin
<1>3. p.of \in Readers /\ p.av \in Nat /\ p.pass \in Passes /\ p.chat \in Chats
      /\ p.start \in AppStarts
  BY <1>1 DEF GatePlan
<1>4. PICK r \in Readers, i \in Passes : r = p.of /\ i = p.pass
  BY <1>3
<1>5. /\ pass[i].status = "open" /\ pass[i].av = person[r].av
      /\ person[r].access # "blocked"
      /\ p.start \notin seen /\ ChatFree(r, p.chat)
      /\ pass' = [pass EXCEPT ![i].status = "consumed"]
      /\ chat' = Bound(r, p.chat)
      /\ person' = [person EXCEPT ![r] = OpenCard(r)]
      /\ seen' = seen \cup {p.start} /\ UNCHANGED <<secret, grant>>
  BY <1>1, <1>4 DEF CommitJoin, MayEnter, NewStart
<1>6. /\ chat' \in [Readers -> ChatType] /\ ChatsFine'
      /\ \A q \in Readers \ {r} : chat'[q] = chat[q]
  BY <1>3, <1>5, ChatBound
<1>7. PICK v \in Nat : chat'[r] = [status |-> "active", of |-> p.chat, ver |-> v]
  BY <1>3, <1>5, ChatBound
<1> DEFINE S == ChatOf(r) \cup Surplus(WebOf(r))
           e == ChatEntry(r, p.av, 0, 0, p.chat, v, p.start)
<1>8. Admits(S, e)
  BY <1>1, <1>4, <1>7 DEF CommitJoin
<1>9. e \in EntryRow /\ S \in SUBSET LiveOf(r)
  BY <1>3 DEF EntryRow, ChatEntry, ChatOf, WebOf, Surplus
<1>10. CardsOnward /\ person' \in [Readers -> PersonType] /\ person'[r].av = person[r].av
  BY <1>0, <1>5, CardOpened
<1>11. PassRows({}) /\ pass' \in [Passes -> PassType]
  <2>1. pass[i] \in PassType
    BY <1>0 DEF ReaderTypeOK
  <2> DEFINE b == [pass[i] EXCEPT !.status = "consumed"]
  <2>2. b \in PassType /\ PassKept(pass[i], b)
    BY <1>5, <2>1 DEF PassType, PassKept
  <2>3. pass' = [pass EXCEPT ![i] = b]
    BY <1>0, <1>5 DEF ReaderTypeOK
  <2> HIDE DEF b
  <2>4. /\ pass' \in [Passes -> PassType] /\ pass'[i] = b
        /\ \A j \in Passes \ {i} : pass'[j] = pass[j]
    BY <1>0, <2>2, <2>3 DEF ReaderTypeOK
  <2>5. \A j \in Passes : PassKept(pass[j], pass[j])
    BY DEF PassKept
  <2> QED BY <2>2, <2>4, <2>5 DEF PassRows
<1>12. GrantRows({}) /\ SecretsOnward /\ SecretsFine'
  BY <1>0, <1>5, GateRowsSame, SecretsSame
<1>13. entry' \in [Entries -> EntryRow]
  <2> HIDE DEF e, S
  <2> QED BY <1>0, <1>8, <1>9, Admitted
<1>14. ReaderTypeOK'
  BY <1>0, <1>2, <1>3, <1>5, <1>6, <1>10, <1>11, <1>13 DEF ReaderTypeOK
<1>15. EntryDue(r, e)
  <2>1. Dated(r, p.av)'
    BY <1>0, <1>1, <1>3, <1>4, <1>10, <1>14, DatedStays DEF PlanSound, PlanDated
  <2>2. p.av = person[r].av
    BY <1>1, <1>4, <1>5 DEF PlanSound
  <2> QED BY <1>3, <1>5, <1>7, <1>10, <2>1, <2>2, ReaderValues
          DEF EntryDue, ChatEntry, Exchanged
<1>16. IssueDue(r, e) /\ MakesRoom(r, e, S)
  BY <1>3, ReaderValues DEF IssueDue, MakesRoom, ChatEntry
<1>17. ChatOf(r) \subseteq S
  OBVIOUS
<1> HIDE DEF e, S
<1> QED BY <1>2, <1>5, <1>6, <1>8, <1>9, <1>10, <1>11, <1>12, <1>14, <1>15, <1>16, <1>17,
           SomebodyIn

(* createReaderTelegramSession *)
LEMMA CommitLaunchKeeps ==
    ASSUME ReadersInv, NEW d \in Gates, CommitLaunch(d)
    PROVE  ReadersInv' /\ BarredStep
<1>0. ReaderTypeOK
  BY DEF ReadersInv
<1>1. PICK p \in GatePlan : p = gate[d] /\ p.op = "open" /\ PlanSound(p)
  BY PassingPlan DEF CommitLaunch
<1>2. gate' \in [Gates -> GatePlan \cup {Shut}] /\ GatesOnward
  BY PassingPlan DEF CommitLaunch
<1>3. p.of \in Readers /\ p.av \in Nat /\ p.chatVer \in Nat /\ p.chat \in Chats
      /\ p.start \in AppStarts
  BY <1>1 DEF GatePlan
<1>4. PICK r \in Readers : r = p.of
  BY <1>3
<1> DEFINE S == Surplus(LiveOf(r))
           e == ChatEntry(r, p.av, 0, 0, p.chat, p.chatVer, p.start)
<1>5. /\ chat[r] = [status |-> "active", of |-> p.chat, ver |-> p.chatVer]
      /\ p.start \notin seen /\ seen' = seen \cup {p.start}
      /\ Admits(S, e) /\ UNCHANGED <<person, secret, grant, pass, chat>>
  BY <1>1, <1>4 DEF CommitLaunch, NewStart
<1>6. e \in EntryRow /\ S \in SUBSET LiveOf(r)
  BY <1>3 DEF EntryRow, ChatEntry, Surplus
<1>7. EntryDue(r, e)
  <2>1. Dated(r, p.av)'
    BY <1>1, <1>4, <1>5 DEF PlanSound, PlanDated, Dated
  <2> QED BY <1>3, <1>5, <2>1, ReaderValues DEF EntryDue, ChatEntry, Exchanged
<1>8. IssueDue(r, e) /\ MakesRoom(r, e, S)
  BY <1>3, ReaderValues DEF IssueDue, MakesRoom, ChatEntry
<1> HIDE DEF e, S
<1>9. entry' \in [Entries -> EntryRow]
  BY <1>0, <1>5, <1>6, Admitted
<1>10. ReaderTypeOK'
  BY <1>0, <1>2, <1>3, <1>5, <1>9 DEF ReaderTypeOK
<1>11. GrantRows({}) /\ PassRows({}) /\ CardsOnward /\ SecretsOnward /\ SecretsFine'
  BY <1>0, <1>5, GateRowsSame, CardsSame, SecretsSame
<1>12. ChatsFine'
  BY <1>5 DEF ReadersInv, ChatsFine, ChatsApart, BindingsReal
<1> QED BY <1>2, <1>5, <1>6, <1>7, <1>8, <1>10, <1>11, <1>12, SomebodyIn

(* authenticateReaderTelegramWithPin *)
LEMMA CommitBindKeeps ==
    ASSUME ReadersInv, NEW d \in Gates, CommitBind(d)
    PROVE  ReadersInv' /\ BarredStep
<1>0. ReaderTypeOK
  BY DEF ReadersInv
<1>1. PICK p \in GatePlan : p = gate[d] /\ p.op = "bind" /\ PlanSound(p)
  BY PassingPlan DEF CommitBind
<1>2. gate' \in [Gates -> GatePlan \cup {Shut}] /\ GatesOnward
  BY PassingPlan DEF CommitBind
<1>3. p.of \in Readers /\ p.av \in Nat /\ p.code \in Nat /\ p.chat \in Chats
      /\ p.start \in AppStarts /\ p.must \in BOOLEAN /\ p.code > 0
  BY <1>1 DEF GatePlan, PlanSound
<1>4. PICK r \in Readers : r = p.of
  BY <1>3
<1>5. /\ secret[r].code = p.code /\ p.start \notin seen /\ ChatFree(r, p.chat)
      /\ chat' = Bound(r, p.chat)
      /\ secret' = [secret EXCEPT ![r] = IF p.must THEN ChosenPin(r) ELSE @]
      /\ grant' = IF p.must THEN GrantsLess(OpenGrants(r)) ELSE grant
      /\ pass' = IF p.must THEN PassesLess(AllPasses(r)) ELSE pass
      /\ seen' = seen \cup {p.start} /\ UNCHANGED person
  BY <1>1, <1>4 DEF CommitBind, NewStart
<1>6. /\ chat' \in [Readers -> ChatType] /\ ChatsFine'
      /\ \A q \in Readers \ {r} : chat'[q] = chat[q]
  BY <1>3, <1>5, ChatBound
<1>7. PICK v \in Nat : chat'[r] = [status |-> "active", of |-> p.chat, ver |-> v]
  BY <1>3, <1>5, ChatBound
<1>8. /\ SecretsOnward /\ SecretsFine' /\ secret' \in [Readers -> SecretType]
      /\ p.must => p.code < secret'[r].ver
      /\ p.must => \A s \in Entries : entry[s].of = r => entry[s].issue # p.code
  <2>1. CASE p.must
    <3>1. /\ SecretsOnward /\ SecretsFine' /\ secret' \in [Readers -> SecretType]
          /\ secret'[r].ver = secret[r].ver + 1 /\ secret[r].ver \in Nat
          /\ secret[r].code \in {0, secret[r].ver}
      BY <1>5, <2>1, PinChosen
    <3>2. p.code = secret[r].ver
      BY <1>3, <1>5, <3>1
    <3>3. ASSUME NEW s \in Entries, entry[s].of = r PROVE entry[s].issue # p.code
      <4>1. entry[s].issue = 0 \/ entry[s].issue < secret[r].ver
        BY <3>3, ReaderValues DEF ReadersInv, EntriesSound, EntriesFine, EntryBlank,
                                  EntrySound, Exchanged
      <4> QED BY <1>3, <3>1, <3>2, <4>1
    <3> QED BY <3>1, <3>2, <3>3
  <2>2. CASE ~p.must
    <3>1. secret' = secret
      BY <1>0, <1>5, <2>2 DEF ReaderTypeOK
    <3> QED BY <1>0, <2>2, <3>1, SecretsSame DEF ReaderTypeOK
  <2> QED BY <2>1, <2>2
<1>9. GrantRows({}) /\ grant' \in [Grants -> GrantType]
  <2>1. CASE p.must
    <3>1. \A h \in OpenGrants(r) : grant[h].status # "none"
      BY DEF OpenGrants
    <3> QED BY <1>0, <1>5, <2>1, <3>1, GrantsClosed DEF GrantRows
  <2>2. CASE ~p.must
    BY <1>0, <1>5, <2>2, GateRowsSame DEF ReaderTypeOK
  <2> QED BY <2>1, <2>2
<1>10. /\ PassRows({}) /\ pass' \in [Passes -> PassType]
       /\ p.must => \A i \in Passes : pass[i].of = r /\ pass[i].for = "web"
                                      => pass'[i].status # "open"
  <2>1. CASE p.must
    <3> DEFINE P == AllPasses(r)
    <3>1. \A i \in P : pass[i].status # "none"
      BY DEF AllPasses, PassesOf
    <3>2. /\ pass' \in [Passes -> PassType] /\ \A i \in Passes : PassKept(pass[i], pass'[i])
          /\ \A i \in Passes : i \in P => pass'[i].status = "closed"
      <4>1. pass' = PassesLess(P)
        BY <1>5, <2>1
      <4> HIDE DEF P
      <4> QED BY <1>0, <3>1, <4>1, PassesClosed
    <3>3. ASSUME NEW i \in Passes, pass[i].of = r, pass[i].for = "web", pass'[i].status = "open"
          PROVE  FALSE
      <4>1. i \in P
        BY <3>2, <3>3 DEF AllPasses, PassesOf, PassKept
      <4> QED BY <3>2, <3>3, <4>1
    <3> QED BY <3>2, <3>3 DEF PassRows
  <2>2. CASE ~p.must
    BY <1>0, <1>5, <2>2, GateRowsSame DEF ReaderTypeOK
  <2> QED BY <2>1, <2>2
<1>11. PICK n \in Nat : n = secret'[r].ver
  BY <1>8 DEF SecretType
<1>12. PICK k \in Nat : k = IF p.must THEN p.code ELSE 0
  BY <1>3
<1> DEFINE S == IF p.must THEN LiveOf(r) ELSE ChatOf(r)
           e == ChatEntry(r, p.av, n, k, p.chat, v, p.start)
<1>13. Admits(S, e)
  BY <1>1, <1>4, <1>7, <1>11, <1>12 DEF CommitBind
<1>14. e \in EntryRow /\ S \in SUBSET LiveOf(r)
  BY <1>3 DEF EntryRow, ChatEntry, ChatOf
<1>15. CardsOnward
  BY <1>0, <1>5, CardsSame
<1>16. entry' \in [Entries -> EntryRow]
  <2> HIDE DEF e, S
  <2> QED BY <1>0, <1>13, <1>14, Admitted
<1>17. ReaderTypeOK'
  BY <1>0, <1>2, <1>3, <1>5, <1>6, <1>8, <1>9, <1>10, <1>16 DEF ReaderTypeOK
<1>18. EntryDue(r, e)
  <2>1. Dated(r, p.av)'
    BY <1>0, <1>1, <1>3, <1>4, <1>15, <1>17, DatedStays DEF PlanSound, PlanDated
  <2>2. Exchanged(r, k)'
    BY <1>8, <1>12 DEF Exchanged
  <2> QED BY <1>3, <1>5, <1>7, <2>1, <2>2, ReaderValues DEF EntryDue, ChatEntry
<1>19. IssueDue(r, e)
  BY <1>8, <1>10, <1>12 DEF IssueDue, ChatEntry
<1>20. ChatOf(r) \subseteq S /\ MakesRoom(r, e, S)
  BY <1>3, ReaderValues DEF MakesRoom, ChatEntry, ChatOf
<1> HIDE DEF e, S
<1> QED BY <1>2, <1>5, <1>6, <1>8, <1>9, <1>10, <1>13, <1>14, <1>15, <1>17, <1>18, <1>19,
           <1>20, SomebodyIn

-----------------------------------------------------------------------------
(* The librarian, and what runs out *)

LEMMA EntriesEnd ==
    ASSUME ReaderTypeOK, NEW r, NEW S \in SUBSET LiveOf(r), entry' = EntriesLess(S)
    PROVE  /\ EntryRows({}) /\ entry' \in [Entries -> EntryRow]
           /\ \A s \in S : entry'[s].status # "live"
<1>1. S \in SUBSET Entries /\ \A s \in S : entry[s].status # "none"
  BY DEF LiveOf
<1> QED BY <1>1, EntriesClosed DEF EntryRows

LEMMA PassesEnd ==
    ASSUME ReaderTypeOK, NEW r, NEW purposes, pass' = PassesLess(PassesOf(r, purposes))
    PROVE  PassRows({}) /\ pass' \in [Passes -> PassType]
<1>1. \A i \in PassesOf(r, purposes) : pass[i].status # "none"
  BY DEF PassesOf
<1> QED BY <1>1, PassesClosed DEF PassRows

LEMMA GrantsEnd ==
    ASSUME ReaderTypeOK, NEW r, grant' = GrantsLess(OpenGrants(r))
    PROVE  GrantRows({}) /\ grant' \in [Grants -> GrantType]
<1>1. \A g \in OpenGrants(r) : grant[g].status # "none"
  BY DEF OpenGrants
<1> QED BY <1>1, GrantsClosed DEF GrantRows

LEMMA ChatUnbound ==
    ASSUME ReaderTypeOK, NEW r \in Readers, NEW t \in {"disabled", "blocked"},
           chat' = Unbound(r, t), EntryRows({}), \A s \in ChatOf(r) : entry'[s].status # "live"
    PROVE  ChatsOnward /\ chat' \in [Readers -> ChatType] /\ BindingsKept({})
<1>1. chat \in [Readers -> ChatType] /\ chat[r] \in ChatType
  BY DEF ReaderTypeOK
<1> DEFINE b == IF chat[r].status = "none" THEN chat[r]
                ELSE [chat[r] EXCEPT !.status = t, !.ver = chat[r].ver + 1]
<1>2. b \in ChatType /\ b.of = chat[r].of /\ (b.status = "none" <=> chat[r].status = "none")
  <2>1. CASE chat[r].status = "none"
    BY <1>1, <2>1
  <2>2. CASE chat[r].status # "none"
    <3>1. b = [chat[r] EXCEPT !.status = t, !.ver = chat[r].ver + 1]
      BY <2>2
    <3>2. PICK v \in Nat : v = chat[r].ver + 1
      BY <1>1 DEF ChatType
    <3>3. b = [status |-> t, of |-> chat[r].of, ver |-> v]
      BY <1>1, <3>1, <3>2 DEF ChatType
    <3>4. chat[r].of \in Chats \cup {NoChat}
      BY <1>1 DEF ChatType
    <3> QED BY <2>2, <3>3, <3>4 DEF ChatType
  <2> QED BY <2>1, <2>2
<1>3. chat' = [chat EXCEPT ![r] = b]
  BY <1>1 DEF Unbound, ChatType
<1> HIDE DEF b
<1>4. /\ chat' \in [Readers -> ChatType] /\ chat'[r] = b
      /\ \A q \in Readers \ {r} : chat'[q] = chat[q]
  BY <1>1, <1>2, <1>3
<1>5. ChatsOnward
  BY <1>2, <1>4 DEF ChatsOnward
<1>6. BindingsKept({})
  <2> SUFFICES ASSUME NEW s \in Entries, entry'[s].status = "live", entry[s].chat # NoChat,
                      chat'[entry[s].of] # chat[entry[s].of]
               PROVE  FALSE
    BY DEF BindingsKept
  <2>1. entry[s].status = "live"
    BY DEF EntryRows, EntryKept
  <2>2. CASE entry[s].of = r
    BY <2>1, <2>2 DEF ChatOf, WebOf, LiveOf
  <2>3. CASE entry[s].of # r
    BY <1>3, <1>1, <2>3
  <2> QED BY <2>2, <2>3
<1> QED BY <1>4, <1>5, <1>6

LEMMA ChatsSame == /\ UNCHANGED chat => ChatsOnward /\ BindingsKept({})
                   /\ UNCHANGED gate => GatesOnward
BY DEF ChatsOnward, BindingsKept, GatesOnward

LEMMA ChatsIn == ASSUME NEW r PROVE /\ ChatOf(r) \in SUBSET LiveOf(r)
                                    /\ WebOf(r) \in SUBSET LiveOf(r)
BY DEF ChatOf, WebOf

LEMMA DisconnectKeeps ==
    ASSUME ReadersInv, NEW r \in Readers, BotDisconnects(r) \/ CabinetDisconnects(r)
    PROVE  ReadersInv' /\ BarredStep
<1>0. ReaderTypeOK
  BY DEF ReadersInv
<1>1. /\ chat' = Unbound(r, "disabled") /\ entry' = EntriesLess(ChatOf(r))
      /\ pass' = PassesLess(AllPasses(r)) \/ pass' = pass
      /\ UNCHANGED <<person, secret, grant, seen, gate>>
  BY DEF BotDisconnects, CabinetDisconnects
<1>2. /\ EntryRows({}) /\ entry' \in [Entries -> EntryRow]
      /\ \A s \in ChatOf(r) : entry'[s].status # "live"
  BY <1>0, <1>1, EntriesEnd, ChatsIn
<1>3. ChatsOnward /\ chat' \in [Readers -> ChatType] /\ BindingsKept({})
  BY <1>0, <1>1, <1>2, ChatUnbound
<1>4. PassRows({}) /\ pass' \in [Passes -> PassType]
  BY <1>0, <1>1, PassesEnd, GateRowsSame DEF AllPasses, ReaderTypeOK
<1>5. ReaderTypeOK'
  BY <1>0, <1>1, <1>2, <1>3, <1>4 DEF ReaderTypeOK
<1>6. GrantRows({}) /\ CardsOnward /\ SecretsOnward /\ SecretsFine' /\ GatesOnward
  BY <1>0, <1>1, GateRowsSame, CardsSame, SecretsSame, ChatsSame
<1> QED BY <1>1, <1>2, <1>3, <1>4, <1>5, <1>6, NothingNew

LEMMA NewPass ==
    ASSUME ReadersInv, ReaderTypeOK', CardsOnward, SecretsOnward, SecretsFine',
           GrantRows({}), EntryRows({}), NEW i \in Passes, PassRows({i}), PassSound(i)',
           UNCHANGED <<chat, seen, gate>>
    PROVE  ReadersInv' /\ BarredStep
<1>1. GrantsFine'
  BY GrantsKeep
<1>2. PassesFine'
  <2> SUFFICES ASSUME NEW j \in Passes, j # i, pass'[j].status # "none" PROVE PassSound(j)'
    BY DEF PassesFine
  <2>1. PassKept(pass[j], pass'[j]) /\ pass[j].status # "none"
    BY DEF PassRows, PassKept
  <2> QED BY <2>1, UnusedStays, PassStays
<1>3. EntriesFine'
  <2>1. \A s \in Entries \ {} :
               IF entry'[s].status = "none" THEN EntryBlank(s)' ELSE EntrySound(s)'
    BY EntriesStay, ChatsSame
  <2> QED BY <2>1 DEF EntriesFine
<1>4. OneByIssue' /\ OneByStart'
  BY DEF EntryRows, EntryKept, ReadersInv, EntriesSound, OneByIssue, OneByStart
<1>5. EntriesFew' /\ GatesFine'
  BY FewStay, GatesKeep, ChatsSame
<1>6. ChatsFine'
  BY DEF ReadersInv, ChatsFine, ChatsApart, BindingsReal
<1>7. BarredStep
  <2>1. \A s \in Entries : ~(entry[s].status = "none" /\ entry'[s].status = "live")
    BY DEF EntryRows, EntryKept
  <2>2. ASSUME NEW r \in Readers
        PROVE  \/ person'[r].av > person[r].av
               \/ /\ person[r].access = "blocked" => person'[r].access = "blocked"
                  /\ person'[r].on = person[r].on /\ person'[r].linked = person[r].linked
    BY DEF CardsOnward, CardOnward
  <2> QED BY <2>1, <2>2 DEF BarredStep
<1> QED BY <1>1, <1>2, <1>3, <1>4, <1>5, <1>6, <1>7 DEF ReadersInv, RecordsSound, EntriesSound

(* A new pass takes the place of the open ones of its purpose. *)
LEMMA PassIssued ==
    ASSUME ReaderTypeOK, NEW r, NEW purposes, NEW i \in Passes, pass[i].status = "none",
           NEW b \in PassType, pass' = [PassesLess(PassesOf(r, purposes)) EXCEPT ![i] = b]
    PROVE  PassRows({i}) /\ pass' \in [Passes -> PassType] /\ pass'[i] = b
<1> DEFINE less == PassesLess(PassesOf(r, purposes))
<1>1. \A j \in PassesOf(r, purposes) : pass[j].status # "none"
  BY DEF PassesOf
<1>2. less \in [Passes -> PassType] /\ \A j \in Passes : PassKept(pass[j], less[j])
  BY <1>1, PassesClosed
<1>3. pass' = [less EXCEPT ![i] = b]
  OBVIOUS
<1> HIDE DEF less
<1> QED BY <1>2, <1>3 DEF PassRows

LEMMA IssueWebAccessKeeps ==
    ASSUME ReadersInv, NEW r \in Readers, NEW i \in Passes, IssueWebAccess(r, i)
    PROVE  ReadersInv' /\ BarredStep
<1>0. ReaderTypeOK
  BY DEF ReadersInv
<1>1. person[r] \in PersonType /\ secret[r] \in SecretType
  BY <1>0 DEF ReaderTypeOK
<1>2. PICK v \in Nat : v = secret[r].ver + 1
  BY <1>1 DEF SecretType
<1>3. PICK av \in Nat : av = person[r].av
  BY <1>1 DEF PersonType
<1> DEFINE c == [status |-> "active", must |-> TRUE, open |-> TRUE, code |-> v, ver |-> v]
           b == [status |-> "open", of |-> r, for |-> "web", av |-> av, issue |-> v]
<1>4. /\ person[r].access # "blocked" /\ pass[i].status = "none"
      /\ secret' = [secret EXCEPT ![r] = c]
      /\ pass' = [PassesLess(PassesOf(r, {"web"})) EXCEPT ![i] = b]
      /\ person' = [person EXCEPT ![r] = OpenCard(r)]
      /\ entry' = EntriesLess(WebOf(r)) /\ grant' = GrantsLess(OpenGrants(r))
      /\ UNCHANGED <<chat, seen, gate>>
  BY <1>2, <1>3 DEF IssueWebAccess, Pupil, MayEnter
<1>5. c \in SecretType /\ c.ver = v /\ c.code = v /\ c.must
  BY DEF SecretType
<1>6. b \in PassType /\ b.of = r /\ b.for = "web" /\ b.issue = v
  BY DEF PassType
<1> HIDE DEF c, b
<1>7. SecretOnward(secret[r], c) /\ SecretFine(c)
  BY <1>1, <1>2, <1>5 DEF SecretOnward, SecretFine, SecretType
<1>8. /\ SecretsOnward /\ SecretsFine' /\ secret' \in [Readers -> SecretType]
      /\ secret'[r].ver = v
  BY <1>4, <1>5, <1>7, SecretWritten
<1>9. PassRows({i}) /\ pass' \in [Passes -> PassType] /\ pass'[i] = b
  BY <1>0, <1>4, <1>6, PassIssued
<1>10. CardsOnward /\ person' \in [Readers -> PersonType]
  BY <1>0, <1>4, CardOpened
<1>11. EntryRows({}) /\ entry' \in [Entries -> EntryRow]
  BY <1>0, <1>4, ChatsIn, EntriesEnd
<1>12. GrantRows({}) /\ grant' \in [Grants -> GrantType]
  BY <1>0, <1>4, GrantsEnd
<1>13. ReaderTypeOK'
  BY <1>0, <1>4, <1>8, <1>9, <1>10, <1>11, <1>12 DEF ReaderTypeOK
<1>14. PassSound(i)'
  <2>1. ASSUME NEW s \in Entries, entry'[s].of = r PROVE entry'[s].issue # v
    <3>1. EntryKept(entry[s], entry'[s])
      BY <1>11 DEF EntryRows
    <3>2. entry[s].issue = 0 \/ entry[s].issue < secret[r].ver
      BY <2>1, <3>1, ReaderValues DEF EntryKept, ReadersInv, EntriesSound, EntriesFine,
                                      EntryBlank, EntrySound, Exchanged
    <3>3. entry[s].issue \in Nat /\ secret[r].ver \in Nat
      BY <1>0, <1>1 DEF ReaderTypeOK, EntryRow, SecretType
    <3> QED BY <1>2, <3>1, <3>2, <3>3 DEF EntryKept
  <2> QED BY <1>6, <1>8, <1>9, <2>1 DEF PassSound, IssueUnused
<1> QED BY <1>4, <1>8, <1>9, <1>10, <1>11, <1>12, <1>13, <1>14, NewPass

LEMMA IssuePassKeeps ==
    ASSUME ReadersInv, NEW r \in Readers, NEW i \in Passes, NEW purpose \in {"web", "telegram"},
           IssuePass(r, i, purpose)
    PROVE  ReadersInv' /\ BarredStep
<1>0. ReaderTypeOK
  BY DEF ReadersInv
<1>1. person[r] \in PersonType /\ secret[r] \in SecretType
  BY <1>0 DEF ReaderTypeOK
<1>2. PICK av \in Nat : av = person[r].av
  BY <1>1 DEF PersonType
<1>3. PICK v \in Nat : v = person[r].ver + 1
  BY <1>1 DEF PersonType
<1> DEFINE c == [person[r] EXCEPT !.ver = v]
           b == [status |-> "open", of |-> r, for |-> purpose, av |-> av, issue |-> 0]
<1>4. /\ pass[i].status = "none" /\ person' = [person EXCEPT ![r] = c]
      /\ pass' = [PassesLess(PassesOf(r, {purpose})) EXCEPT ![i] = b]
      /\ UNCHANGED <<secret, grant, chat, entry, seen, gate>>
  BY <1>0, <1>2, <1>3 DEF IssuePass, ReaderTypeOK
<1>5. b \in PassType /\ b.of = r /\ b.issue = 0
  BY DEF PassType
<1>6. c \in PersonType /\ CardOnward(person[r], c)
  BY <1>1, <1>3 DEF CardOnward, PersonType
<1> HIDE DEF c, b
<1>7. CardsOnward /\ person' \in [Readers -> PersonType]
  BY <1>0, <1>4, <1>6, CardWritten
<1>8. PassRows({i}) /\ pass' \in [Passes -> PassType] /\ pass'[i] = b
  BY <1>0, <1>4, <1>5, PassIssued
<1>9. ReaderTypeOK'
  BY <1>0, <1>4, <1>7, <1>8 DEF ReaderTypeOK
<1>10. GrantRows({}) /\ EntryRows({}) /\ SecretsOnward /\ SecretsFine'
  BY <1>4, GateRowsSame, SecretsSame
<1>11. PassSound(i)'
  BY <1>1, <1>4, <1>5, <1>8 DEF PassSound, SecretType
<1> QED BY <1>4, <1>7, <1>8, <1>9, <1>10, <1>11, NewPass

(* A card whose access is counted up may change in any way.                *)
LEMMA AccessWritten ==
    ASSUME ReaderTypeOK, NEW r \in Readers, NEW c \in PersonType,
           c.av = person[r].av + 1, c.ver = person[r].ver + 1,
           person' = [person EXCEPT ![r] = c]
    PROVE  CardsOnward /\ person' \in [Readers -> PersonType]
<1>1. person[r] \in PersonType
  BY DEF ReaderTypeOK
<1>2. CardOnward(person[r], c)
  BY <1>1 DEF CardOnward, PersonType
<1> QED BY <1>2, CardWritten

LEMMA LiveEnd ==
    ASSUME ReaderTypeOK, NEW r, entry' = EntriesLess(LiveOf(r))
    PROVE  /\ EntryRows({}) /\ entry' \in [Entries -> EntryRow]
           /\ \A s \in ChatOf(r) : entry'[s].status # "live"
BY EntriesEnd, ChatsIn

LEMMA ChangeAccessKeeps ==
    ASSUME ReadersInv, NEW r \in Readers, NEW action \in {"disable", "unblock", "disconnect"},
           ChangeAccess(r, action)
    PROVE  ReadersInv' /\ BarredStep
<1>0. ReaderTypeOK
  BY DEF ReadersInv
<1>1. person[r] \in PersonType
  BY <1>0 DEF ReaderTypeOK
<1>2. PICK a \in {"blocked", "inactive", "active"} :
          person' = [person EXCEPT ![r].access = a, ![r].av = @ + 1, ![r].ver = @ + 1]
  BY DEF ChangeAccess
<1>3. PICK t \in {"disabled", "blocked"} : t = IF action = "disable" THEN "blocked" ELSE "disabled"
  OBVIOUS
<1>4. /\ entry' = EntriesLess(LiveOf(r)) /\ pass' = PassesLess(AllPasses(r))
      /\ chat' = Unbound(r, t) /\ UNCHANGED <<secret, grant, seen, gate>>
  BY <1>3 DEF ChangeAccess
<1>5. CardsOnward /\ person' \in [Readers -> PersonType]
  <2>1. PICK v \in Nat, av \in Nat : v = person[r].ver + 1 /\ av = person[r].av + 1
    BY <1>1 DEF PersonType
  <2> DEFINE c == [person[r] EXCEPT !.access = a, !.av = av, !.ver = v]
  <2>2. c \in PersonType /\ c.av = av /\ c.ver = v
    BY <1>1 DEF PersonType
  <2>3. person' = [person EXCEPT ![r] = c]
    BY <1>0, <1>1, <1>2, <2>1 DEF ReaderTypeOK, PersonType
  <2> HIDE DEF c
  <2> QED BY <1>0, <2>1, <2>2, <2>3, AccessWritten
<1>6. /\ EntryRows({}) /\ entry' \in [Entries -> EntryRow]
      /\ \A s \in ChatOf(r) : entry'[s].status # "live"
  BY <1>0, <1>4, LiveEnd
<1>7. ChatsOnward /\ chat' \in [Readers -> ChatType] /\ BindingsKept({})
  BY <1>0, <1>4, <1>6, ChatUnbound
<1>8. PassRows({}) /\ pass' \in [Passes -> PassType]
  BY <1>0, <1>4, PassesEnd DEF AllPasses
<1>9. GrantRows({}) /\ SecretsOnward /\ SecretsFine' /\ GatesOnward
  BY <1>4, GateRowsSame, SecretsSame, ChatsSame
<1>10. ReaderTypeOK'
  BY <1>0, <1>4, <1>5, <1>6, <1>7, <1>8 DEF ReaderTypeOK
<1> QED BY <1>4, <1>5, <1>6, <1>7, <1>8, <1>9, <1>10, NothingNew

(* The triggers of drizzle/0057 *)
LEMMA NoPupilLeft ==
    ASSUME ReadersInv, NEW r \in Readers, NoPupil(r)
    PROVE  /\ SecretsOnward /\ SecretsFine' /\ secret' \in [Readers -> SecretType]
           /\ GrantRows({}) /\ grant' \in [Grants -> GrantType]
           /\ PassRows({}) /\ pass' \in [Passes -> PassType]
           /\ EntryRows({}) /\ entry' \in [Entries -> EntryRow]
           /\ \A s \in ChatOf(r) : entry'[s].status # "live"
<1>0. ReaderTypeOK
  BY DEF ReadersInv
<1>1. secret[r] \in SecretType
  BY <1>0 DEF ReaderTypeOK
<1>2. SecretsOnward /\ SecretsFine' /\ secret' \in [Readers -> SecretType]
  <2>1. CASE secret[r].status = "none"
    BY <1>0, <2>1, SecretsSame DEF NoPupil, ReaderTypeOK
  <2>2. CASE secret[r].status # "none"
    <3>1. PICK v \in Nat : v = secret[r].ver + 1
      BY <1>1 DEF SecretType
    <3> DEFINE c == [status |-> "disabled", must |-> TRUE, open |-> FALSE, code |-> 0, ver |-> v]
    <3>2. secret' = [secret EXCEPT ![r] = c]
      BY <2>2, <3>1 DEF NoPupil
    <3>3. c \in SecretType /\ SecretOnward(secret[r], c) /\ SecretFine(c)
      BY <1>1, <3>1 DEF SecretType, SecretOnward, SecretFine
    <3> HIDE DEF c
    <3> QED BY <3>2, <3>3, SecretWritten
  <2> QED BY <2>1, <2>2
<1>3. GrantRows({}) /\ grant' \in [Grants -> GrantType]
  BY <1>0, GrantsEnd DEF NoPupil
<1>4. PassRows({}) /\ pass' \in [Passes -> PassType]
  BY <1>0, PassesEnd DEF NoPupil, AllPasses
<1>5. /\ EntryRows({}) /\ entry' \in [Entries -> EntryRow]
      /\ \A s \in ChatOf(r) : entry'[s].status # "live"
  BY <1>0, LiveEnd DEF NoPupil
<1> QED BY <1>2, <1>3, <1>4, <1>5

LEMMA NewPupilHas ==
    ASSUME ReadersInv, NEW r \in Readers, NewPupil(r)
    PROVE  SecretsOnward /\ SecretsFine' /\ secret' \in [Readers -> SecretType]
<1>0. ReaderTypeOK
  BY DEF ReadersInv
<1>1. secret[r] \in SecretType
  BY <1>0 DEF ReaderTypeOK
<1> DEFINE c == [secret[r] EXCEPT !.status = IF secret[r].status = "none" THEN "disabled"
                                             ELSE secret[r].status]
<1>2. secret' = [secret EXCEPT ![r] = c]
  BY <1>0 DEF NewPupil, ReaderTypeOK
<1>3. /\ c.must = secret[r].must /\ c.open = secret[r].open
      /\ c.code = secret[r].code /\ c.ver = secret[r].ver
  BY <1>1 DEF SecretType
<1>4. /\ c \in SecretType
      /\ c.status = IF secret[r].status = "none" THEN "disabled" ELSE secret[r].status
  BY <1>1 DEF SecretType
<1> HIDE DEF c
<1>5. SecretFine(secret[r])
  BY DEF ReadersInv, RecordsSound, SecretsFine, SecretFine
<1>6. SecretOnward(secret[r], c) /\ SecretFine(c)
  BY <1>1, <1>3, <1>4, <1>5 DEF SecretOnward, SecretFine, SecretType
<1> QED BY <1>2, <1>4, <1>6, SecretWritten

LEMMA SaveReaderKeeps ==
    ASSUME ReadersInv, NEW r \in Readers, NEW student \in BOOLEAN, SaveReader(r, student)
    PROVE  ReadersInv' /\ BarredStep
<1>0. ReaderTypeOK
  BY DEF ReadersInv
<1>1. person[r] \in PersonType
  BY <1>0 DEF ReaderTypeOK
<1>2. PICK v \in Nat : v = person[r].ver + 1
  BY <1>1 DEF PersonType
<1> DEFINE c == [person[r] EXCEPT !.student = student, !.ver = v]
<1>3. /\ person' = [person EXCEPT ![r] = c] /\ UNCHANGED <<chat, seen, gate>>
      /\ IF student THEN NewPupil(r) ELSE NoPupil(r)
  BY <1>0, <1>1, <1>2 DEF SaveReader, ReaderTypeOK, PersonType
<1>4. c \in PersonType /\ CardOnward(person[r], c)
  <2>1. /\ c.access = person[r].access /\ c.av = person[r].av /\ c.ver = v
        /\ c.on = person[r].on /\ c.linked = person[r].linked
    BY <1>1 DEF PersonType
  <2>2. c \in PersonType
    BY <1>1 DEF PersonType
  <2> HIDE DEF c
  <2> QED BY <1>1, <1>2, <2>1, <2>2 DEF CardOnward, PersonType
<1> HIDE DEF c
<1>5. CardsOnward /\ person' \in [Readers -> PersonType]
  BY <1>0, <1>3, <1>4, CardWritten
<1>6. /\ SecretsOnward /\ SecretsFine' /\ secret' \in [Readers -> SecretType]
      /\ GrantRows({}) /\ grant' \in [Grants -> GrantType]
      /\ PassRows({}) /\ pass' \in [Passes -> PassType]
      /\ EntryRows({}) /\ entry' \in [Entries -> EntryRow]
  <2>1. CASE student
    <3>1. NewPupil(r)
      BY <1>3, <2>1
    <3>2. UNCHANGED <<grant, entry, pass>>
      BY <3>1 DEF NewPupil
    <3> QED BY <1>0, <3>1, <3>2, NewPupilHas, GateRowsSame DEF ReaderTypeOK
  <2>2. CASE ~student
    <3>1. NoPupil(r)
      BY <1>3, <2>2
    <3> QED BY <3>1, NoPupilLeft
  <2> QED BY <2>1, <2>2
<1>7. ReaderTypeOK'
  BY <1>0, <1>3, <1>5, <1>6 DEF ReaderTypeOK
<1> QED BY <1>3, <1>5, <1>6, <1>7, NothingNew, ChatsSame

LEMMA LinkTeacherKeeps ==
    ASSUME ReadersInv, NEW r \in Readers, LinkTeacher(r)
    PROVE  ReadersInv' /\ BarredStep
<1>0. ReaderTypeOK
  BY DEF ReadersInv
<1>1. person[r] \in PersonType /\ person[r].ver + 1 \in Nat /\ person[r].av + 1 \in Nat
  BY <1>0 DEF ReaderTypeOK, PersonType
<1>2. PICK v \in Nat, av \in Nat : v = person[r].ver + 1 /\ av = person[r].av + 1
  BY <1>1
<1> DEFINE c == [person[r] EXCEPT !.linked = TRUE, !.access = "active", !.av = av, !.ver = v]
<1>3. person' = [person EXCEPT ![r] = c]
  BY <1>0, <1>1, <1>2 DEF LinkTeacher, ReaderTypeOK, PersonType
<1>4. NoPupil(r) /\ chat' = Unbound(r, "disabled") /\ UNCHANGED <<seen, gate>>
  BY DEF LinkTeacher
<1>5. c \in PersonType /\ c.av = av /\ c.ver = v
  BY <1>1, <1>2 DEF PersonType
<1> HIDE DEF c
<1>6. CardsOnward /\ person' \in [Readers -> PersonType]
  BY <1>0, <1>2, <1>3, <1>5, AccessWritten
<1>7. /\ SecretsOnward /\ SecretsFine' /\ secret' \in [Readers -> SecretType]
      /\ GrantRows({}) /\ grant' \in [Grants -> GrantType]
      /\ PassRows({}) /\ pass' \in [Passes -> PassType]
      /\ EntryRows({}) /\ entry' \in [Entries -> EntryRow]
      /\ \A s \in ChatOf(r) : entry'[s].status # "live"
  BY <1>4, NoPupilLeft
<1>8. ChatsOnward /\ chat' \in [Readers -> ChatType] /\ BindingsKept({})
  BY <1>0, <1>4, <1>7, ChatUnbound
<1>9. ReaderTypeOK'
  BY <1>0, <1>4, <1>6, <1>7, <1>8 DEF ReaderTypeOK
<1> QED BY <1>4, <1>6, <1>7, <1>8, <1>9, NothingNew, ChatsSame

LEMMA ArchiveReaderKeeps ==
    ASSUME ReadersInv, NEW r \in Readers, NEW restore \in BOOLEAN, ArchiveReader(r, restore)
    PROVE  ReadersInv' /\ BarredStep
<1>0. ReaderTypeOK
  BY DEF ReadersInv
<1>1. person[r] \in PersonType /\ person[r].ver + 1 \in Nat /\ person[r].av + 1 \in Nat
  BY <1>0 DEF ReaderTypeOK, PersonType
<1>2. PICK v \in Nat, av \in Nat : v = person[r].ver + 1 /\ av = person[r].av + 1
  BY <1>1
<1> DEFINE c == [person[r] EXCEPT !.on = restore, !.av = av, !.ver = v]
<1>3. person' = [person EXCEPT ![r] = c]
  BY <1>0, <1>1, <1>2 DEF ArchiveReader, ReaderTypeOK, PersonType
<1>4. UNCHANGED <<secret, grant, chat, seen, gate>>
  BY DEF ArchiveReader
<1>5. c \in PersonType /\ c.av = av /\ c.ver = v
  BY <1>1, <1>2 DEF PersonType
<1> HIDE DEF c
<1>6. CardsOnward /\ person' \in [Readers -> PersonType]
  BY <1>0, <1>2, <1>3, <1>5, AccessWritten
<1>7. EntryRows({}) /\ entry' \in [Entries -> EntryRow]
  BY <1>0, LiveEnd, GateRowsSame DEF ArchiveReader, ReaderTypeOK
<1>8. PassRows({}) /\ pass' \in [Passes -> PassType]
  BY <1>0, PassesEnd, GateRowsSame DEF ArchiveReader, ReaderTypeOK, AllPasses
<1>9. ReaderTypeOK'
  BY <1>0, <1>4, <1>6, <1>7, <1>8 DEF ReaderTypeOK
<1>10. GrantRows({}) /\ SecretsOnward /\ SecretsFine'
  BY <1>4, GateRowsSame, SecretsSame
<1> QED BY <1>4, <1>6, <1>7, <1>8, <1>9, <1>10, NothingNew, ChatsSame

(* logoutReader, and what runs out *)
LEMMA EntryEndsKeeps ==
    ASSUME ReadersInv, NEW s \in Entries, EntryEnds(s)
    PROVE  ReadersInv' /\ BarredStep
<1>0. ReaderTypeOK
  BY DEF ReadersInv
<1>1. /\ entry[s].status # "none" /\ entry' = EntriesLess({s})
      /\ UNCHANGED <<person, secret, grant, pass, chat, seen, gate>>
  BY DEF EntryEnds
<1>2. EntryRows({}) /\ entry' \in [Entries -> EntryRow]
  BY <1>0, <1>1, EntriesClosed DEF EntryRows
<1>3. ReaderTypeOK'
  BY <1>0, <1>1, <1>2 DEF ReaderTypeOK
<1>4. GrantRows({}) /\ PassRows({}) /\ CardsOnward /\ SecretsOnward /\ SecretsFine'
  BY <1>0, <1>1, GateRowsSame, CardsSame, SecretsSame
<1> QED BY <1>1, <1>2, <1>3, <1>4, NothingNew, ChatsSame

LEMMA SecretRunsOutKeeps ==
    ASSUME ReadersInv, NEW r \in Readers, SecretRunsOut(r)
    PROVE  ReadersInv' /\ BarredStep
<1>0. ReaderTypeOK
  BY DEF ReadersInv
<1>1. secret[r] \in SecretType
  BY <1>0 DEF ReaderTypeOK
<1> DEFINE c == [secret[r] EXCEPT !.open = FALSE]
<1>2. /\ secret' = [secret EXCEPT ![r] = c]
      /\ UNCHANGED <<person, grant, pass, chat, entry, seen, gate>>
  BY <1>0 DEF SecretRunsOut, ReaderTypeOK
<1>3. /\ c \in SecretType /\ c.status = secret[r].status
      /\ c.must = secret[r].must /\ c.code = secret[r].code /\ c.ver = secret[r].ver
  BY <1>1 DEF SecretType
<1> HIDE DEF c
<1>4. SecretFine(secret[r])
  BY DEF ReadersInv, RecordsSound, SecretsFine, SecretFine
<1>5. SecretOnward(secret[r], c) /\ SecretFine(c)
  BY <1>1, <1>3, <1>4 DEF SecretOnward, SecretFine, SecretType
<1>6. SecretsOnward /\ SecretsFine' /\ secret' \in [Readers -> SecretType]
  BY <1>2, <1>3, <1>5, SecretWritten
<1>7. ReaderTypeOK'
  BY <1>0, <1>2, <1>6 DEF ReaderTypeOK
<1>8. GrantRows({}) /\ PassRows({}) /\ EntryRows({}) /\ CardsOnward
  BY <1>0, <1>2, GateRowsSame, CardsSame
<1> QED BY <1>2, <1>6, <1>7, <1>8, NothingNew, ChatsSame

LEMMA GrantRunsOutKeeps ==
    ASSUME ReadersInv, NEW g \in Grants, GrantRunsOut(g)
    PROVE  ReadersInv' /\ BarredStep
<1>0. ReaderTypeOK
  BY DEF ReadersInv
<1>1. /\ grant[g].status # "none" /\ grant' = GrantsLess({g})
      /\ UNCHANGED <<person, secret, pass, chat, entry, seen, gate>>
  BY DEF GrantRunsOut
<1>2. GrantRows({}) /\ grant' \in [Grants -> GrantType]
  BY <1>0, <1>1, GrantsClosed DEF GrantRows
<1>3. ReaderTypeOK'
  BY <1>0, <1>1, <1>2 DEF ReaderTypeOK
<1>4. EntryRows({}) /\ PassRows({}) /\ CardsOnward /\ SecretsOnward /\ SecretsFine'
  BY <1>0, <1>1, GateRowsSame, CardsSame, SecretsSame
<1> QED BY <1>1, <1>2, <1>3, <1>4, NothingNew, ChatsSame

LEMMA PassRunsOutKeeps ==
    ASSUME ReadersInv, NEW i \in Passes, PassRunsOut(i)
    PROVE  ReadersInv' /\ BarredStep
<1>0. ReaderTypeOK
  BY DEF ReadersInv
<1>1. /\ pass[i].status # "none" /\ pass' = PassesLess({i})
      /\ UNCHANGED <<person, secret, grant, chat, entry, seen, gate>>
  BY DEF PassRunsOut
<1>2. PassRows({}) /\ pass' \in [Passes -> PassType]
  BY <1>0, <1>1, PassesClosed DEF PassRows
<1>3. ReaderTypeOK'
  BY <1>0, <1>1, <1>2 DEF ReaderTypeOK
<1>4. EntryRows({}) /\ GrantRows({}) /\ CardsOnward /\ SecretsOnward /\ SecretsFine'
  BY <1>0, <1>1, GateRowsSame, CardsSame, SecretsSame
<1> QED BY <1>1, <1>2, <1>3, <1>4, NothingNew, ChatsSame

LEMMA ReaderStays ==
    ASSUME ReadersInv, UNCHANGED readerVars PROVE ReadersInv' /\ BarredStep
<1>0. ReaderTypeOK
  BY DEF ReadersInv
<1>1. UNCHANGED <<person, secret, grant, pass, chat, entry, seen, gate>>
  BY DEF readerVars
<1>2. ReaderTypeOK'
  BY <1>0, <1>1 DEF ReaderTypeOK
<1>3. EntryRows({}) /\ GrantRows({}) /\ PassRows({}) /\ CardsOnward /\ SecretsOnward /\ SecretsFine'
  BY <1>0, <1>1, GateRowsSame, CardsSame, SecretsSame
<1> QED BY <1>1, <1>2, <1>3, NothingNew, ChatsSame

-----------------------------------------------------------------------------
(* Every step, and what the invariant says                                 *)

LEMMA GateSteps == ReadersInv /\ AtTheGate => ReadersInv' /\ BarredStep
<1> SUFFICES ASSUME ReadersInv, AtTheGate PROVE ReadersInv' /\ BarredStep
  OBVIOUS
<1>1. PICK d \in Gates :
        \/ \E r \in Readers : PlanPin(d, r)
        \/ \E g \in Grants : PlanSetup(d, g)
        \/ \E i \in Passes : PlanRedeem(d, i)
        \/ \E a \in AppStarts :
            \/ \E i \in Passes, c \in Chats : PlanJoin(d, i, c, a)
            \/ \E r \in Readers : PlanLaunch(d, r, a)
            \/ \E r \in Readers, c \in Chats : PlanBind(d, r, c, a)
        \/ CommitPin(d) \/ CommitTemp(d) \/ CommitSetup(d) \/ CommitRedeem(d)
        \/ CommitJoin(d) \/ CommitLaunch(d) \/ CommitBind(d)
        \/ Dismissed(d)
  BY DEF AtTheGate
<1>2. CASE \E r \in Readers : PlanPin(d, r)
  BY <1>2, PlanPinKeeps
<1>3. CASE \E g \in Grants : PlanSetup(d, g)
  BY <1>3, PlanSetupKeeps
<1>4. CASE \E i \in Passes : PlanRedeem(d, i)
  BY <1>4, PlanRedeemKeeps
<1>5. CASE \E a \in AppStarts :
            \/ \E i \in Passes, c \in Chats : PlanJoin(d, i, c, a)
            \/ \E r \in Readers : PlanLaunch(d, r, a)
            \/ \E r \in Readers, c \in Chats : PlanBind(d, r, c, a)
  BY <1>5, PlanJoinKeeps, PlanLaunchKeeps, PlanBindKeeps
<1>6. CASE \/ CommitPin(d) \/ CommitTemp(d) \/ CommitSetup(d) \/ CommitRedeem(d)
           \/ CommitJoin(d) \/ CommitLaunch(d) \/ CommitBind(d) \/ Dismissed(d)
  BY <1>6, CommitPinKeeps, CommitTempKeeps, CommitSetupKeeps, CommitRedeemKeeps,
     CommitJoinKeeps, CommitLaunchKeeps, CommitBindKeeps, DismissedKeeps
<1> QED BY <1>1, <1>2, <1>3, <1>4, <1>5, <1>6

LEMMA ReaderStep == ReadersInv /\ [ReaderNext]_readerVars => ReadersInv' /\ BarredStep
<1> SUFFICES ASSUME ReadersInv, [ReaderNext]_readerVars PROVE ReadersInv' /\ BarredStep
  OBVIOUS
<1>1. CASE AtTheGate
  BY <1>1, GateSteps
<1>2. CASE \/ \E s \in Entries : EntryEnds(s)
           \/ \E g \in Grants : GrantRunsOut(g)
           \/ \E i \in Passes : PassRunsOut(i)
  BY <1>2, EntryEndsKeeps, GrantRunsOutKeeps, PassRunsOutKeeps
<1>3. ASSUME NEW r \in Readers,
             \/ SecretRunsOut(r) \/ BotDisconnects(r) \/ CabinetDisconnects(r)
             \/ \E i \in Passes : \/ IssueWebAccess(r, i)
                                  \/ \E purpose \in {"web", "telegram"} : IssuePass(r, i, purpose)
      PROVE  ReadersInv' /\ BarredStep
  BY <1>3, SecretRunsOutKeeps, DisconnectKeeps, IssueWebAccessKeeps, IssuePassKeeps
<1>4. ASSUME NEW r \in Readers,
             \/ \E action \in {"disable", "unblock", "disconnect"} : ChangeAccess(r, action)
             \/ \E b \in BOOLEAN : SaveReader(r, b) \/ ArchiveReader(r, b)
             \/ LinkTeacher(r)
      PROVE  ReadersInv' /\ BarredStep
  BY <1>4, ChangeAccessKeeps, SaveReaderKeeps, ArchiveReaderKeeps, LinkTeacherKeeps
<1>5. CASE UNCHANGED readerVars
  BY <1>5, ReaderStays
<1> QED BY <1>1, <1>2, <1>3, <1>4, <1>5 DEF ReaderNext

LEMMA OnlyOneGrant ==
    ASSUME ReadersInv, NEW r \in Readers
    PROVE  /\ Cardinality(OpenGrants(r)) <= 1
           /\ \A g \in OpenGrants(r) : SecretAsRead(r, grant[g].cv) => ~CodeThere(r, grant[g].issue)
<1>1. ASSUME NEW g \in OpenGrants(r), SecretAsRead(r, grant[g].cv)
      PROVE  ~CodeThere(r, grant[g].issue)
  <2>1. GrantSound(g) /\ grant[g].of = r
    BY DEF OpenGrants, ReadersInv, RecordsSound, GrantsFine
  <2>2. secret[r].code = 0 /\ grant[g].issue > 0
    BY <1>1, <2>1 DEF GrantSound, SecretAsRead
  <2> QED BY <2>2 DEF CodeThere
<1>2. CASE OpenGrants(r) = {}
  BY <1>1, <1>2, FS_EmptySet
<1>3. CASE OpenGrants(r) # {}
  <2>1. PICK g \in OpenGrants(r) : TRUE
    BY <1>3
  <2>2. \A h \in OpenGrants(r) : h = g
    BY DEF OpenGrants, ReadersInv, RecordsSound, GrantsFine
  <2>3. OpenGrants(r) = {g}
    BY <2>2
  <2>4. Cardinality(OpenGrants(r)) = 1
    BY <2>3, FS_Singleton
  <2> QED BY <1>1, <2>4
<1> QED BY <1>2, <1>3

LEMMA ReadersInvSound == ReadersInv => ReadersSound
<1> SUFFICES ASSUME ReadersInv PROVE ReadersSound
  OBVIOUS
<1>1. AcceptedIsCurrent
  <2> SUFFICES ASSUME NEW s \in Entries, ValidEntry(s)
               PROVE  /\ IF entry[s].chat = NoChat THEN entry[s].code = secret[entry[s].of].code
                         ELSE entry[s].chatVer = chat[entry[s].of].ver
                      /\ ~person[entry[s].of].linked
    BY DEF AcceptedIsCurrent
  <2>1. entry[s].status = "live" /\ EntrySound(s)
    BY DEF ValidEntry, ReadersInv, EntriesSound, EntriesFine
  <2>2. PICK r \in Readers : r = entry[s].of
    BY <2>1 DEF EntrySound
  <2>3. ~person[r].linked
    <3>1. Dated(r, entry[s].av) /\ person[r].av = entry[s].av
      BY <2>1, <2>2 DEF EntrySound, ValidEntry
    <3>2. person[r].av \in Nat
      BY DEF ReadersInv, ReaderTypeOK, PersonType
    <3> QED BY <3>1, <3>2 DEF Dated
  <2>4. CASE entry[s].chat = NoChat
    <3>1. entry[s].code = entry[s].cv /\ secret[r].ver = entry[s].cv
      BY <2>1, <2>2, <2>4 DEF EntrySound, ValidEntry, SecretAsRead
    <3>2. secret[r].code = secret[r].ver
      BY <2>2, <2>4 DEF ValidEntry, ReadersInv, RecordsSound, SecretsFine
    <3> QED BY <2>2, <2>3, <2>4, <3>1, <3>2
  <2>5. CASE entry[s].chat # NoChat
    BY <2>1, <2>2, <2>3, <2>5 DEF EntrySound, OfBinding
  <2> QED BY <2>4, <2>5
<1>2. OnePinPerCode
  BY OnlyOneGrant DEF OnePinPerCode, ReadersInv, EntriesSound, OneByIssue, OneByStart
<1>3. FewSessions
  BY DEF FewSessions, ReadersInv, EntriesSound, EntriesFew, ChatsFine, ChatsApart
<1> QED BY <1>1, <1>2, <1>3 DEF ReadersSound

LEMMA ReadersInvHolds == ReaderSpec => []ReadersInv
BY ReaderStart, ReaderStep, PTL DEF ReaderSpec

(* The rows and the plans of the handlers keep their types, whatever is    *)
(* run next to what.                                                       *)
THEOREM ReaderTyped == ReaderSpec => []ReaderTypeOK
<1>1. ReadersInv => ReaderTypeOK
  BY DEF ReadersInv
<1> QED BY <1>1, ReadersInvHolds, PTL

(* Every session the cabinet accepts was opened with the PIN or the        *)
(* binding of now and is of no teacher; one temporary code sets one PIN    *)
(* and one launch opens one session; a reader has no more sessions than    *)
(* pruning leaves and the new one, and no two readers share a chat: for    *)
(* any number of readers, chats, passes and handlers at once.              *)
THEOREM ReadersSafe == ReaderSpec => []ReadersSound
BY ReadersInvHolds, ReadersInvSound, PTL

(* A card is opened again, after it was blocked or archived, by the        *)
(* librarian's steps alone, which count up the version of the access.      *)
THEOREM BarredStays == ReaderSpec => [][BarredStep]_readerVars
BY ReadersInvHolds, ReaderStep, PTL DEF ReaderSpec

=============================================================================
