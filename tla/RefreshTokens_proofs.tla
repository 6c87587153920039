------------------------ MODULE RefreshTokens_proofs ------------------------
(***************************************************************************)
(* Proofs, for any number of users, tokens and requests and for any        *)
(* lifetimes, of the safety properties of RefreshTokens.                   *)
(***************************************************************************)
EXTENDS RefreshTokens, FiniteSetTheorems, TLAPS

LEMMA LocalType ==
    ASSUME NEW pc \in Place, NEW u \in User \cup {NoUser},
           NEW t \in Token \cup {NoToken}, NEW at \in Nat
    PROVE  At(pc, u, t, at) \in Local
  BY DEF At, Local

LEMMA IdleType == Idle \in Local
  BY DEF Idle, At, Local, Place

-----------------------------------------------------------------------------
\* Type correctness, action by action

LEMMA InitTypeOK == Init => TypeOK
  BY IdleType DEF Init, TypeOK, Row, NULL

LEMMA NextTypeOK == TypeOK /\ [Next]_vars => TypeOK'
<1> SUFFICES ASSUME TypeOK, [Next]_vars PROVE TypeOK'
    OBVIOUS
<1> USE LifetimesAssumption, NoneAssumption DEF TypeOK
<1>1. ASSUME NEW r \in Request, NEW u \in User, LoginCheck(r, u)
      PROVE  TypeOK'
  BY <1>1, LocalType DEF LoginCheck, Goto, Place, userVars, tableVars, clients, history
<1>2. ASSUME NEW r \in Request, LoginRecord(r)
      PROVE  TypeOK'
  <2>1. req[r] \in Local
    OBVIOUS
  <2>2. At("issue", req[r].user, NoToken, now) \in Local
    BY <2>1, LocalType DEF Place, Local
  <2>3. req' \in [Request -> Local]
    BY <1>2, <2>2 DEF LoginRecord, Goto
  <2>4. lastLogin' \in [User -> Nat \cup {NULL}]
    BY <1>2, <2>1 DEF LoginRecord, Local
  <2>5. QED
    BY <1>2, <2>3, <2>4 DEF LoginRecord, tableVars, clients, history
<1>3. ASSUME NEW r \in Request, NEW t \in Token, RefreshStart(r, t)
      PROVE  TypeOK'
  BY <1>3, LocalType DEF RefreshStart, Goto, Place, userVars, tableVars, clients, history
<1>4. ASSUME NEW r \in Request, RefreshLock(r)
      PROVE  TypeOK'
  <2>1. req[r] \in Local
    OBVIOUS
  <2>2. req' \in [Request -> Local]
    <3>1. CASE Active(req[r].tok, req[r].at)
      <4>1. row[req[r].tok].user \in User \cup {NoUser}
        BY <3>1 DEF Active, Unrevoked, Row
      <4>2. At("revoke", row[req[r].tok].user, req[r].tok, req[r].at) \in Local
        BY <2>1, <4>1, LocalType DEF Place, Local
      <4>3. QED
        BY <1>4, <3>1, <4>2 DEF RefreshLock, Goto
    <3>2. CASE ~Active(req[r].tok, req[r].at)
      BY <1>4, <3>2, IdleType DEF RefreshLock, Goto, Finish
    <3>3. QED
      BY <3>1, <3>2
  <2>3. QED
    BY <1>4, <2>2 DEF RefreshLock, userVars, tableVars, clients, history
<1>5. ASSUME NEW r \in Request, RefreshRevoke(r)
      PROVE  TypeOK'
  <2>1. req[r] \in Local
    OBVIOUS
  <2>2. row' \in [Token -> Row]
    <3>1. row' = [row EXCEPT ![req[r].tok].revokedAt = req[r].at]
      BY <1>5 DEF RefreshRevoke, Revoke
    <3>2. req[r].at \in Nat
      BY <2>1 DEF Local
    <3>3. \A a \in Token : [row[a] EXCEPT !.revokedAt = req[r].at] \in Row
      BY <3>2 DEF Row
    <3>4. QED
      BY <3>1, <3>3
  <2>3. At("reload", req[r].user, req[r].tok, now) \in Local
    BY <2>1, LocalType DEF Place, Local
  <2>4. req' \in [Request -> Local]
    BY <1>5, <2>3 DEF RefreshRevoke, Goto
  <2>5. QED
    BY <1>5, <2>2, <2>4 DEF RefreshRevoke, userVars, clients, history
<1>6. ASSUME NEW r \in Request, RefreshReload(r)
      PROVE  TypeOK'
  <2>1. req[r] \in Local
    OBVIOUS
  <2>2. At("issue", req[r].user, req[r].tok, now) \in Local
    BY <2>1, LocalType DEF Place, Local
  <2>3. req' \in [Request -> Local]
    BY <1>6, <2>2, IdleType DEF RefreshReload, Goto, Finish
  <2>4. QED
    BY <1>6, <2>3 DEF RefreshReload, userVars, tableVars, clients, history
<1>7. ASSUME NEW r \in Request, NEW n \in Token, Issue(r, n)
      PROVE  TypeOK'
  <2>1. req[r] \in Local
    OBVIOUS
  <2>2. row' \in [Token -> Row]
    BY <1>7, <2>1 DEF Issue, Row, Local, NULL
  <2>3. At("respond", req[r].user, n, now) \in Local
    BY <2>1, LocalType DEF Place, Local
  <2>4. req' \in [Request -> Local]
    BY <1>7, <2>3 DEF Issue, Goto
  <2>5. parent' \in [Token -> Token \cup {NoToken}]
    BY <1>7, <2>1 DEF Issue, Local
  <2>6. session' \in [Token -> Token]
    BY <1>7, <2>1 DEF Issue, Local
  <2>7. QED
    BY <1>7, <2>2, <2>4, <2>5, <2>6 DEF Issue, userVars, clients
<1>8. ASSUME NEW r \in Request, Respond(r)
      PROVE  TypeOK'
  BY <1>8, IdleType
     DEF Respond, Goto, Finish, userVars, tableVars, history, Local
<1>9. ASSUME NEW r \in Request, NEW u \in User, NEW t \in Token, LogoutRead(r, u, t)
      PROVE  TypeOK'
  BY <1>9, LocalType
     DEF LogoutRead, Goto, Place, userVars, tableVars, history
<1>10. ASSUME NEW r \in Request, LogoutSave(r)
      PROVE  TypeOK'
  BY <1>10, IdleType
     DEF LogoutSave, Revoke, Goto, Finish, userVars, history, Local, Row
<1>11. ASSUME NEW r \in Request, PurgeSelect(r)
      PROVE  TypeOK'
  BY <1>11, IdleType
     DEF PurgeSelect, Goto, Place, userVars, tableVars, clients, history, Local
<1>12. ASSUME NEW r \in Request, PurgeDelete(r)
      PROVE  TypeOK'
  BY <1>12, IdleType
     DEF PurgeDelete, Goto, Finish, userVars, clients, history
<1>13. ASSUME NEW r \in Request, Abort(r)
      PROVE  TypeOK'
  BY <1>13, IdleType
     DEF Abort, Goto, Finish, userVars, tableVars, clients, history
<1>14. ASSUME NEW u \in User, SetActive(u)
      PROVE  TypeOK'
  BY <1>14 DEF SetActive, tableVars, clients, history
<1>15. CASE Tick
  BY <1>15 DEF Tick, userVars, tableVars, clients, history
<1>16. CASE UNCHANGED vars
  BY <1>16 DEF vars, userVars, tableVars, clients, history
<1>17. QED
  BY <1>1, <1>2, <1>3, <1>4, <1>5, <1>6, <1>7, <1>8, <1>9, <1>10, <1>11,
     <1>12, <1>13, <1>14, <1>15, <1>16 DEF Next, Begin, Advance

\* Every variable keeps its type: in particular no request ever acts on a
\* token, a user or a clock value it has not read.
THEOREM TypeCorrect == Spec => []TypeOK
<1>1. Init => TypeOK
  BY InitTypeOK
<1>2. TypeOK /\ [Next]_vars => TypeOK'
  BY NextTypeOK
<1>3. QED
  BY <1>1, <1>2, PTL DEF Spec

-----------------------------------------------------------------------------
\* The inductive invariant

LEMMA InitRotationInv == Init => RotationInv
<1> SUFFICES ASSUME Init PROVE RotationInv
    OBVIOUS
<1>1. TypeOK
  BY InitTypeOK
<1>2. \A r \in Request : req[r].pc = "idle" /\ req[r].ids = {}
  BY DEF Init, Idle, At
<1>3. stored = {} /\ minted = {} /\ known = {} /\ loggedOut = {}
  BY DEF Init
<1>4. QED
  BY <1>1, <1>2, <1>3
     DEF RotationInv, Provenance, LockInv, SpentInv, SessionInv, PurgeInv, SingleUse,
         OneLivePerSession, LogoutSticks, UndeliveredUntouched, Unrevoked, Redeeming

\* A request that has redeemed nothing, locked nothing and selected nothing.
Harmless(l) ==
    /\ l.pc \notin {"revoke", "reload", "respond", "delete"}
    /\ l.pc = "issue" => l.tok = NoToken
    /\ l.pc \in {"lock", "save"} => l.tok \in known
    /\ l.ids = {}

\* Most steps only move one request to such a place.
LEMMA HarmlessStep ==
    ASSUME RotationInv, TypeOK', NEW r \in Request, NEW l,
           Harmless(l), Goto(r, l),
           now' = now, UNCHANGED tableVars, UNCHANGED history,
           known' = known, loggedOut' = loggedOut
    PROVE  RotationInv'
<1> USE DEF RotationInv, Harmless
<1>1. req' = [req EXCEPT ![r] = l] /\ req'[r] = l
  BY DEF Goto, TypeOK
<1>2. \A q \in Request : q # r => req'[q] = req[q]
  BY <1>1 DEF TypeOK
<1>3. stored' = stored /\ row' = row /\ minted' = minted /\ parent' = parent
      /\ session' = session
  BY DEF tableVars, history
<1>4. \A t \in Token : Unrevoked(t)' <=> Unrevoked(t)
  BY <1>3 DEF Unrevoked
<1>5. Provenance'
  BY <1>1, <1>2, <1>3 DEF Provenance
<1>6. LockInv'
  BY <1>1, <1>2, <1>3 DEF LockInv, Unrevoked
<1>7. \A q \in Request : Redeeming(q)' => q # r /\ Redeeming(q)
  BY <1>1, <1>2 DEF Redeeming
<1>8. SpentInv'
  BY <1>2, <1>3, <1>7 DEF SpentInv, Unrevoked
<1>9. SessionInv'
  BY <1>2, <1>3, <1>7 DEF SessionInv, OneLivePerSession, Unrevoked
<1>10. PurgeInv'
  BY <1>1, <1>2, <1>3 DEF PurgeInv, Active, Unrevoked
<1>11. SingleUse' /\ LogoutSticks' /\ UndeliveredUntouched'
  BY <1>3 DEF SingleUse, LogoutSticks, UndeliveredUntouched, Unrevoked
<1>12. QED
  BY <1>5, <1>6, <1>8, <1>9, <1>10, <1>11

\* Winning the row: nobody else holds it, and it is unrevoked from now on.
LEMMA RefreshLockInv ==
    ASSUME RotationInv, TypeOK', NEW r \in Request, RefreshLock(r)
    PROVE  RotationInv'
<1> USE DEF RotationInv
<1> DEFINE t == req[r].tok
<1>1. UNCHANGED tableVars /\ UNCHANGED history /\ now' = now
      /\ known' = known /\ loggedOut' = loggedOut
  BY DEF RefreshLock, clients
<1>2. CASE ~Active(t, req[r].at)
  <2>1. Harmless(Idle)
    BY DEF Harmless, Idle, At
  <2>2. Goto(r, Idle)
    BY <1>2 DEF RefreshLock, Finish
  <2>3. QED
    BY <1>1, <2>1, <2>2, HarmlessStep
<1>3. CASE Active(t, req[r].at)
  <2>1. /\ req' = [req EXCEPT ![r] = At("revoke", row[t].user, t, req[r].at)]
        /\ RowUnlocked(t)
        /\ req[r].pc = "lock"
    BY <1>3 DEF RefreshLock, Goto
  <2>2. /\ req'[r].pc = "revoke" /\ req'[r].tok = t /\ req'[r].ids = {}
        /\ \A q \in Request : q # r => req'[q] = req[q]
    BY <2>1 DEF TypeOK, At
  <2>3. stored' = stored /\ row' = row /\ minted' = minted /\ parent' = parent
        /\ session' = session
    BY <1>1 DEF tableVars, history
  <2>4. Provenance'
    <3>1. /\ stored' \subseteq minted' /\ known' \subseteq minted' /\ loggedOut' \subseteq known'
          /\ \A a \in minted' : session'[a] \in minted'
          /\ \A a \in minted' : parent'[a] \in minted' \cup {NoToken}
      BY <1>1, <2>3 DEF Provenance
    <3>2. t \in known
      BY <2>1 DEF Provenance
    <3>3. QED
      BY <1>1, <2>2, <2>3, <3>1, <3>2 DEF Provenance
  <2>5. LockInv'
    <3>1. \A q \in Request : Unrevoked(req[q].tok)' <=> req'[q].tok \in stored
                                  /\ row[req'[q].tok].revokedAt = NULL
      BY <2>3 DEF Unrevoked
    <3>2. \A q \in Request : req'[q].pc = "revoke" => Unrevoked(req[q].tok)'
      BY <1>3, <2>2, <3>1 DEF LockInv, Unrevoked, Active
    <3>3. \A q \in Request \ {r} : req'[q].pc = "revoke" => req'[q].tok # t
      BY <2>1, <2>2 DEF RowUnlocked
    <3>4. \A p, q \in Request \ {r} :
             req'[p].pc = "revoke" /\ req'[q].pc = "revoke" /\ req'[p].tok = req'[q].tok
             => p = q
      BY <2>2 DEF LockInv
    <3>5. QED
      BY <2>2, <3>2, <3>3, <3>4 DEF LockInv
  <2>6. \A q \in Request : Redeeming(q)' => q # r /\ Redeeming(q)
    BY <2>2 DEF Redeeming
  <2>7. SpentInv'
    BY <2>2, <2>3, <2>6 DEF SpentInv, Unrevoked
  <2>8. SessionInv'
    BY <2>2, <2>3, <2>6 DEF SessionInv, OneLivePerSession, Unrevoked
  <2>9. PurgeInv'
    BY <1>1, <2>2, <2>3 DEF PurgeInv, Active, Unrevoked
  <2>10. SingleUse' /\ LogoutSticks' /\ UndeliveredUntouched'
    BY <1>1, <2>3 DEF SingleUse, LogoutSticks, UndeliveredUntouched, Unrevoked
  <2>11. QED
    BY <2>4, <2>5, <2>7, <2>8, <2>9, <2>10
<1>4. QED
  BY <1>2, <1>3

\* The row that was the session's only live one stops being it in the step in
\* which the request becomes the session's only exchange.
LEMMA RefreshRevokeInv ==
    ASSUME RotationInv, TypeOK', NEW r \in Request, RefreshRevoke(r)
    PROVE  RotationInv'
<1> USE DEF RotationInv
<1>0. req[r].pc = "revoke"
  BY DEF RefreshRevoke
<1>t. PICK t \in Token : t = req[r].tok /\ t \in known
  BY <1>0 DEF Provenance, TypeOK
<1>1. /\ req[r].pc = "revoke"
      /\ row' = [row EXCEPT ![t].revokedAt = req[r].at]
      /\ req' = [req EXCEPT ![r] = At("reload", req[r].user, t, now)]
      /\ stored' = stored /\ minted' = minted /\ parent' = parent /\ session' = session
      /\ now' = now /\ known' = known /\ loggedOut' = loggedOut
  BY <1>t DEF RefreshRevoke, Revoke, Goto, clients, history
<1>2. /\ req[r].tok = t /\ req'[r].pc = "reload" /\ req'[r].tok = t /\ req'[r].ids = {}
      /\ \A q \in Request : q # r => req'[q] = req[q]
  BY <1>t, <1>1 DEF TypeOK, At
<1>3. t \in Token /\ t \in known /\ Unrevoked(t) /\ t # NoToken
  BY <1>0, <1>t, NoneAssumption DEF LockInv
<1>4. /\ row'[t].revokedAt = req[r].at /\ req[r].at # NULL
      /\ \A a \in Token : a # t => row'[a] = row[a]
      /\ \A a \in Token : row'[a].expiresAt = row[a].expiresAt
  BY <1>1, <1>3 DEF TypeOK, Local, Row, NULL
<1>5. ~Unrevoked(t)' /\ \A a \in Token : Unrevoked(a)' => a # t /\ Unrevoked(a)
  BY <1>1, <1>3, <1>4 DEF Unrevoked
<1>6. Provenance'
  BY <1>1, <1>2, <1>3 DEF Provenance
<1>7. LockInv'
  BY <1>1, <1>2, <1>3, <1>4 DEF LockInv, Unrevoked, TypeOK, Local
<1>8. \A q \in Request : Redeeming(q)' => q = r \/ Redeeming(q)
  BY <1>2 DEF Redeeming
<1>9. SpentInv'
  <2>1. \A a \in minted : parent[a] # t
    BY <1>3 DEF SpentInv
  <2>2. \A a \in minted' : parent'[a] # NoToken => ~Unrevoked(parent[a])'
    BY <1>1, <1>5 DEF SpentInv, TypeOK
  <2>3. \A q \in Request : Redeeming(q)' =>
           ~Unrevoked(req[q].tok)' /\ \A a \in minted' : parent'[a] # req'[q].tok
    <3> SUFFICES ASSUME NEW q \in Request, Redeeming(q)'
                 PROVE  ~Unrevoked(req[q].tok)' /\ \A a \in minted' : parent'[a] # req'[q].tok
        OBVIOUS
    <3>1. CASE q = r
      BY <1>1, <1>2, <1>5, <2>1, <3>1
    <3>2. CASE q # r
      <4>1. Redeeming(q) /\ req'[q].tok = req[q].tok /\ req[q].tok \in Token
        BY <1>2, <1>8, <3>2 DEF TypeOK, Local, Redeeming
      <4>2. QED
        BY <1>1, <1>5, <4>1 DEF SpentInv
    <3>3. QED
      BY <3>1, <3>2
  <2>4. QED
    BY <2>2, <2>3 DEF SpentInv
<1>10. SessionInv'
  <2>1. OneLivePerSession'
    BY <1>1, <1>5 DEF SessionInv, OneLivePerSession, TypeOK
  <2>2. \A q \in Request, a \in stored' :
           Redeeming(q)' /\ Unrevoked(a)' => session'[a] # session'[req'[q].tok]
    BY <1>1, <1>2, <1>3, <1>5, <1>8 DEF SessionInv, OneLivePerSession, TypeOK, Unrevoked
  <2>3. \A q \in Request : q # r => ~(Redeeming(q) /\ session[req[q].tok] = session[t])
    BY <1>3 DEF SessionInv, Unrevoked
  <2>4. \A p, q \in Request :
           Redeeming(p)' /\ Redeeming(q)' /\ session'[req'[p].tok] = session'[req'[q].tok]
           => p = q
    BY <1>1, <1>2, <1>8, <2>3 DEF SessionInv
  <2>5. QED
    BY <2>1, <2>2, <2>4 DEF SessionInv
<1>11. PurgeInv'
  BY <1>1, <1>2, <1>4, <1>5 DEF PurgeInv, Active, TypeOK, Local
<1>12. SingleUse' /\ LogoutSticks'
  BY <1>1, <1>5 DEF SingleUse, LogoutSticks, TypeOK
<1>13. UndeliveredUntouched'
  BY <1>1, <1>3, <1>4 DEF UndeliveredUntouched, TypeOK
<1>14. QED
  BY <1>6, <1>7, <1>9, <1>10, <1>11, <1>12, <1>13

\* Going on to issue: the same exchange, one place further.
LEMMA RefreshReloadInv ==
    ASSUME RotationInv, TypeOK', NEW r \in Request, RefreshReload(r)
    PROVE  RotationInv'
<1> USE DEF RotationInv
<1> DEFINE t == req[r].tok
<1>1. /\ UNCHANGED tableVars /\ UNCHANGED history /\ now' = now
      /\ known' = known /\ loggedOut' = loggedOut
      /\ req[r].pc = "reload"
  BY DEF RefreshReload, clients
<1>2. stored' = stored /\ row' = row /\ minted' = minted /\ parent' = parent
      /\ session' = session
  BY <1>1 DEF tableVars, history
<1>3. CASE Finish(r)
  <2>1. Harmless(Idle)
    BY DEF Harmless, Idle, At
  <2>2. QED
    BY <1>1, <1>3, <2>1, HarmlessStep DEF Finish
<1>4. CASE Goto(r, At("issue", req[r].user, t, now))
  <2>1. /\ req'[r].pc = "issue" /\ req'[r].tok = t /\ req'[r].ids = {}
        /\ \A q \in Request : q # r => req'[q] = req[q]
    BY <1>4 DEF Goto, TypeOK, At
  <2>2. Provenance'
    BY <1>1, <1>2, <2>1 DEF Provenance
  <2>3. LockInv'
    BY <1>2, <2>1 DEF LockInv, Unrevoked
  <2>4. \A q \in Request : (Redeeming(q)' <=> Redeeming(q)) /\ req'[q].tok = req[q].tok
    BY <1>1, <2>1 DEF Redeeming
  <2>5. SpentInv'
    BY <1>2, <2>4 DEF SpentInv, Unrevoked
  <2>6. SessionInv'
    BY <1>2, <2>4 DEF SessionInv, OneLivePerSession, Unrevoked
  <2>7. PurgeInv'
    BY <1>1, <1>2, <2>1 DEF PurgeInv, Active, Unrevoked
  <2>8. SingleUse' /\ LogoutSticks' /\ UndeliveredUntouched'
    BY <1>1, <1>2 DEF SingleUse, LogoutSticks, UndeliveredUntouched, Unrevoked
  <2>9. QED
    BY <2>2, <2>3, <2>5, <2>6, <2>7, <2>8
<1>5. QED
  BY <1>3, <1>4 DEF RefreshReload

\* A fresh row takes the place of the exchange that produced it, or opens a
\* session of its own.
LEMMA IssueInv ==
    ASSUME RotationInv, TypeOK', NEW r \in Request, NEW n \in Token, Issue(r, n)
    PROVE  RotationInv'
<1> USE DEF RotationInv
<1>1. PICK t \in Token \cup {NoToken} : t = req[r].tok
  BY DEF TypeOK, Local
<1>2. /\ req[r].pc = "issue" /\ n \notin minted
      /\ stored' = stored \cup {n} /\ minted' = minted \cup {n}
      /\ now' = now /\ known' = known /\ loggedOut' = loggedOut
  BY DEF Issue, clients
<1>3. /\ req'[r].pc = "respond" /\ req'[r].tok = n /\ req'[r].ids = {}
      /\ \A q \in Request : q # r => req'[q] = req[q]
  BY DEF Issue, Goto, TypeOK, At
<1>4. /\ parent'[n] = t /\ session'[n] = (IF t = NoToken THEN n ELSE session[t])
      /\ row'[n].revokedAt = NULL
      /\ \A a \in Token : a # n => /\ row'[a] = row[a]
                                   /\ parent'[a] = parent[a]
                                   /\ session'[a] = session[a]
  BY <1>1 DEF Issue, TypeOK
<1>5. \A a \in Token : Unrevoked(a)' <=> (a = n \/ Unrevoked(a))
  BY <1>2, <1>4 DEF Unrevoked
<1>6. \A q \in Request : Redeeming(q)' <=> q # r /\ Redeeming(q)
  BY <1>3 DEF Redeeming
<1>7. t \in known \cup {NoToken} /\ stored \subseteq minted /\ known \subseteq minted
  BY <1>1, <1>2 DEF Provenance
<1>8. Provenance'
  BY <1>2, <1>3, <1>4, <1>7 DEF Provenance, TypeOK
<1>9. LockInv'
  <2>1. \A q \in Request : req'[q].pc = "revoke" => q # r /\ req'[q] = req[q]
    BY <1>3
  <2>2. \A q \in Request : req'[q].pc = "revoke" => Unrevoked(req[q].tok)'
    BY <1>5, <2>1 DEF LockInv, Provenance, TypeOK
  <2>3. QED
    BY <1>3, <2>1, <2>2 DEF LockInv
<1>10. SpentInv'
  <2>1. \A a \in minted' : parent'[a] # NoToken => ~Unrevoked(parent[a])'
    <3> SUFFICES ASSUME NEW a \in minted', parent'[a] # NoToken
                 PROVE  ~Unrevoked(parent[a])'
        OBVIOUS
    <3>1. CASE a = n
      <4>1. Redeeming(r) /\ t # NoToken
        BY <1>1, <1>2, <1>4, <3>1 DEF Redeeming
      <4>2. ~Unrevoked(t) /\ t \in Token /\ t # n
        BY <1>1, <1>2, <1>7, <4>1 DEF SpentInv, TypeOK
      <4>3. QED
        BY <1>4, <1>5, <3>1, <4>2
    <3>2. CASE a # n
      <4>1. a \in minted /\ parent'[a] = parent[a] /\ parent[a] \in minted
        BY <1>2, <1>4, <3>2 DEF Provenance, TypeOK
      <4>2. ~Unrevoked(parent[a]) /\ parent[a] # n
        BY <1>2, <4>1, NoneAssumption DEF SpentInv, TypeOK
      <4>3. QED
        BY <1>5, <4>1, <4>2 DEF TypeOK
    <3>3. QED
      BY <3>1, <3>2
  <2>2. \A q \in Request : Redeeming(q)' =>
           ~Unrevoked(req[q].tok)' /\ \A a \in minted' : parent'[a] # req'[q].tok
    <3> SUFFICES ASSUME NEW q \in Request, Redeeming(q)'
                 PROVE  /\ ~Unrevoked(req[q].tok)'
                        /\ \A a \in minted' : parent'[a] # req'[q].tok
        OBVIOUS
    <3>1. q # r /\ Redeeming(q) /\ req'[q] = req[q] /\ req[q].tok \in minted
      BY <1>3, <1>6 DEF Provenance, Redeeming
    <3>2. ~Unrevoked(req[q].tok) /\ \A a \in minted : parent[a] # req[q].tok
      BY <3>1 DEF SpentInv
    <3>3. t # req[q].tok
      BY <1>1, <1>2, <3>1 DEF SessionInv, Redeeming
    <3>4. QED
      BY <1>2, <1>4, <1>5, <3>1, <3>2, <3>3 DEF TypeOK
  <2>3. QED
    BY <2>1, <2>2 DEF SpentInv
<1>11. SessionInv'
  <2>1. \A a \in minted : session[a] # session'[n] \/ (t # NoToken /\ Redeeming(r))
    <3>1. CASE t = NoToken
      BY <1>2, <1>4, <3>1 DEF Provenance
    <3>2. CASE t # NoToken
      BY <1>1, <1>2, <3>2 DEF Redeeming
    <3>3. QED
      BY <3>1, <3>2
  <2>2. \A a \in stored : Unrevoked(a) => session[a] # session'[n]
    BY <1>1, <1>4, <1>7, <2>1 DEF SessionInv
  <2>3. \A q \in Request : q # r /\ Redeeming(q) => session[req[q].tok] # session'[n]
    BY <1>1, <1>4, <1>7, <2>1 DEF SessionInv, Provenance, Redeeming
  <2>4. \A q \in Request : Redeeming(q)' =>
           /\ q # r /\ Redeeming(q) /\ req'[q] = req[q]
           /\ session'[req'[q].tok] = session[req[q].tok]
    BY <1>2, <1>3, <1>4, <1>6 DEF Provenance, Redeeming, TypeOK
  <2>5. \A a \in stored' : Unrevoked(a)' =>
           a = n \/ (a \in stored /\ Unrevoked(a) /\ session'[a] = session[a])
    <3> SUFFICES ASSUME NEW a \in stored', Unrevoked(a)', a # n
                 PROVE  a \in stored /\ Unrevoked(a) /\ session'[a] = session[a]
        OBVIOUS
    <3>1. a \in stored /\ a \in Token
      BY <1>2 DEF TypeOK
    <3>2. QED
      BY <1>4, <1>5, <3>1
  <2>6. OneLivePerSession'
    BY <2>2, <2>5 DEF OneLivePerSession, SessionInv
  <2>7. \A q \in Request, a \in stored' :
           Redeeming(q)' /\ Unrevoked(a)' => session'[a] # session'[req'[q].tok]
    BY <2>3, <2>4, <2>5 DEF SessionInv
  <2>8. \A p, q \in Request :
           Redeeming(p)' /\ Redeeming(q)' /\ session'[req'[p].tok] = session'[req'[q].tok]
           => p = q
    BY <2>4 DEF SessionInv
  <2>9. QED
    BY <2>6, <2>7, <2>8 DEF SessionInv
<1>12. PurgeInv'
  BY <1>2, <1>3, <1>4, <1>5 DEF PurgeInv, Active, Provenance, TypeOK
<1>13. SingleUse'
  <2>1. \A a \in minted : t # NoToken => parent[a] # t
    BY <1>1, <1>2 DEF SpentInv, Redeeming
  <2>2. QED
    BY <1>2, <1>4, <2>1 DEF SingleUse, TypeOK
<1>14. LogoutSticks' /\ UndeliveredUntouched'
  BY <1>2, <1>4, <1>5, <1>7 DEF LogoutSticks, UndeliveredUntouched, Provenance, TypeOK
<1>15. QED
  BY <1>8, <1>9, <1>10, <1>11, <1>12, <1>13, <1>14

\* Delivering a token adds it to what clients know, and nothing else.
LEMMA RespondInv ==
    ASSUME RotationInv, TypeOK', NEW r \in Request, Respond(r)
    PROVE  RotationInv'
<1> USE DEF RotationInv
<1>1. /\ req' = [req EXCEPT ![r] = Idle]
      /\ stored' = stored /\ row' = row /\ minted' = minted /\ parent' = parent
      /\ session' = session /\ now' = now /\ loggedOut' = loggedOut
  BY DEF Respond, Finish, Goto, tableVars, history
<1>2. /\ req'[r].pc = "idle" /\ req'[r].ids = {}
      /\ \A q \in Request : q # r => req'[q] = req[q]
  BY <1>1 DEF TypeOK, Idle, At
<1>3. known \subseteq known' /\ known' \subseteq minted
  BY DEF Respond, Provenance
<1>4. Provenance'
  BY <1>1, <1>2, <1>3 DEF Provenance
<1>5. LockInv'
  BY <1>1, <1>2 DEF LockInv, Unrevoked
<1>6. \A q \in Request : Redeeming(q)' => q # r /\ Redeeming(q)
  BY <1>2 DEF Redeeming
<1>7. SpentInv'
  BY <1>1, <1>2, <1>6 DEF SpentInv, Unrevoked
<1>8. SessionInv'
  BY <1>1, <1>2, <1>6 DEF SessionInv, OneLivePerSession, Unrevoked
<1>9. PurgeInv'
  BY <1>1, <1>2 DEF PurgeInv, Active, Unrevoked
<1>10. SingleUse' /\ LogoutSticks' /\ UndeliveredUntouched'
  BY <1>1, <1>3 DEF SingleUse, LogoutSticks, UndeliveredUntouched, Unrevoked
<1>11. QED
  BY <1>4, <1>5, <1>7, <1>8, <1>9, <1>10

\* Either the row is still unrevoked and a write follows, or the token is
\* already dead and the 204 claims no more than that.
LEMMA LogoutReadInv ==
    ASSUME RotationInv, TypeOK', NEW r \in Request, NEW u \in User, NEW t \in Token,
           LogoutRead(r, u, t)
    PROVE  RotationInv'
<1> USE DEF RotationInv
<1>1. /\ UNCHANGED tableVars /\ UNCHANGED history /\ now' = now /\ known' = known
      /\ t \in known
  BY DEF LogoutRead
<1>2. CASE Goto(r, At("save", u, t, now)) /\ UNCHANGED loggedOut
  <2>1. Harmless(At("save", u, t, now))
    BY <1>1 DEF Harmless, At
  <2>2. QED
    BY <1>1, <1>2, <2>1, HarmlessStep
<1>3. CASE row[t].revokedAt # NULL /\ loggedOut' = loggedOut \cup {t} /\ UNCHANGED req
  <2>1. stored' = stored /\ row' = row /\ minted' = minted /\ parent' = parent
        /\ session' = session
    BY <1>1 DEF tableVars, history
  <2>2. Provenance' /\ LockInv' /\ SpentInv' /\ SessionInv' /\ PurgeInv'
    BY <1>1, <1>3, <2>1
       DEF Provenance, LockInv, SpentInv, SessionInv, PurgeInv, OneLivePerSession,
           Redeeming, Active, Unrevoked
  <2>3. SingleUse' /\ LogoutSticks' /\ UndeliveredUntouched'
    BY <1>1, <1>3, <2>1 DEF SingleUse, LogoutSticks, UndeliveredUntouched, Unrevoked
  <2>4. QED
    BY <2>2, <2>3
<1>4. QED
  BY <1>2, <1>3 DEF LogoutRead

\* The unconditional write can only turn a live row into a dead one, and it
\* waits for the row lock, so no holder sees its row change.
LEMMA LogoutSaveInv ==
    ASSUME RotationInv, TypeOK', NEW r \in Request, LogoutSave(r)
    PROVE  RotationInv'
<1> USE DEF RotationInv
<1>1. PICK t \in Token : t = req[r].tok /\ t \in known
  BY DEF LogoutSave, Provenance, TypeOK
<1>2. /\ req' = [req EXCEPT ![r] = Idle] /\ RowUnlocked(t)
      /\ stored' = stored /\ minted' = minted /\ parent' = parent /\ session' = session
      /\ now' = now /\ known' = known
  BY <1>1 DEF LogoutSave, Finish, Goto, history
<1>3. /\ req'[r].pc = "idle" /\ req'[r].ids = {}
      /\ \A q \in Request : q # r => req'[q] = req[q]
  BY <1>2 DEF TypeOK, Idle, At
<1>4. req[r].at # NULL
  BY DEF TypeOK, Local, NULL
<1>5. /\ \A a \in Token : a # t => row'[a] = row[a]
      /\ \A a \in Token : row'[a].expiresAt = row[a].expiresAt
      /\ t \in stored => row'[t].revokedAt # NULL
      /\ t \notin stored => row' = row
  BY <1>1, <1>4 DEF LogoutSave, Revoke, TypeOK, Row
<1>6. \A a \in Token : Unrevoked(a)' => a # t /\ Unrevoked(a)
  BY <1>2, <1>5 DEF Unrevoked
<1>7. \A q \in Request : Redeeming(q)' => q # r /\ Redeeming(q)
  BY <1>3 DEF Redeeming
<1>8. Provenance'
  BY <1>1, <1>2, <1>3 DEF Provenance, LogoutSave
<1>9. LockInv'
  <2>1. \A q \in Request : req'[q].pc = "revoke" =>
           q # r /\ req'[q] = req[q] /\ req[q].tok # t
    BY <1>2, <1>3 DEF RowUnlocked
  <2>2. QED
    BY <1>2, <1>5, <2>1 DEF LockInv, Unrevoked, TypeOK
<1>10. SpentInv'
  <2>1. \A a \in minted' : parent'[a] # NoToken => ~Unrevoked(parent[a])'
    BY <1>2, <1>6 DEF SpentInv, TypeOK
  <2>2. \A q \in Request : Redeeming(q)' =>
           ~Unrevoked(req[q].tok)' /\ \A a \in minted' : parent'[a] # req'[q].tok
    <3> SUFFICES ASSUME NEW q \in Request, Redeeming(q)'
                 PROVE  /\ ~Unrevoked(req[q].tok)'
                        /\ \A a \in minted' : parent'[a] # req'[q].tok
        OBVIOUS
    <3>1. Redeeming(q) /\ req'[q] = req[q] /\ req[q].tok \in Token
      BY <1>3, <1>7 DEF TypeOK, Local, Redeeming
    <3>2. QED
      BY <1>2, <1>6, <3>1 DEF SpentInv
  <2>3. QED
    BY <2>1, <2>2 DEF SpentInv
<1>11. SessionInv'
  <2>1. OneLivePerSession'
    BY <1>2, <1>6 DEF SessionInv, OneLivePerSession, TypeOK
  <2>2. \A q \in Request : Redeeming(q)' => Redeeming(q) /\ req'[q] = req[q]
    BY <1>3, <1>7
  <2>3. \A q \in Request, a \in stored' :
           Redeeming(q)' /\ Unrevoked(a)' => session'[a] # session'[req'[q].tok]
    BY <1>2, <1>6, <2>2 DEF SessionInv, TypeOK
  <2>4. \A p, q \in Request :
           Redeeming(p)' /\ Redeeming(q)' /\ session'[req'[p].tok] = session'[req'[q].tok]
           => p = q
    BY <1>2, <2>2 DEF SessionInv
  <2>5. QED
    BY <2>1, <2>3, <2>4 DEF SessionInv
<1>12. PurgeInv'
  BY <1>2, <1>3, <1>5, <1>6 DEF PurgeInv, Active, TypeOK, Local
<1>13. SingleUse'
  BY <1>2 DEF SingleUse
<1>14. LogoutSticks'
  BY <1>1, <1>2, <1>5, <1>6 DEF LogoutSticks, LogoutSave, Unrevoked, TypeOK
<1>15. UndeliveredUntouched'
  BY <1>1, <1>2, <1>5 DEF UndeliveredUntouched, TypeOK
<1>16. QED
  BY <1>8, <1>9, <1>10, <1>11, <1>12, <1>13, <1>14, <1>15

\* Everything the WHERE clause selects is already dead.
LEMMA PurgeSelectInv ==
    ASSUME RotationInv, TypeOK', NEW r \in Request, PurgeSelect(r)
    PROVE  RotationInv'
<1> USE DEF RotationInv
<1>1. /\ stored' = stored /\ row' = row /\ minted' = minted /\ parent' = parent
      /\ session' = session /\ now' = now /\ known' = known /\ loggedOut' = loggedOut
  BY DEF PurgeSelect, tableVars, history, clients
<1>2. /\ req'[r].pc = "delete"
      /\ req'[r].ids = {t \in stored : PastRetention(t, now - Retention)}
      /\ \A q \in Request : q # r => req'[q] = req[q]
  BY DEF PurgeSelect, Goto, Idle, At, TypeOK
<1>3. \A t \in stored : PastRetention(t, now - Retention) => ~Active(t, now)
  BY LifetimesAssumption DEF PastRetention, Active, Unrevoked, TypeOK, Row
<1>4. Provenance'
  BY <1>1, <1>2 DEF Provenance
<1>5. LockInv'
  BY <1>1, <1>2 DEF LockInv, Unrevoked
<1>6. \A q \in Request : Redeeming(q)' => q # r /\ Redeeming(q)
  BY <1>2 DEF Redeeming
<1>7. SpentInv' /\ SessionInv'
  BY <1>1, <1>2, <1>6 DEF SpentInv, SessionInv, OneLivePerSession, Unrevoked
<1>8. PurgeInv'
  BY <1>1, <1>2, <1>3 DEF PurgeInv, Active, Unrevoked
<1>9. SingleUse' /\ LogoutSticks' /\ UndeliveredUntouched'
  BY <1>1 DEF SingleUse, LogoutSticks, UndeliveredUntouched, Unrevoked
<1>10. QED
  BY <1>4, <1>5, <1>7, <1>8, <1>9

\* Deleting rows that nobody holds locked takes nothing from anybody.
LEMMA PurgeDeleteInv ==
    ASSUME RotationInv, TypeOK', NEW r \in Request, PurgeDelete(r)
    PROVE  RotationInv'
<1> USE DEF RotationInv
<1>1. /\ row' = row /\ minted' = minted /\ parent' = parent
      /\ session' = session /\ now' = now /\ known' = known /\ loggedOut' = loggedOut
      /\ stored' = stored \ req[r].ids
      /\ \A t \in req[r].ids : RowUnlocked(t)
  BY DEF PurgeDelete, history, clients
<1>2. /\ req'[r].pc = "idle" /\ req'[r].ids = {}
      /\ \A q \in Request : q # r => req'[q] = req[q]
  BY DEF PurgeDelete, Finish, Goto, Idle, At, TypeOK
<1>3. \A a \in Token : Unrevoked(a)' => Unrevoked(a)
  BY <1>1 DEF Unrevoked
<1>4. Provenance'
  BY <1>1, <1>2 DEF Provenance
<1>5. LockInv'
  BY <1>1, <1>2 DEF LockInv, Unrevoked, RowUnlocked
<1>6. \A q \in Request : Redeeming(q)' => q # r /\ Redeeming(q) /\ req'[q] = req[q]
  BY <1>2 DEF Redeeming
<1>7. SpentInv'
  BY <1>1, <1>6 DEF SpentInv, Unrevoked
<1>8. SessionInv'
  BY <1>1, <1>6 DEF SessionInv, OneLivePerSession, Unrevoked
<1>9. PurgeInv'
  BY <1>1, <1>2 DEF PurgeInv, Active, Unrevoked
<1>10. SingleUse' /\ LogoutSticks' /\ UndeliveredUntouched'
  BY <1>1 DEF SingleUse, LogoutSticks, UndeliveredUntouched, Unrevoked
<1>11. QED
  BY <1>4, <1>5, <1>7, <1>8, <1>9, <1>10

LEMMA NextRotationInv == RotationInv /\ [Next]_vars => RotationInv'
<1> SUFFICES ASSUME RotationInv, [Next]_vars PROVE RotationInv'
    OBVIOUS
<1>0. TypeOK'
  BY NextTypeOK DEF RotationInv
<1>1. ASSUME NEW r \in Request, NEW u \in User, LoginCheck(r, u)
      PROVE  RotationInv'
  <2>1. Harmless(At("record", u, NoToken, now))
    BY DEF Harmless, At
  <2>2. QED
    BY <1>0, <1>1, <2>1, HarmlessStep DEF LoginCheck, clients
<1>2. ASSUME NEW r \in Request, LoginRecord(r)
      PROVE  RotationInv'
  <2>1. Harmless(At("issue", req[r].user, NoToken, now))
    BY DEF Harmless, At
  <2>2. QED
    BY <1>0, <1>2, <2>1, HarmlessStep DEF LoginRecord, clients
<1>3. ASSUME NEW r \in Request, NEW t \in Token, RefreshStart(r, t)
      PROVE  RotationInv'
  <2>1. Harmless(At("lock", NoUser, t, now))
    BY <1>3 DEF Harmless, At, RefreshStart
  <2>2. QED
    BY <1>0, <1>3, <2>1, HarmlessStep DEF RefreshStart, clients
<1>4. ASSUME NEW r \in Request, Abort(r)
      PROVE  RotationInv'
  <2>1. Harmless(Idle)
    BY DEF Harmless, Idle, At
  <2>2. QED
    BY <1>0, <1>4, <2>1, HarmlessStep DEF Abort, Finish, clients
<1>5. ASSUME UNCHANGED <<tableVars, req, clients, history>>, now' \in Nat, now' >= now
      PROVE  RotationInv'
  <2>1. /\ stored' = stored /\ row' = row /\ minted' = minted /\ parent' = parent
        /\ session' = session /\ known' = known /\ loggedOut' = loggedOut /\ req' = req
    BY <1>5 DEF tableVars, clients, history
  <2>2. PurgeInv'
    <3>1. \A t \in minted : ~Active(t, now) => ~Active(t, now)'
      BY <1>5, <2>1 DEF Active, Unrevoked, RotationInv, TypeOK, Row
    <3>2. QED
      BY <2>1, <3>1 DEF PurgeInv, RotationInv, Provenance
  <2>3. Provenance' /\ LockInv' /\ SpentInv' /\ SessionInv'
    BY <2>1 DEF RotationInv, Provenance, LockInv, SpentInv, SessionInv,
                OneLivePerSession, Redeeming, Unrevoked
  <2>4. SingleUse' /\ LogoutSticks' /\ UndeliveredUntouched'
    BY <2>1 DEF RotationInv, SingleUse, LogoutSticks, UndeliveredUntouched, Unrevoked
  <2>5. QED
    BY <1>0, <2>2, <2>3, <2>4 DEF RotationInv
<1>6. ASSUME NEW u \in User, SetActive(u)
      PROVE  RotationInv'
  BY <1>5, <1>6 DEF SetActive, RotationInv, TypeOK
<1>7. CASE Tick
  BY <1>5, <1>7 DEF Tick, RotationInv, TypeOK
<1>8. CASE UNCHANGED vars
  BY <1>5, <1>8 DEF vars, RotationInv, TypeOK
<1>9. QED
  BY <1>0, <1>1, <1>2, <1>3, <1>4, <1>6, <1>7, <1>8, RefreshLockInv, RefreshRevokeInv,
     RefreshReloadInv, IssueInv, RespondInv, LogoutReadInv, LogoutSaveInv,
     PurgeSelectInv, PurgeDeleteInv DEF Next, Begin, Advance

\* The conjunction of Provenance, LockInv, SpentInv, SessionInv and PurgeInv with
\* the safety properties is an invariant of login, refresh, logout and purge.
THEOREM RotationInvHolds == Spec => []RotationInv
<1>1. Init => RotationInv
  BY InitRotationInv
<1>2. RotationInv /\ [Next]_vars => RotationInv'
  BY NextRotationInv
<1>3. QED
  BY <1>1, <1>2, PTL DEF Spec

-----------------------------------------------------------------------------
\* What it means for clients

\* revoke_if_active makes a refresh token single-use: however many requests
\* present it at once, at most one successor is ever issued.
THEOREM SingleUseHolds == Spec => []SingleUse
<1>1. RotationInv => SingleUse
  BY DEF RotationInv
<1>2. QED
  BY <1>1, RotationInvHolds, PTL

\* Rotation keeps at most one redeemable row per session.
THEOREM OneLivePerSessionHolds == Spec => []OneLivePerSession
<1>1. RotationInv => OneLivePerSession
  BY DEF RotationInv, SessionInv
<1>2. QED
  BY <1>1, RotationInvHolds, PTL

\* A token whose logout was answered 204 is never usable again.
THEOREM LogoutSticksHolds == Spec => []LogoutSticks
<1>1. RotationInv => LogoutSticks
  BY DEF RotationInv
<1>2. QED
  BY <1>1, RotationInvHolds, PTL

\* Nobody revokes a token before its holder has received it.
THEOREM UndeliveredUntouchedHolds == Spec => []UndeliveredUntouched
<1>1. RotationInv => UndeliveredUntouched
  BY DEF RotationInv
<1>2. QED
  BY <1>1, RotationInvHolds, PTL

\* The purge's select-then-delete never removes a row that could still be
\* redeemed at the moment of the delete.
THEOREM PurgeSparesLiveHolds == Spec => PurgeSparesLive
<1>1. RotationInv /\ [Next]_vars => [\A t \in stored \ stored' : ~Active(t, now)]_vars
  <2> SUFFICES ASSUME RotationInv, Next, NEW t \in stored \ stored'
               PROVE  ~Active(t, now)
      OBVIOUS
  <2>1. ASSUME NEW r \in Request, Begin(r)
        PROVE  stored' = stored
    BY <2>1 DEF Begin, LoginCheck, RefreshStart, LogoutRead, PurgeSelect, tableVars
  <2>2. ASSUME NEW r \in Request, Advance(r)
        PROVE  stored \subseteq stored' \/ PurgeDelete(r)
    BY <2>2 DEF Advance, LoginRecord, RefreshLock, RefreshRevoke, RefreshReload, Issue,
                Respond, LogoutSave, tableVars
  <2>3. ASSUME NEW r \in Request, Abort(r)
        PROVE  stored' = stored
    BY <2>3 DEF Abort, tableVars
  <2>4. ASSUME NEW u \in User, SetActive(u)
        PROVE  stored' = stored
    BY <2>4 DEF SetActive, tableVars
  <2>5. Tick => stored' = stored
    BY DEF Tick, tableVars
  <2>6. PICK r \in Request : PurgeDelete(r)
    BY <2>1, <2>2, <2>3, <2>4, <2>5 DEF Next
  <2>7. QED
    BY <2>6 DEF PurgeDelete, RotationInv, PurgeInv
<1>2. QED
  BY <1>1, RotationInvHolds, PTL DEF Spec, PurgeSparesLive

\* No interleaving of stale copies ever clears a revoked_at.
THEOREM RevocationOneWayHolds == Spec => RevocationOneWay
<1>1. RotationInv /\ [Next]_vars
      => [\A t \in stored \cap stored' :
             row[t].revokedAt # NULL => row'[t].revokedAt # NULL]_vars
  <2> SUFFICES ASSUME RotationInv, Next, NEW t \in stored \cap stored',
                      row[t].revokedAt # NULL
               PROVE  row'[t].revokedAt # NULL
      OBVIOUS
  <2>1. t \in Token /\ t \in minted
    BY DEF RotationInv, TypeOK, Provenance
  <2>2. \A r \in Request : req[r].at # NULL
    BY DEF RotationInv, TypeOK, Local, NULL
  <2>3. ASSUME NEW a, NEW r \in Request, Revoke(a, req[r].at)
        PROVE  row'[t].revokedAt # NULL
    BY <2>1, <2>2, <2>3 DEF Revoke, RotationInv, TypeOK, Row
  <2>4. ASSUME NEW r \in Request, NEW n \in Token, Issue(r, n)
        PROVE  row'[t].revokedAt # NULL
    BY <2>1, <2>4 DEF Issue, RotationInv, TypeOK
  <2>5. CASE row' = row
    BY <2>5
  <2>6. QED
    BY <2>3, <2>4, <2>5
       DEF Next, Begin, Advance, LoginCheck, LoginRecord, RefreshStart, RefreshLock,
           RefreshRevoke, RefreshReload, Respond, LogoutRead, LogoutSave,
           PurgeSelect, PurgeDelete, Abort, SetActive, Tick, tableVars
<1>2. QED
  BY <1>1, RotationInvHolds, PTL DEF Spec, RevocationOneWay

-----------------------------------------------------------------------------
\* What is left to a user who has been deactivated

\* At any moment there are finitely many rows and finitely many requests under way.
UnderWay == {r \in Request : req[r].pc # "idle"}
FiniteInv == IsFiniteSet(stored) /\ IsFiniteSet(UnderWay)

LEMMA InitFiniteInv == Init => FiniteInv
<1> SUFFICES ASSUME Init PROVE FiniteInv
    OBVIOUS
<1>1. stored = {} /\ UnderWay = {}
  BY DEF Init, UnderWay, Idle, At
<1>2. QED
  BY <1>1, FS_EmptySet DEF FiniteInv

\* A step is of one request at most, and of no row or of the one it issues.
LEMMA OneRequestMoves ==
  ASSUME TypeOK, [Next]_vars
  PROVE  /\ \/ UNCHANGED req
            \/ \E r \in Request : \A q \in Request \ {r} : req'[q] = req[q]
         /\ stored' \subseteq stored \/ \E n \in Token : stored' = stored \cup {n}
<1> USE DEF TypeOK, Goto, Finish
<1>1. ASSUME NEW r \in Request, Begin(r) \/ Advance(r) \/ Abort(r)
      PROVE  \A q \in Request \ {r} : req'[q] = req[q]
  BY <1>1 DEF Begin, Advance, LoginCheck, LoginRecord, RefreshStart, RefreshLock,
              RefreshRevoke, RefreshReload, Issue, Respond, LogoutRead, LogoutSave,
              PurgeSelect, PurgeDelete, Abort
<1>2. ASSUME NEW r \in Request, Begin(r) \/ Advance(r) \/ Abort(r)
      PROVE  stored' \subseteq stored \/ \E n \in Token : stored' = stored \cup {n}
  BY <1>2 DEF Begin, Advance, LoginCheck, LoginRecord, RefreshStart, RefreshLock,
              RefreshRevoke, RefreshReload, Issue, Respond, LogoutRead, LogoutSave,
              PurgeSelect, PurgeDelete, Abort, tableVars
<1>3. ASSUME (\E u \in User : SetActive(u)) \/ Tick \/ UNCHANGED vars
      PROVE  UNCHANGED <<req, stored>>
  BY <1>3 DEF SetActive, Tick, vars, tableVars
<1>4. QED
  BY <1>1, <1>2, <1>3 DEF Next

LEMMA NextFiniteInv == TypeOK /\ FiniteInv /\ [Next]_vars => FiniteInv'
<1> SUFFICES ASSUME TypeOK, FiniteInv, [Next]_vars PROVE FiniteInv'
    OBVIOUS
<1>1. IsFiniteSet(stored')
  <2>1. CASE stored' \subseteq stored
    BY <2>1, FS_Subset DEF FiniteInv
  <2>2. ASSUME NEW n \in Token, stored' = stored \cup {n}
        PROVE  IsFiniteSet(stored')
    BY <2>2, FS_AddElement DEF FiniteInv
  <2>3. QED
    BY <2>1, <2>2, OneRequestMoves
<1>2. IsFiniteSet(UnderWay')
  <2>1. CASE UNCHANGED req
    BY <2>1 DEF FiniteInv, UnderWay
  <2>2. ASSUME NEW r \in Request, \A q \in Request \ {r} : req'[q] = req[q]
        PROVE  IsFiniteSet(UnderWay')
    <3>1. UnderWay' \subseteq UnderWay \cup {r}
      BY <2>2 DEF UnderWay
    <3>2. IsFiniteSet(UnderWay \cup {r})
      BY FS_AddElement DEF FiniteInv
    <3>3. QED
      BY <3>1, <3>2, FS_Subset
  <2>3. QED
    BY <2>1, <2>2, OneRequestMoves
<1>3. QED
  BY <1>1, <1>2 DEF FiniteInv

LEMMA FiniteInvHolds == Spec => []FiniteInv
<1>1. QED
  BY InitFiniteInv, NextFiniteInv, TypeCorrect, PTL DEF Spec

\* Nobody passes the check of is_active while the user is deactivated.
LEMMA NobodyPassesTheCheck ==
  ASSUME TypeOK, [Next]_vars, NEW u \in User, ~isActive[u]
  PROVE  PastCheck(u)' \subseteq PastCheck(u) /\ Granted(u)' \subseteq Granted(u)
<1> SUFFICES ASSUME NEW q \in Request, req'[q].user = u,
                    req'[q].pc \in {"record", "issue", "respond"}
             PROVE  /\ req'[q].pc \in {"record", "issue"} => q \in PastCheck(u)
                    /\ q \in Granted(u)
    BY DEF PastCheck, Granted
<1>1. CASE req'[q] = req[q]
  BY <1>1 DEF PastCheck, Granted
<1>2. ASSUME NEW r \in Request, Begin(r), req'[q] # req[q]
      PROVE  FALSE
  <2>1. ASSUME NEW w \in User, LoginCheck(r, w)
        PROVE  FALSE
    BY <1>2, <2>1 DEF LoginCheck, Goto, At, TypeOK
  <2>2. ASSUME NEW t \in Token, RefreshStart(r, t) \/ \E w \in User : LogoutRead(r, w, t)
        PROVE  FALSE
    BY <1>2, <2>2, NoneAssumption DEF RefreshStart, LogoutRead, Goto, At, TypeOK
  <2>3. CASE PurgeSelect(r)
    BY <1>2, <2>3 DEF PurgeSelect, Goto, At, Idle, TypeOK
  <2>4. QED
    BY <1>2, <2>1, <2>2, <2>3 DEF Begin
<1>3. ASSUME NEW r \in Request, Advance(r), req'[q] # req[q]
      PROVE  /\ req'[q].pc \in {"record", "issue"} => q \in PastCheck(u)
             /\ q \in Granted(u)
  <2>1. CASE LoginRecord(r)
    BY <1>3, <2>1 DEF LoginRecord, Goto, At, TypeOK, PastCheck, Granted
  <2>2. CASE RefreshLock(r) \/ RefreshRevoke(r) \/ RefreshReload(r)
    BY <1>3, <2>2, NoneAssumption
       DEF RefreshLock, RefreshRevoke, RefreshReload, Goto, Finish, At, Idle, TypeOK
  <2>3. ASSUME NEW n \in Token, Issue(r, n)
        PROVE  /\ req'[q].pc \in {"record", "issue"} => q \in PastCheck(u)
               /\ q \in Granted(u)
    BY <1>3, <2>3 DEF Issue, Goto, At, TypeOK, PastCheck, Granted
  <2>4. CASE Respond(r) \/ LogoutSave(r) \/ PurgeDelete(r)
    BY <1>3, <2>4, NoneAssumption
       DEF Respond, LogoutSave, PurgeDelete, Goto, Finish, At, Idle, TypeOK
  <2>5. QED
    BY <1>3, <2>1, <2>2, <2>3, <2>4 DEF Advance
<1>4. ASSUME NEW r \in Request, Abort(r), req'[q] # req[q]
      PROVE  FALSE
  BY <1>4, NoneAssumption DEF Abort, Goto, Finish, At, Idle, TypeOK
<1>5. CASE (\E w \in User : SetActive(w)) \/ Tick \/ UNCHANGED vars
  BY <1>1, <1>5 DEF SetActive, Tick, vars
<1>6. QED
  BY <1>1, <1>2, <1>3, <1>4, <1>5 DEF Next

\* A row of a user can be redeemed from the step that issues it on; no other step
\* makes one redeemable, and the clock makes fewer so.
LEMMA RowsAreIssued ==
  ASSUME TypeOK, [Next]_vars, NEW u \in User
  PROVE  \/ Redeemable(u)' \subseteq Redeemable(u)
         \/ \E r \in Request, n \in Token :
               Issue(r, n) /\ req[r].user = u /\ Redeemable(u)' \subseteq Redeemable(u) \cup {n}
<1>1. ASSUME stored' \subseteq stored, now' >= now, now' \in Nat,
             \A t \in stored' : \/ row'[t] = row[t]
                                \/ row'[t].revokedAt # NULL
      PROVE  Redeemable(u)' \subseteq Redeemable(u)
  <2> SUFFICES ASSUME NEW t \in stored', row'[t].user = u, Active(t, now)'
               PROVE  t \in Redeemable(u)
      BY DEF Redeemable
  <2>1. row'[t] = row[t] /\ t \in stored
    BY <1>1 DEF Active, Unrevoked
  <2>2. row[t].expiresAt \in Nat
    BY <2>1 DEF TypeOK, Row
  <2>3. row[t].expiresAt > now
    BY <1>1, <2>1, <2>2 DEF Active, TypeOK
  <2>4. QED
    BY <2>1, <2>3 DEF Redeemable, Active, Unrevoked
<1>2. ASSUME NEW r \in Request, NEW n \in Token, Issue(r, n)
      PROVE  \/ Redeemable(u)' \subseteq Redeemable(u)
             \/ req[r].user = u /\ Redeemable(u)' \subseteq Redeemable(u) \cup {n}
  <2>1. /\ row'[n].user = req[r].user /\ stored' = stored \cup {n} /\ now' = now
        /\ \A t \in Token : t # n => row'[t] = row[t]
    BY <1>2 DEF Issue, TypeOK
  <2>2. Redeemable(u)' \subseteq Redeemable(u) \cup {n}
    BY <2>1 DEF Redeemable, Active, Unrevoked, TypeOK
  <2>3. req[r].user # u => n \notin Redeemable(u)'
    BY <2>1 DEF Redeemable
  <2>4. QED
    BY <2>2, <2>3
<1>3. ASSUME NEW r \in Request, RefreshRevoke(r) \/ LogoutSave(r)
      PROVE  Redeemable(u)' \subseteq Redeemable(u)
  <2>1. req[r].at \in Nat
    BY DEF TypeOK, Local
  <2>2. stored' = stored /\ now' = now /\ (row' = row \/ Revoke(req[r].tok, req[r].at))
    BY <1>3 DEF RefreshRevoke, LogoutSave
  <2>3. \A t \in stored : row'[t] = row[t] \/ row'[t].revokedAt # NULL
    BY <2>1, <2>2 DEF Revoke, TypeOK, Row, NULL
  <2>4. QED
    BY <1>1, <2>2, <2>3 DEF TypeOK
<1>4. ASSUME stored' \subseteq stored, row' = row, now' \in {now, now + 1}
      PROVE  Redeemable(u)' \subseteq Redeemable(u)
  BY <1>1, <1>4 DEF TypeOK
<1>5. ASSUME NEW r \in Request, Begin(r)
      PROVE  Redeemable(u)' \subseteq Redeemable(u)
  BY <1>4, <1>5
     DEF Begin, LoginCheck, RefreshStart, LogoutRead, PurgeSelect, tableVars
<1>6. ASSUME NEW r \in Request,
             \/ LoginRecord(r) \/ RefreshLock(r) \/ RefreshReload(r) \/ Respond(r)
             \/ PurgeDelete(r) \/ Abort(r)
      PROVE  Redeemable(u)' \subseteq Redeemable(u)
  BY <1>4, <1>6
     DEF LoginRecord, RefreshLock, RefreshReload, Respond, PurgeDelete, Abort, tableVars
<1>7. CASE (\E w \in User : SetActive(w)) \/ Tick \/ UNCHANGED vars
  BY <1>4, <1>7 DEF SetActive, Tick, vars, tableVars
<1>8. QED
  BY <1>2, <1>3, <1>5, <1>6, <1>7 DEF Next, Advance

\* Once a user is deactivated, rows that can be redeemed and requests that may still
\* issue one can only become fewer: a request turns into one row, or into none.
THEOREM DeactivationDrainsHolds == Spec => DeactivationDrains
<1>1. TypeOK /\ FiniteInv /\ FiniteInv' /\ [Next]_vars
      => [\A u \in User : ~isActive[u] /\ ~isActive'[u] => Exposure(u)' <= Exposure(u)]_vars
  <2> SUFFICES ASSUME TypeOK, FiniteInv, FiniteInv', [Next]_vars,
                      NEW u \in User, ~isActive[u]
               PROVE  Exposure(u)' <= Exposure(u)
      OBVIOUS
  <2>1. /\ Redeemable(u) \subseteq stored /\ PastCheck(u) \subseteq UnderWay
        /\ Redeemable(u)' \subseteq stored' /\ PastCheck(u)' \subseteq UnderWay'
    BY DEF Redeemable, PastCheck, UnderWay
  <2>2. /\ IsFiniteSet(Redeemable(u)) /\ IsFiniteSet(PastCheck(u))
        /\ IsFiniteSet(Redeemable(u)') /\ IsFiniteSet(PastCheck(u)')
    BY <2>1, FS_Subset DEF FiniteInv
  <2>3. /\ Cardinality(Redeemable(u)) \in Nat /\ Cardinality(PastCheck(u)) \in Nat
        /\ Cardinality(Redeemable(u)') \in Nat /\ Cardinality(PastCheck(u)') \in Nat
    BY <2>2, FS_CardinalityType
  <2>4. PastCheck(u)' \subseteq PastCheck(u)
    BY NobodyPassesTheCheck
  <2>5. Cardinality(PastCheck(u)') <= Cardinality(PastCheck(u))
    BY <2>2, <2>4, FS_Subset
  <2>6. CASE Redeemable(u)' \subseteq Redeemable(u)
    <3>1. Cardinality(Redeemable(u)') <= Cardinality(Redeemable(u))
      BY <2>2, <2>6, FS_Subset
    <3>2. QED
      BY <2>3, <2>5, <3>1 DEF Exposure
  <2>7. ASSUME NEW r \in Request, NEW n \in Token, Issue(r, n), req[r].user = u,
               Redeemable(u)' \subseteq Redeemable(u) \cup {n}
        PROVE  Exposure(u)' <= Exposure(u)
    <3>1. r \in PastCheck(u) /\ r \notin PastCheck(u)'
      BY <2>7 DEF PastCheck, Issue, Goto, At, TypeOK
    <3>2. Cardinality(PastCheck(u)') < Cardinality(PastCheck(u))
      BY <2>2, <2>3, <2>4, <2>5, <3>1, FS_Subset
    <3>3. /\ IsFiniteSet(Redeemable(u) \cup {n})
          /\ Cardinality(Redeemable(u) \cup {n}) <= Cardinality(Redeemable(u)) + 1
          /\ Cardinality(Redeemable(u) \cup {n}) \in Nat
      <4> DEFINE S == Redeemable(u)
      <4>1. IsFiniteSet(S) /\ Cardinality(S) \in Nat
        BY <2>2, <2>3
      <4> HIDE DEF S
      <4>2. /\ IsFiniteSet(S \cup {n})
            /\ Cardinality(S \cup {n}) \in {Cardinality(S), Cardinality(S) + 1}
        BY <4>1, FS_AddElement
      <4>3. Cardinality(S \cup {n}) <= Cardinality(S) + 1 /\ Cardinality(S \cup {n}) \in Nat
        BY <4>1, <4>2
      <4>4. QED
        BY <4>2, <4>3 DEF S
    <3>4. Cardinality(Redeemable(u)') <= Cardinality(Redeemable(u) \cup {n})
      BY <2>7, <3>3, FS_Subset
    <3>5. QED
      BY <2>3, <3>2, <3>3, <3>4 DEF Exposure
  <2>8. QED
    BY <2>6, <2>7, RowsAreIssued
<1>2. QED
  BY <1>1, TypeCorrect, FiniteInvHolds, PTL DEF Spec, DeactivationDrains

\* Once a user is deactivated, access tokens go only to the requests that were past
\* the check of is_active already, and each of these gets one at most.
THEOREM DeactivationEndsAccessHolds == Spec => DeactivationEndsAccess
<1>1. TypeOK /\ [Next]_vars
      => [\A u \in User : ~isActive[u] /\ ~isActive'[u] =>
             /\ Granted(u)' \subseteq Granted(u)
             /\ accessUntil'[u] # accessUntil[u] => Granted(u)' # Granted(u)]_vars
  <2> SUFFICES ASSUME TypeOK, [Next]_vars, NEW u \in User, ~isActive[u]
               PROVE  /\ Granted(u)' \subseteq Granted(u)
                      /\ accessUntil'[u] # accessUntil[u] => Granted(u)' # Granted(u)
      OBVIOUS
  <2>1. ASSUME accessUntil'[u] # accessUntil[u]
        PROVE  \E r \in Request : Respond(r) /\ req[r].user = u
    <3>1. PICK r \in Request : Respond(r)
      BY <2>1 DEF Next, Begin, Advance, LoginCheck, LoginRecord, RefreshStart, RefreshLock,
                  RefreshRevoke, RefreshReload, Issue, LogoutRead, LogoutSave, PurgeSelect,
                  PurgeDelete, Abort, SetActive, Tick, vars, clients
    <3>2. QED
      BY <2>1, <3>1 DEF Respond, TypeOK
  <2>2. ASSUME NEW r \in Request, Respond(r), req[r].user = u
        PROVE  r \in Granted(u) /\ r \notin Granted(u)'
    BY <2>2 DEF Respond, Granted, Finish, Goto, Idle, At, TypeOK
  <2>3. QED
    BY <2>1, <2>2, NobodyPassesTheCheck
<1>2. QED
  BY <1>1, TypeCorrect, PTL DEF Spec, DeactivationEndsAccess
=============================================================================
