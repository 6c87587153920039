----------------------- MODULE RefreshTokensChain_proofs -----------------------
(***************************************************************************)
(* The handlers over refresh_tokens implement SessionChain, for any number *)
(* of users, tokens and requests: the initial states map to its initial    *)
(* state, and every step maps to one of its steps or to a stutter.         *)
(***************************************************************************)
EXTENDS RefreshTokensChain, RefreshTokens_proofs

\* v is what session s accepts, said without CHOOSE.
Stands(s, v) ==
    \/ v \in stored /\ LiveRow(s, v)
    \/ v = Exchanging /\ ExchangeOf(s)
    \/ v = Closed /\ ~ExchangeOf(s) /\ \A t \in stored : ~LiveRow(s, t)

AcceptsStanding == \A s \in Token : \A v : Stands(s, v) => Accepts[s] = v

LEMMA AcceptsIsWhatStands == RotationInv => AcceptsStanding
<1> USE DEF AcceptsStanding
<1> SUFFICES ASSUME RotationInv, NEW s \in Token, NEW v, Stands(s, v)
             PROVE  Accepts[s] = v
    OBVIOUS
<1>1. Accepts[s] = IF \E t \in stored : LiveRow(s, t)
                     THEN CHOOSE t \in stored : LiveRow(s, t)
                   ELSE IF ExchangeOf(s) THEN Exchanging ELSE Closed
  BY DEF Accepts
<1>2. CASE v \in stored /\ LiveRow(s, v)
  <2>1. \A t \in stored : LiveRow(s, t) => t = v
    BY <1>2 DEF RotationInv, SessionInv, OneLivePerSession, LiveRow
  <2>2. (CHOOSE t \in stored : LiveRow(s, t)) = v
    BY <1>2, <2>1
  <2>3. QED
    BY <1>1, <1>2, <2>2
<1>3. CASE v = Exchanging /\ ExchangeOf(s)
  <2>1. \A t \in stored : ~LiveRow(s, t)
    BY <1>3 DEF RotationInv, SessionInv, LiveRow, ExchangeOf
  <2>2. QED
    BY <1>1, <1>3, <2>1
<1>4. CASE v = Closed /\ ~ExchangeOf(s) /\ \A t \in stored : ~LiveRow(s, t)
  BY <1>1, <1>4
<1>5. QED
  BY <1>2, <1>3, <1>4 DEF Stands

LEMMA SomethingStands ==
    RotationInv => \A s \in Token : Stands(s, Accepts[s])
<1> SUFFICES ASSUME RotationInv, NEW s \in Token PROVE Stands(s, Accepts[s])
    OBVIOUS
<1>1. \E v : Stands(s, v)
  BY DEF Stands
<1>2. QED
  BY <1>1, AcceptsIsWhatStands DEF AcceptsStanding

LEMMA AcceptsAfter == RotationInv' => AcceptsStanding'
  BY AcceptsIsWhatStands, PTL

-----------------------------------------------------------------------------
\* How a step moves the mapping. Three shapes cover every handler.

\* No row and no exchange appears: the sessions that lose theirs end.
LEMMA Losing ==
    ASSUME RotationInv, RotationInv',
           minted' = minted, session' = session,
           \A t \in Token : Unrevoked(t)' => Unrevoked(t),
           \A r \in Request : Redeeming(r)' => Redeeming(r) /\ req'[r].tok = req[r].tok
    PROVE  \E S \in SUBSET Token : Chain!End(S)
<1> DEFINE S == {s \in Token : Stands(s, Closed)'}
<1>1. ASSUME NEW s \in Token
      PROVE  Accepts'[s] = IF s \in S THEN Closed ELSE Accepts[s]
  <2>1. PICK v : Stands(s, v)' /\ Accepts'[s] = v
    <3>1. \E v : Stands(s, v)'
      BY DEF Stands
    <3>2. QED
      BY <3>1, AcceptsAfter DEF AcceptsStanding
  <2>2. CASE v = Closed
    BY <2>1, <2>2
  <2>3. CASE v # Closed
    <3>1. Stands(s, v)
      BY <2>1, <2>3 DEF Stands, LiveRow, ExchangeOf, RotationInv, TypeOK, Unrevoked
    <3>2. Accepts[s] = v
      BY <3>1, AcceptsIsWhatStands DEF AcceptsStanding
    <3>3. s \notin S
      BY <2>1, <2>3, AcceptsAfter DEF AcceptsStanding
    <3>4. QED
      BY <2>1, <3>2, <3>3
  <2>4. QED
    BY <2>2, <2>3
<1>2. Accepts' = [s \in Token |-> IF s \in S THEN Closed ELSE Accepts[s]]
  <2>1. Accepts' = [s \in Token |-> Accepts'[s]]
    BY DEF Accepts
  <2>2. QED
    BY <1>1, <2>1
<1>3. Chain!End(S)
  BY <1>2 DEF Chain!End
<1>4. QED
  BY <1>3

\* The session's live row becomes the session's exchange.
LEMMA RevokeRedeems ==
    ASSUME RotationInv, RotationInv', NEW r \in Request, RefreshRevoke(r)
    PROVE  \E s \in Token : Chain!Redeem(s)
<1>1. PICK t \in Token : t = req[r].tok /\ Unrevoked(t)
  BY DEF RefreshRevoke, RotationInv, LockInv, Provenance, TypeOK
<1>2. PICK s \in Token : s = session[t]
  BY DEF RotationInv, TypeOK
<1>3. /\ req[r].pc = "revoke"
      /\ row' = [row EXCEPT ![t].revokedAt = req[r].at]
      /\ stored' = stored /\ minted' = minted /\ session' = session
      /\ req'[r].pc = "reload" /\ req'[r].tok = t
      /\ \A q \in Request : q # r => req'[q] = req[q]
  BY <1>1 DEF RefreshRevoke, Revoke, Goto, At, history, RotationInv, TypeOK
<1>4. ~Unrevoked(t)' /\ \A a \in Token : a # t => (Unrevoked(a)' <=> Unrevoked(a))
  <2>1. req[r].at # NULL
    BY DEF RotationInv, TypeOK, Local, NULL
  <2>2. QED
    BY <1>3, <2>1 DEF Unrevoked, RotationInv, TypeOK, Row
<1>5. t # NoToken
  BY NoneAssumption
<1>6. Redeeming(r)' /\ ~Redeeming(r)
      /\ \A q \in Request : q # r => (Redeeming(q)' <=> Redeeming(q))
  BY <1>3, <1>5 DEF Redeeming
<1>7. Accepts[s] = t
  <2>1. Stands(s, t)
    BY <1>1, <1>2 DEF Stands, LiveRow, Unrevoked
  <2>2. QED
    BY <2>1, AcceptsIsWhatStands DEF AcceptsStanding
<1>8. Accepts'[s] = Exchanging
  <2>1. Stands(s, Exchanging)'
    BY <1>2, <1>3, <1>6 DEF Stands, ExchangeOf
  <2>2. QED
    BY <2>1, AcceptsAfter DEF AcceptsStanding
<1>9. ASSUME NEW x \in Token, x # s
      PROVE  Accepts'[x] = Accepts[x]
  <2>1. \A a \in stored : LiveRow(x, a)' <=> LiveRow(x, a)
    BY <1>2, <1>3, <1>4, <1>9 DEF LiveRow, RotationInv, TypeOK
  <2>2. ExchangeOf(x)' <=> ExchangeOf(x)
    BY <1>2, <1>3, <1>6, <1>9 DEF ExchangeOf
  <2>3. \A v : Stands(x, v) => Stands(x, v)'
    BY <1>3, <2>1, <2>2 DEF Stands
  <2>4. QED
    BY <2>3, SomethingStands, AcceptsAfter DEF AcceptsStanding
<1>10. Accepts' = [Accepts EXCEPT ![s] = Exchanging]
  BY <1>8, <1>9 DEF Accepts
<1>11. QED
  BY <1>3, <1>7, <1>10 DEF Chain!Redeem

\* The new row becomes what its session accepts.
LEMMA IssueOpensOrReplaces ==
    ASSUME RotationInv, RotationInv', NEW r \in Request, NEW n \in Token, Issue(r, n)
    PROVE  Chain!Open(n) \/ \E s \in Token : Chain!Replace(s, n)
<1>1. PICK t \in Token \cup {NoToken} : t = req[r].tok
  BY DEF RotationInv, TypeOK, Local
<1>2. PICK s \in Token : s = IF t = NoToken THEN n ELSE session[t]
  BY DEF RotationInv, TypeOK
<1>3. /\ req[r].pc = "issue" /\ n \notin minted
      /\ stored' = stored \cup {n} /\ minted' = minted \cup {n}
      /\ session'[n] = s /\ row'[n].revokedAt = NULL
      /\ \A a \in Token : a # n => row'[a] = row[a] /\ session'[a] = session[a]
      /\ req'[r].pc = "respond"
      /\ \A q \in Request : q # r => req'[q] = req[q]
  BY <1>1, <1>2 DEF Issue, Goto, At, RotationInv, TypeOK
<1>4. \A a \in Token : Unrevoked(a)' <=> (a = n \/ Unrevoked(a))
  BY <1>3 DEF Unrevoked
<1>5. \A q \in Request : Redeeming(q)' <=> (q # r /\ Redeeming(q))
  BY <1>3 DEF Redeeming
<1>6. \A q \in Request : Redeeming(q) => req[q].tok \in minted
  BY DEF Redeeming, RotationInv, Provenance
<1>7. Accepts'[s] = n
  <2>1. Stands(s, n)'
    BY <1>3, <1>4 DEF Stands, LiveRow
  <2>2. QED
    BY <2>1, AcceptsAfter DEF AcceptsStanding
<1>8. ASSUME NEW x \in Token, x # s
      PROVE  Accepts'[x] = Accepts[x]
  <2>1. stored \subseteq Token /\ n \notin stored
    BY <1>3 DEF RotationInv, Provenance, TypeOK
  <2>2. \A a \in stored' : LiveRow(x, a)' <=> (a \in stored /\ LiveRow(x, a))
    BY <1>3, <1>4, <1>8, <2>1 DEF LiveRow
  <2>3. ASSUME NEW q \in Request
        PROVE  (Redeeming(q) /\ session[req[q].tok] = x)'
               <=> (Redeeming(q) /\ session[req[q].tok] = x)
    <3>1. CASE q = r
      BY <1>1, <1>2, <1>5, <1>8, <3>1 DEF Redeeming
    <3>2. CASE q # r
      <4>1. Redeeming(q) => req[q].tok \in Token /\ req[q].tok # n
        BY <1>3, <1>6 DEF RotationInv, TypeOK
      <4>2. QED
        BY <1>3, <1>5, <3>2, <4>1
    <3>3. QED
      BY <3>1, <3>2
  <2>4. ExchangeOf(x)' <=> ExchangeOf(x)
    BY <2>3 DEF ExchangeOf
  <2>5. \A v : Stands(x, v) => Stands(x, v)'
    BY <1>3, <2>2, <2>4 DEF Stands
  <2>6. QED
    BY <2>5, SomethingStands, AcceptsAfter DEF AcceptsStanding
<1>9. Accepts' = [Accepts EXCEPT ![s] = n]
  BY <1>7, <1>8 DEF Accepts
<1>10. CASE t = NoToken
  BY <1>2, <1>3, <1>9, <1>10 DEF Chain!Open
<1>11. CASE t # NoToken
  <2>1. Stands(s, Exchanging)
    BY <1>1, <1>2, <1>3, <1>11 DEF Stands, ExchangeOf, Redeeming
  <2>2. Accepts[s] = Exchanging
    BY <2>1, AcceptsIsWhatStands DEF AcceptsStanding
  <2>3. QED
    BY <1>3, <1>9, <2>2 DEF Chain!Replace
<1>12. QED
  BY <1>10, <1>11

-----------------------------------------------------------------------------
\* The steps of the handlers

LEMMA InitMaps == Init => Chain!ChainInit
<1> SUFFICES ASSUME Init PROVE Chain!ChainInit
    OBVIOUS
<1>1. RotationInv
  BY InitRotationInv
<1>2. \A r \in Request : ~Redeeming(r)
  BY DEF Init, Redeeming, Idle, At
<1>3. \A s \in Token : Stands(s, Closed)
  BY <1>2 DEF Init, Stands, ExchangeOf
<1>4. \A s \in Token : Accepts[s] = Closed
  BY <1>1, <1>3, AcceptsIsWhatStands DEF AcceptsStanding
<1>5. Accepts = [s \in Token |-> Closed]
  BY <1>4 DEF Accepts
<1>6. QED
  BY <1>5 DEF Init, Chain!ChainInit

LEMMA NextMaps ==
    RotationInv /\ RotationInv' /\ [Next]_vars => [Chain!ChainNext]_(Chain!chainVars)
<1> SUFFICES ASSUME RotationInv, RotationInv', [Next]_vars
             PROVE  Chain!ChainNext
    OBVIOUS
\* Steps that touch neither a row's revoked_at nor an exchange.
<1>1. ASSUME NEW r \in Request, NEW l, Goto(r, l), l.pc \notin {"reload", "issue"} \/ l.tok = NoToken,
             UNCHANGED tableVars, UNCHANGED history
      PROVE  Chain!ChainNext
  <2>1. req'[r] = l /\ \A q \in Request : q # r => req'[q] = req[q]
    BY <1>1 DEF Goto, RotationInv, TypeOK
  <2>2. \A q \in Request : Redeeming(q)' => Redeeming(q) /\ req'[q].tok = req[q].tok
    BY <1>1, <2>1 DEF Redeeming
  <2>3. minted' = minted /\ session' = session /\ \A t \in Token : Unrevoked(t)' => Unrevoked(t)
    BY <1>1 DEF tableVars, history, Unrevoked
  <2>4. QED
    BY <2>2, <2>3, Losing DEF Chain!ChainNext
<1>2. ASSUME UNCHANGED <<tableVars, req, history>>
      PROVE  Chain!ChainNext
  <2>1. minted' = minted /\ session' = session /\ \A t \in Token : Unrevoked(t)' => Unrevoked(t)
    BY <1>2 DEF tableVars, history, Unrevoked
  <2>2. \A q \in Request : Redeeming(q)' => Redeeming(q) /\ req'[q].tok = req[q].tok
    BY <1>2 DEF Redeeming
  <2>3. QED
    BY <2>1, <2>2, Losing DEF Chain!ChainNext
<1>3. ASSUME NEW r \in Request, NEW u \in User, LoginCheck(r, u)
      PROVE  Chain!ChainNext
  BY <1>1, <1>3 DEF LoginCheck, At
<1>4. ASSUME NEW r \in Request, LoginRecord(r)
      PROVE  Chain!ChainNext
  BY <1>1, <1>4 DEF LoginRecord, At
<1>5. ASSUME NEW r \in Request, NEW t \in Token, RefreshStart(r, t)
      PROVE  Chain!ChainNext
  BY <1>1, <1>5 DEF RefreshStart, At
<1>6. ASSUME NEW r \in Request, RefreshLock(r)
      PROVE  Chain!ChainNext
  <2>1. CASE Finish(r)
    BY <1>1, <1>6, <2>1 DEF RefreshLock, Finish, Idle, At
  <2>2. CASE Goto(r, At("revoke", row[req[r].tok].user, req[r].tok, req[r].at))
    BY <1>1, <1>6, <2>2 DEF RefreshLock, At
  <2>3. QED
    BY <1>6, <2>1, <2>2 DEF RefreshLock
<1>7. ASSUME NEW r \in Request, RefreshRevoke(r)
      PROVE  Chain!ChainNext
  BY <1>7, RevokeRedeems DEF Chain!ChainNext
<1>8. ASSUME NEW r \in Request, RefreshReload(r)
      PROVE  Chain!ChainNext
  <2>1. CASE Finish(r)
    BY <1>1, <1>8, <2>1 DEF RefreshReload, Finish, Idle, At
  <2>2. CASE Goto(r, At("issue", req[r].user, req[r].tok, now))
    <3>1. /\ req[r].pc = "reload" /\ req'[r].tok = req[r].tok
          /\ \A q \in Request : q # r => req'[q] = req[q]
      BY <1>8, <2>2 DEF RefreshReload, Goto, At, RotationInv, TypeOK
    <3>2. \A q \in Request : Redeeming(q)' => Redeeming(q) /\ req'[q].tok = req[q].tok
      BY <3>1 DEF Redeeming
    <3>3. minted' = minted /\ session' = session
          /\ \A t \in Token : Unrevoked(t)' => Unrevoked(t)
      BY <1>8 DEF RefreshReload, tableVars, history, Unrevoked
    <3>4. QED
      BY <3>2, <3>3, Losing DEF Chain!ChainNext
  <2>3. QED
    BY <1>8, <2>1, <2>2 DEF RefreshReload
<1>9. ASSUME NEW r \in Request, NEW n \in Token, Issue(r, n)
      PROVE  Chain!ChainNext
  BY <1>9, IssueOpensOrReplaces DEF Chain!ChainNext
<1>10. ASSUME NEW r \in Request, Respond(r)
       PROVE  Chain!ChainNext
  BY <1>1, <1>10 DEF Respond, Finish, Idle, At
<1>11. ASSUME NEW r \in Request, NEW u \in User, NEW t \in Token, LogoutRead(r, u, t)
       PROVE  Chain!ChainNext
  <2>1. CASE Goto(r, At("save", u, t, now))
    BY <1>1, <1>11, <2>1 DEF LogoutRead, At
  <2>2. CASE UNCHANGED req
    BY <1>2, <1>11, <2>2 DEF LogoutRead
  <2>3. QED
    BY <1>11, <2>1, <2>2 DEF LogoutRead
<1>12. ASSUME NEW r \in Request, LogoutSave(r) \/ PurgeDelete(r)
       PROVE  Chain!ChainNext
  <2>1. \A q \in Request : Redeeming(q)' => Redeeming(q) /\ req'[q].tok = req[q].tok
    <3>1. req'[r].pc = "idle" /\ \A q \in Request : q # r => req'[q] = req[q]
      BY <1>12 DEF LogoutSave, PurgeDelete, Finish, Goto, Idle, At, RotationInv, TypeOK
    <3>2. QED
      BY <3>1 DEF Redeeming
  <2>2. minted' = minted /\ session' = session
    BY <1>12 DEF LogoutSave, PurgeDelete, history
  <2>3. \A t \in Token : Unrevoked(t)' => Unrevoked(t)
    <3>1. CASE PurgeDelete(r)
      BY <3>1 DEF PurgeDelete, Unrevoked
    <3>2. CASE LogoutSave(r)
      <4>1. req[r].at # NULL
        BY DEF RotationInv, TypeOK, Local, NULL
      <4>2. QED
        BY <3>2, <4>1 DEF LogoutSave, Revoke, Unrevoked, RotationInv, TypeOK, Row
    <3>3. QED
      BY <1>12, <3>1, <3>2
  <2>4. QED
    BY <2>1, <2>2, <2>3, Losing DEF Chain!ChainNext
<1>13. ASSUME NEW r \in Request, PurgeSelect(r)
       PROVE  Chain!ChainNext
  BY <1>1, <1>13 DEF PurgeSelect, Idle, At
<1>14. ASSUME NEW r \in Request, Abort(r)
       PROVE  Chain!ChainNext
  BY <1>1, <1>14 DEF Abort, Finish, Idle, At
<1>15. ASSUME NEW u \in User, SetActive(u)
       PROVE  Chain!ChainNext
  BY <1>2, <1>15 DEF SetActive
<1>16. CASE Tick
  BY <1>2, <1>16 DEF Tick
<1>17. CASE UNCHANGED vars
  BY <1>2, <1>17 DEF vars
<1>18. QED
  BY <1>3, <1>4, <1>5, <1>6, <1>7, <1>8, <1>9, <1>10, <1>11, <1>12, <1>13, <1>14,
     <1>15, <1>16, <1>17 DEF Next, Begin, Advance

\* Login, refresh, logout and purge, with their crashes and races, implement
\* the abstract session: one accepted token at a time, each accepted once.
THEOREM ImplementsChainHolds == Spec => ImplementsChain
<1>1. Init => Chain!ChainInit
  BY InitMaps
<1>2. RotationInv /\ RotationInv' /\ [Next]_vars => [Chain!ChainNext]_(Chain!chainVars)
  BY NextMaps
<1>3. QED
  BY <1>1, <1>2, RotationInvHolds, PTL DEF Spec, ImplementsChain, Chain!ChainSpec
=============================================================================
