-------------------------- MODULE RefreshTokensChain --------------------------
(***************************************************************************)
(* The refinement mapping under which the handlers over refresh_tokens     *)
(* implement SessionChain.                                                 *)
(***************************************************************************)
EXTENDS RefreshTokens

CONSTANTS Closed, Exchanging

ASSUME MarksAssumption == Closed \notin Token /\ Exchanging \notin Token

LiveRow(s, t) == session[t] = s /\ Unrevoked(t)

\* A request redeemed a token of session s and has not replaced it yet.
ExchangeOf(s) == \E r \in Request : Redeeming(r) /\ session[req[r].tok] = s

Accepts ==
    [s \in Token |->
        IF \E t \in stored : LiveRow(s, t)
          THEN CHOOSE t \in stored : LiveRow(s, t)
        ELSE IF ExchangeOf(s) THEN Exchanging ELSE Closed]

Chain == INSTANCE SessionChain WITH accepts <- Accepts, issued <- minted

\* RefreshTokens implements the rotation that SessionChain promises: crashes,
\* races and purges show only as exchanges and ends of sessions.
ImplementsChain == Chain!ChainSpec
=============================================================================
