---------------------------- MODULE SessionChain ----------------------------
(***************************************************************************)
(* What refresh-token rotation promises, with no rows, locks, clocks or    *)
(* requests in sight: a session is opened by a login and named after its   *)
(* first token; from then on it accepts at most one token at a time; that  *)
(* token is exchanged for one nobody has seen before; a session that ended *)
(* accepts nothing again.                                                  *)
(***************************************************************************)
CONSTANTS Token, Closed, Exchanging   \* Closed and Exchanging are no tokens

VARIABLES
    accepts,   \* accepts[s]: the one token session s accepts, Exchanging
               \* while that token is being replaced, Closed otherwise
    issued     \* every token handed out so far

chainVars == <<accepts, issued>>

ChainTypeOK ==
    /\ accepts \in [Token -> Token \cup {Closed, Exchanging}]
    /\ issued \subseteq Token

ChainInit ==
    /\ accepts = [s \in Token |-> Closed]
    /\ issued = {}

Open(t) ==
    /\ t \notin issued
    /\ issued' = issued \cup {t}
    /\ accepts' = [accepts EXCEPT ![t] = t]

Redeem(s) ==
    /\ accepts[s] \in Token
    /\ accepts' = [accepts EXCEPT ![s] = Exchanging]
    /\ UNCHANGED issued

Replace(s, t) ==
    /\ accepts[s] = Exchanging
    /\ t \notin issued
    /\ issued' = issued \cup {t}
    /\ accepts' = [accepts EXCEPT ![s] = t]

\* One purge, or one crash, may end several sessions in a single step.
End(S) ==
    /\ accepts' = [s \in Token |-> IF s \in S THEN Closed ELSE accepts[s]]
    /\ UNCHANGED issued

ChainNext ==
    \/ \E t \in Token : Open(t)
    \/ \E s \in Token : Redeem(s)
    \/ \E s, t \in Token : Replace(s, t)
    \/ \E S \in SUBSET Token : End(S)

ChainSpec == ChainInit /\ [][ChainNext]_chainVars
=============================================================================
