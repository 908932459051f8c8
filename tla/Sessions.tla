-------------------------------- MODULE Sessions --------------------------------
(***************************************************************************)
(* SessionService (src/src/finmind_api/auth.py): the sessions the server   *)
(* keeps in memory, and the cookie with which a browser names one.  Tokens *)
(* are random and signed with a secret that outlives the process; here     *)
(* they are numbers that are never used twice, and a cookie without a      *)
(* valid signature is NoToken.                                             *)
(***************************************************************************)
EXTENDS Naturals

NoToken == 0

VARIABLES
  sessions,   \* _sessions: token -> "live", or "expired" from expires_at on
  issued,     \* how many sessions were created
  cookie      \* the token the browser sends

sessionVars == <<sessions, issued, cookie>>

Without(t) == [u \in DOMAIN sessions \ {t} |-> sessions[u]]

\* create_session, and the cookie of the answer to the login.
CreateSession ==
  /\ issued' = issued + 1
  /\ sessions' = [t \in DOMAIN sessions \union {issued'} |->
                    IF t = issued' THEN "live" ELSE sessions[t]]
  /\ cookie' = issued'

\* mutant: a session is good as long as it is in the dictionary
AuthorisedWhileKept(t) == t \in DOMAIN sessions

\* What get_session answers require_session.
Authorised(t) == t \in DOMAIN sessions /\ sessions[t] = "live"

\* get_session drops an expired session it comes across.
GetSession(t) == sessions' = IF Authorised(t) THEN sessions ELSE Without(t)

DeleteSession(t) == sessions' = Without(t)

\* Time passes the expires_at of a session.
Expire ==
  /\ \E t \in DOMAIN sessions :
       sessions[t] = "live" /\ sessions' = [sessions EXCEPT ![t] = "expired"]
  /\ UNCHANGED <<issued, cookie>>

\* The process starts again with an empty dictionary.
ForgetSessions == sessions' = [t \in {} |-> "live"]
================================================================================
