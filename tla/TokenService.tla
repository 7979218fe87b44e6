----------------------------- MODULE TokenService -----------------------------
(***************************************************************************)
(* The authentication API of the backend (external), as the clients that   *)
(* refresh use it.  It issues pairs of an access and a refresh token,      *)
(* numbered in order; a pair is known by its number in both roles.  Each   *)
(* sign-in begins a session, named by its first pair.  A refresh spends a  *)
(* refresh token and issues the session's next pair; presenting one that   *)
(* was spent ends the whole session.                                       *)
(***************************************************************************)
EXTENDS Naturals

CONSTANT MaxTokens  \* bound: pairs issued

VARIABLES
  issued, sessionOf,      \* pairs issued, and the session of each
  expired, unspent, ended \* access tokens, refresh tokens, sessions

server == <<issued, sessionOf, expired, unspent, ended>>

None  == 0
Pairs == 1..MaxTokens

NothingIssued ==
  /\ issued = 0 /\ sessionOf = [t \in Pairs |-> None]
  /\ expired = {} /\ unspent = {} /\ ended = {}

ServiceTyped ==
  /\ issued \in 0..MaxTokens /\ sessionOf \in [Pairs -> 0..MaxTokens]
  /\ expired \subseteq Pairs /\ unspent \subseteq Pairs /\ ended \subseteq 0..MaxTokens

-----------------------------------------------------------------------------
Accepts(t) == t # None /\ t \notin expired /\ sessionOf[t] \notin ended

\* The next pair, of the given session or (None) of one of its own.
Issue(session) ==
  /\ issued < MaxTokens
  /\ issued' = issued + 1
  /\ sessionOf' = [sessionOf EXCEPT ![issued + 1] = IF session = None THEN issued + 1 ELSE session]

\* Login and signup.
Grant == Issue(None) /\ unspent' = unspent \cup {issued + 1} /\ UNCHANGED <<expired, ended>>

\* Logout ends the session of the access token it is sent with.
Revoke(t) ==
  /\ Accepts(t)
  /\ ended' = ended \cup {sessionOf[t]}
  /\ UNCHANGED <<issued, sessionOf, expired, unspent>>

\* A 401: the access token has expired by now, or its session is over.
Expire(t) ==
  /\ expired' = expired \cup ({t} \ {None})
  /\ UNCHANGED <<issued, sessionOf, unspent, ended>>

Rotates(t) == t \in unspent /\ sessionOf[t] \notin ended

\* A refresh token is spent for the next pair of its session.
Spend(t) ==
  /\ Rotates(t)
  /\ Issue(sessionOf[t])
  /\ unspent' = (unspent \ {t}) \cup {issued + 1}
  /\ UNCHANGED <<expired, ended>>

\* A token spent before ends its session; one of an ended session is refused.
Punish(t) ==
  /\ ~Rotates(t)
  /\ ended' = ended \cup {sessionOf[t]}
  /\ UNCHANGED <<issued, sessionOf, expired, unspent>>

=============================================================================
