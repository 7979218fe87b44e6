---------------------------- MODULE FlutterSession ----------------------------
(***************************************************************************)
(* The session of the Flutter application: the access token in memory, the *)
(* pair in the phone's secure storage, the refresh the requests share, and *)
(* signing in and out.                                                     *)
(*                                                                         *)
(* Whoever changes the tokens changes memory at once and the storage one   *)
(* key after the other, and others run between those steps.  A refresh     *)
(* reads its token from the storage.                                       *)
(***************************************************************************)
EXTENDS TokenService

CONSTANTS
  Requests,   \* data requests that may be under way at the same time
  SignIns,    \* subset of {"login", "register"}: the two forms
  SignOuts,   \* presses of the sign-out button
  Faults,     \* subset of {"kill", "lose", "storage"}
  MaxFaults   \* bound: faults

Callers == Requests \cup SignIns \cup SignOuts \cup {"boot"}

ASSUME FlutterConstants ==
  /\ MaxTokens \in Nat \ {0} /\ MaxFaults \in Nat
  /\ SignIns \subseteq {"login", "register"}
  /\ {"boot", "login", "register"} \cap (Requests \cup SignOuts) = {}
  /\ Requests \cap SignOuts = {}

VARIABLES
  token,                 \* _token
  refreshing,            \* _refreshInFlight
  stored,                \* SecureTokenStorage
  calls,                 \* the calls under way
  user, loading,         \* state: the user (as a session), AsyncLoading
  faults, reused, lost, crossed, broken  \* history

screen == <<user, loading>>
past   == <<faults, reused, lost, crossed, broken>>
vars   == <<server, token, refreshing, stored, calls, screen, past>>

Empty   == [access |-> None, refresh |-> None]
Held(t) == [access |-> t, refresh |-> t]

-----------------------------------------------------------------------------
(* Calls, and the steps they take.                                         *)

Idle == [pc |-> "idle", token |-> None, answer |-> "none", retried |-> FALSE]

\* A request keeps the access token it was begun with.
Sent(t, retried) == [pc |-> "sent", token |-> t, answer |-> "none", retried |-> retried]

\* A call that stores token t, or none, key by key.
Storing(t) == [Idle EXCEPT !.pc = "access", !.token = t]

Busy(c) == calls[c].pc # "idle"
Stores(c) == calls[c].pc \in {"access", "refresh"}
Answered(c) == calls[c].pc = "answered"
Put(c, record) == calls' = [calls EXCEPT ![c] = record]
Answer(c, answer, t) == Put(c, [calls[c] EXCEPT !.pc = "answered", !.answer = answer, !.token = t])
End(c) == Put(c, Idle)

NoRefresh == [pc |-> "idle", spends |-> None, got |-> None]

Starting == [c \in Callers |-> IF c = "boot" THEN [Idle EXCEPT !.pc = "restoring"] ELSE Idle]

Init ==
  /\ NothingIssued
  /\ token = None /\ refreshing = NoRefresh /\ stored = Empty
  /\ calls = Starting
  /\ user = None /\ loading = TRUE
  /\ faults = 0 /\ reused = FALSE /\ lost = FALSE /\ crossed = FALSE /\ broken = FALSE

\* Another caller is changing the tokens, or is about to.
Others(c) ==
  \/ refreshing.pc # "idle"
  \/ \E d \in Callers \ {c} : Stores(d) \/ (d \in SignIns \cup SignOuts /\ Busy(d))

Crosses(c) == crossed' = (crossed \/ Others(c))

Fault(f) ==
  /\ f \in Faults /\ faults < MaxFaults
  /\ faults' = faults + 1

-----------------------------------------------------------------------------
(* What is asked for.                                                      *)

RestoreNothing ==
  /\ calls["boot"].pc = "restoring" /\ stored.access = None
  /\ End("boot") /\ loading' = FALSE
  /\ UNCHANGED <<server, token, refreshing, stored, user, past>>

\* The stored token is not yet held: _token is set once it has been accepted.
RestoreToken ==
  /\ calls["boot"].pc = "restoring" /\ stored.access # None
  /\ Put("boot", Sent(stored.access, FALSE))
  /\ UNCHANGED <<server, token, refreshing, stored, screen, past>>

\* callAuthorized: without a token requireToken throws.
Fetch(c) ==
  /\ user # None /\ token # None /\ ~Busy(c)
  /\ Put(c, Sent(token, FALSE))
  /\ UNCHANGED <<server, token, refreshing, stored, screen, past>>

\* A form's buttons are disabled while it submits.  The way back from the
\* registration form to the login form is open, the way there is not.
SignIn(c) ==
  /\ ~loading /\ user = None /\ ~Busy(c)
  /\ c = "register" => \A d \in SignIns : ~Busy(d)
  /\ Put(c, Sent(None, FALSE))
  /\ UNCHANGED <<server, token, refreshing, stored, screen, past>>

\* The button is never disabled; without a token nothing is sent.
SignOut(c) ==
  /\ user # None /\ ~Busy(c)
  /\ Put(c, IF token = None THEN [Idle EXCEPT !.pc = "answered", !.answer = "failed"]
            ELSE Sent(token, FALSE))
  /\ UNCHANGED <<server, token, refreshing, stored, screen, past>>

-----------------------------------------------------------------------------
(* The backend and the network.                                            *)

Effect(c) ==
  \/ c \in SignIns /\ Grant
  \/ c \in SignOuts /\ Revoke(calls[c].token)
  \/ c \in Requests \cup {"boot"} /\ Accepts(calls[c].token) /\ UNCHANGED server

Accept(c) ==
  /\ calls[c].pc = "sent"
  /\ Effect(c)
  /\ IF c \in Requests THEN End(c)
     ELSE Answer(c, "ok", IF c \in SignIns THEN issued + 1 ELSE calls[c].token)
  /\ UNCHANGED <<token, refreshing, stored, screen, past>>

\* A 401.  A request sent again is not retried a second time.
Refuse(c) ==
  /\ calls[c].pc = "sent" /\ c \notin SignIns
  /\ Expire(calls[c].token)
  /\ IF c \in Requests /\ calls[c].retried THEN End(c) ELSE Answer(c, "refused", calls[c].token)
  /\ UNCHANGED <<token, refreshing, stored, screen, past>>

\* Any other failure; a data request ends with it.
CallFails(c) ==
  /\ calls[c].pc = "sent"
  /\ IF c \in Requests THEN End(c) ELSE Answer(c, "failed", None)
  /\ UNCHANGED <<server, token, refreshing, stored, screen, past>>

\* The effect happens and the answer is lost.
AnswerLost(c) ==
  /\ calls[c].pc = "sent" /\ c \in SignIns \cup SignOuts
  /\ Fault("lose")
  /\ Effect(c)
  /\ Answer(c, "failed", None)
  /\ UNCHANGED <<token, refreshing, stored, screen, reused, lost, crossed, broken>>

-----------------------------------------------------------------------------
(* callAuthorized and _refreshAccessToken.                                 *)

\* The first refused request begins the refresh, the others wait for it.
Join(c) ==
  /\ Answered(c) /\ calls[c].answer = "refused"
  /\ Put(c, [calls[c] EXCEPT !.pc = "waiting"])
  /\ IF refreshing.pc # "idle" THEN UNCHANGED <<refreshing, crossed>>
     ELSE /\ refreshing' = [NoRefresh EXCEPT !.pc = "reading"]
          /\ crossed' = (crossed \/ \E d \in Callers : Stores(d))
  /\ UNCHANGED <<server, token, stored, screen, faults, reused, lost, broken>>

\* There is no new token: every request that waited clears the session.
TearDown ==
  /\ refreshing' = NoRefresh /\ token' = None
  /\ calls' = [c \in Callers |-> IF calls[c].pc = "waiting" THEN Storing(None) ELSE calls[c]]
  /\ crossed' = (crossed \/ \E d \in Callers : Stores(d))

ReadNothing ==
  /\ refreshing.pc = "reading" /\ stored.refresh = None
  /\ TearDown
  /\ UNCHANGED <<server, stored, screen, faults, reused, lost, broken>>

ReadRefreshToken ==
  /\ refreshing.pc = "reading" /\ stored.refresh # None
  /\ refreshing' = [refreshing EXCEPT !.pc = "sent", !.spends = stored.refresh]
  /\ UNCHANGED <<server, token, stored, calls, screen, past>>

\* The backend rotates the token: the answer may be lost.
Rotate(answered) ==
  /\ refreshing.pc = "sent" /\ Spend(refreshing.spends)
  /\ refreshing' = [refreshing EXCEPT !.pc = "answered", !.got = IF answered THEN issued + 1 ELSE None]
  /\ IF answered THEN UNCHANGED past
     ELSE Fault("lose") /\ lost' = TRUE /\ UNCHANGED <<reused, crossed, broken>>
  /\ UNCHANGED <<token, stored, calls, screen>>

\* The token was spent before, or its session is over.
RefuseRefresh ==
  /\ refreshing.pc = "sent" /\ Punish(refreshing.spends)
  /\ refreshing' = [refreshing EXCEPT !.pc = "answered"]
  /\ reused' = (reused \/ sessionOf[refreshing.spends] \notin ended)
  /\ UNCHANGED <<token, stored, calls, screen, faults, lost, crossed, broken>>

RefreshCallFails ==
  /\ refreshing.pc = "sent"
  /\ refreshing' = [refreshing EXCEPT !.pc = "answered"]
  /\ UNCHANGED <<server, token, stored, calls, screen, past>>

RefreshFails ==
  /\ refreshing.pc = "answered" /\ refreshing.got = None
  /\ TearDown
  /\ UNCHANGED <<server, stored, screen, faults, reused, lost, broken>>

\* Memory at once, then one key of the storage after the other.
KeepRefreshed ==
  /\ refreshing.pc = "answered" /\ refreshing.got # None
  /\ token' = refreshing.got
  /\ refreshing' = [refreshing EXCEPT !.pc = "access"]
  /\ UNCHANGED <<server, stored, calls, screen, past>>

SaveAccess ==
  /\ refreshing.pc = "access"
  /\ stored' = [stored EXCEPT !.access = refreshing.got]
  /\ refreshing' = [refreshing EXCEPT !.pc = "refresh"]
  /\ UNCHANGED <<server, token, calls, screen, past>>

\* A faulty variant: the refresh token of the answer is not stored.
SaveRefreshForgotten ==
  /\ refreshing.pc = "refresh"
  /\ calls' = [c \in Callers |->
       IF calls[c].pc = "waiting" THEN Sent(refreshing.got, TRUE) ELSE calls[c]]
  /\ refreshing' = NoRefresh
  /\ UNCHANGED <<server, token, stored, screen, past>>

\* Then whoever waited sends its call again with the new token.
SaveRefresh ==
  /\ refreshing.pc = "refresh"
  /\ stored' = [stored EXCEPT !.refresh = refreshing.got]
  /\ calls' = [c \in Callers |->
       IF calls[c].pc = "waiting" THEN Sent(refreshing.got, TRUE) ELSE calls[c]]
  /\ refreshing' = NoRefresh
  /\ UNCHANGED <<server, token, screen, past>>

\* A write that throws is a failed refresh.
SaveFails ==
  /\ refreshing.pc \in {"access", "refresh"}
  /\ Fault("storage")
  /\ TearDown
  /\ lost' = TRUE
  /\ UNCHANGED <<server, stored, screen, reused, broken>>

-----------------------------------------------------------------------------
(* build, login, register, logout, _clearSessionLocally.                   *)

BootSucceeds ==
  /\ Answered("boot") /\ calls["boot"].answer = "ok"
  /\ token' = calls["boot"].token /\ user' = sessionOf[calls["boot"].token]
  /\ loading' = FALSE /\ End("boot")
  /\ UNCHANGED <<server, refreshing, stored, past>>

\* Whatever went wrong, the stored tokens go.
BootFails ==
  /\ Answered("boot") /\ calls["boot"].answer # "ok"
  /\ Put("boot", Storing(None))
  /\ UNCHANGED <<server, token, refreshing, stored, screen, past>>

\* _applySession: the screen follows once both keys are stored.
SignInSucceeds(c) ==
  /\ Answered(c) /\ calls[c].answer = "ok"
  /\ token' = calls[c].token
  /\ Put(c, Storing(calls[c].token))
  /\ Crosses(c)
  /\ UNCHANGED <<server, refreshing, stored, screen, faults, reused, lost, broken>>

\* An answer without a token, which asks for a verified address, is one of these.
SignInFails(c) ==
  /\ Answered(c) /\ calls[c].answer = "failed"
  /\ End(c)
  /\ UNCHANGED <<server, token, refreshing, stored, screen, past>>

\* The revoke is best effort, the local tokens go in any case.
SignOutClears(c) ==
  /\ Answered(c)
  /\ token' = None
  /\ Put(c, Storing(None))
  /\ Crosses(c)
  /\ UNCHANGED <<server, refreshing, stored, screen, faults, reused, lost, broken>>

StoreAccess(c) ==
  /\ calls[c].pc = "access"
  /\ stored' = [stored EXCEPT !.access = calls[c].token]
  /\ Put(c, [calls[c] EXCEPT !.pc = "refresh"])
  /\ UNCHANGED <<server, token, refreshing, screen, past>>

StoreRefresh(c) ==
  /\ calls[c].pc = "refresh"
  /\ stored' = [stored EXCEPT !.refresh = calls[c].token]
  /\ user' = IF c \in SignIns THEN sessionOf[calls[c].token] ELSE None
  /\ loading' = FALSE
  /\ End(c)
  /\ UNCHANGED <<server, token, refreshing, past>>

\* A storage call throws: the rest is not done, and the screen stays as it is.
StoreFails(c) ==
  /\ Stores(c)
  /\ Fault("storage")
  /\ broken' = TRUE
  /\ End(c) /\ loading' = FALSE
  /\ UNCHANGED <<server, token, refreshing, stored, user, reused, lost, crossed>>

\* Killed and started again: what was stored is what there is.
Kill ==
  /\ Fault("kill")
  /\ token' = None /\ refreshing' = NoRefresh /\ calls' = Starting
  /\ user' = None /\ loading' = TRUE
  /\ lost' = (lost \/ refreshing.pc \notin {"idle", "reading"})
  /\ broken' = (broken \/ stored.access # stored.refresh)
  /\ UNCHANGED <<server, stored, reused, crossed>>

-----------------------------------------------------------------------------
Step(c) ==
  \/ Accept(c) \/ Refuse(c) \/ CallFails(c)
  \/ StoreAccess(c) \/ StoreRefresh(c)
  \/ c \in Requests /\ Join(c)
  \/ c = "boot" /\ (RestoreNothing \/ RestoreToken \/ BootSucceeds \/ BootFails)
  \/ c \in SignIns /\ (SignInSucceeds(c) \/ SignInFails(c))
  \/ c \in SignOuts /\ SignOutClears(c)

Refreshes ==
  \/ ReadNothing \/ ReadRefreshToken
  \/ Rotate(TRUE) \/ RefuseRefresh \/ RefreshCallFails \/ RefreshFails
  \/ KeepRefreshed \/ SaveAccess \/ SaveRefresh

Asks ==
  \/ \E c \in Requests : Fetch(c)
  \/ \E c \in SignIns : SignIn(c)
  \/ \E c \in SignOuts : SignOut(c)

Goes == \/ \E c \in Callers : AnswerLost(c) \/ StoreFails(c)
        \/ Rotate(FALSE) \/ SaveFails \/ Kill

Works == (\E c \in Callers : Step(c)) \/ Refreshes

Next == Works \/ Asks \/ Goes

Spec == Init /\ [][Next]_vars

-----------------------------------------------------------------------------
(* Properties.                                                             *)

\* Every variable has its type.
TypeOK ==
  /\ ServiceTyped
  /\ token \in 0..MaxTokens
  /\ stored \in [access : 0..MaxTokens, refresh : 0..MaxTokens]
  /\ refreshing \in [pc : {"idle", "reading", "sent", "answered", "access", "refresh"},
                     spends : 0..MaxTokens, got : 0..MaxTokens]
  /\ calls \in [Callers -> [pc : {"idle", "restoring", "sent", "answered", "waiting",
                                  "access", "refresh"},
                            token : 0..MaxTokens,
                            answer : {"none", "ok", "refused", "failed"}, retried : BOOLEAN]]
  /\ user \in 0..MaxTokens /\ loading \in BOOLEAN
  /\ faults \in Nat /\ {reused, lost, crossed, broken} \subseteq BOOLEAN

AtRest == (\A c \in Callers : ~Busy(c)) /\ refreshing.pc = "idle"

\* The shared refresh (auth_controller.dart:27-32): a spent refresh token is
\* presented only after a rotation that could not be kept, although each refresh
\* reads its token from a storage that others are writing.
ReuseNeedsALoss == reused => lost

\* At rest memory, storage and screen agree on one session, or on none
\* (auth_controller.dart:125-195), unless two of those who change the tokens
\* overlapped, a call of the storage failed, or the application was killed
\* while the two keys differed.
OneSession ==
  AtRest /\ ~crossed /\ ~broken =>
    IF user = None THEN token = None /\ stored = Empty
    ELSE stored = Held(token) /\ token # None /\ sessionOf[token] = user

=============================================================================
