----------------------------- MODULE SwiftSession -----------------------------
(***************************************************************************)
(* The session of the Swift application: the pair in the Keychain, the     *)
(* bearer header every call of the SDK is sent with, the refresh that the  *)
(* AccessTokenCoordinator shares among its callers, and the SessionStore.  *)
(*                                                                         *)
(* The coordinator is one actor and the SessionStore runs on another, the  *)
(* main one.  A job of an actor is not interrupted by a job of the same    *)
(* actor; both write the Keychain, one key after the other, and the header.*)
(***************************************************************************)
EXTENDS TokenService

CONSTANTS
  Requests,   \* data requests that may be under way at the same time
  SignIns,    \* subset of {"login", "register"}: the two forms
  SignOuts,   \* presses of the sign-out button
  Faults,     \* subset of {"kill", "lose", "keychain"}
  MaxFaults   \* bound: faults

Main        == SignIns \cup SignOuts
Performed   == Requests \cup {"boot"}
Coordinator == Performed \cup {"refresh"}
Callers     == Main \cup Coordinator

\* Assumed of the constants.
SwiftConstants ==
  /\ MaxTokens \in Nat \ {0} /\ MaxFaults \in Nat
  /\ SignIns \subseteq {"login", "register"}
  /\ {"boot", "refresh", "login", "register"} \cap (Requests \cup SignOuts) = {}
  /\ Requests \cap SignOuts = {}

VARIABLES
  header,                \* MudbaseSDKAPIConfiguration.shared.customHeaders
  stored,                \* KeychainTokenStore
  inFlight,              \* inFlightRefresh: who began it, the token it spends, its end
  calls,                 \* the calls under way
  user, isBootstrapping, \* SessionStore: user (as a session)
  faults, reused, lost, crossed, broken, kept  \* history

screen == <<user, isBootstrapping>>
past   == <<faults, reused, lost, crossed, broken, kept>>
vars   == <<server, header, stored, inFlight, calls, screen, past>>

Empty   == [access |-> None, refresh |-> None]
Held(t) == [access |-> t, refresh |-> t]

-----------------------------------------------------------------------------
(* Calls, and the jobs of the two actors.                                  *)

Idle == [pc |-> "idle", token |-> None, answer |-> "none", retried |-> FALSE]

\* A call carries the header there is when it is sent.
Sent(t, retried) == [pc |-> "sent", token |-> t, answer |-> "none", retried |-> retried]

\* A job that writes the pair t, or removes it: access, refresh, header.
Writing(t) == [Idle EXCEPT !.pc = "access", !.token = t]

Busy(c) == calls[c].pc # "idle"
Writes(c) == calls[c].pc \in {"access", "refresh", "header"}
Answered(c) == calls[c].pc = "answered"
Put(c, record) == calls' = [calls EXCEPT ![c] = record]
Answer(c, answer, t) == Put(c, [calls[c] EXCEPT !.pc = "answered", !.answer = answer, !.token = t])
End(c) == Put(c, Idle)

\* The actor runs no other job at the moment.
Free(actor) == \A c \in actor : ~Writes(c)

NoneInFlight == [by |-> "none", spends |-> None, end |-> "none"]

Starting == [c \in Callers |-> IF c = "boot" THEN [Idle EXCEPT !.pc = "loading"] ELSE Idle]

Init ==
  /\ NothingIssued
  /\ header = None /\ stored = Empty /\ inFlight = NoneInFlight
  /\ calls = Starting
  /\ user = None /\ isBootstrapping = TRUE
  /\ faults = 0 /\ reused = FALSE /\ lost = FALSE
  /\ crossed = FALSE /\ broken = FALSE /\ kept = FALSE

\* Somebody else is changing the tokens, or is about to.
Others(c) ==
  \/ inFlight # NoneInFlight
  \/ \E d \in Callers \ {c} : Writes(d) \/ calls[d].pc = "turn" \/ (d \in Main /\ Busy(d))

Crosses(c) == crossed' = (crossed \/ Others(c))

Fault(f) ==
  /\ f \in Faults /\ faults < MaxFaults
  /\ faults' = faults + 1

-----------------------------------------------------------------------------
(* What is asked for.                                                      *)

Restorable == stored.access # None /\ stored.refresh # None

RestoreNothing ==
  /\ calls["boot"].pc = "loading" /\ ~Restorable
  /\ End("boot") /\ isBootstrapping' = FALSE
  /\ UNCHANGED <<server, header, stored, inFlight, user, past>>

RestoreTokens ==
  /\ calls["boot"].pc = "loading" /\ Restorable
  /\ header' = stored.access
  /\ Put("boot", Sent(stored.access, FALSE))
  /\ UNCHANGED <<server, stored, inFlight, screen, past>>

\* A call through the coordinator, sent without a bearer when there is none.
Fetch(c) ==
  /\ user # None /\ ~Busy(c)
  /\ Put(c, Sent(header, FALSE))
  /\ UNCHANGED <<server, header, stored, inFlight, screen, past>>

\* Each form's button is disabled while it submits; one may change forms.
SignIn(c) ==
  /\ ~isBootstrapping /\ user = None /\ ~Busy(c) /\ Free(Main)
  /\ Put(c, Sent(None, FALSE))
  /\ UNCHANGED <<server, header, stored, inFlight, screen, past>>

\* The sign-out button is never disabled.
SignOut(c) ==
  /\ user # None /\ ~Busy(c) /\ Free(Main)
  /\ Put(c, Sent(header, FALSE))
  /\ UNCHANGED <<server, header, stored, inFlight, screen, past>>

-----------------------------------------------------------------------------
(* The backend and the network.                                            *)

Effect(c) ==
  \/ c \in SignIns /\ calls[c].token = None /\ Grant
  \/ c \in SignOuts /\ Revoke(calls[c].token)
  \/ c \in Performed \cup SignIns /\ Accepts(calls[c].token) /\ UNCHANGED server

\* A sign-in is answered with a new pair; a call for the user with that user.
Accept(c) ==
  /\ calls[c].pc = "sent" /\ c # "refresh"
  /\ Effect(c)
  /\ IF c \in Requests THEN End(c)
     ELSE IF c \in SignIns /\ calls[c].token = None THEN Answer(c, "pair", issued + 1)
     ELSE Answer(c, "ok", calls[c].token)
  /\ UNCHANGED <<header, stored, inFlight, screen, past>>

\* A 401.  A request sent again is not retried a second time.
Refuse(c) ==
  /\ calls[c].pc = "sent" /\ c # "refresh" /\ ~(c \in SignIns /\ calls[c].token = None)
  /\ Expire(calls[c].token)
  /\ IF c \in Requests /\ calls[c].retried THEN End(c) ELSE Answer(c, "refused", calls[c].token)
  /\ UNCHANGED <<header, stored, inFlight, screen, past>>

\* Any other failure; a data request ends with it.
CallFails(c) ==
  /\ calls[c].pc = "sent"
  /\ IF c \in Requests THEN End(c) ELSE Answer(c, "failed", None)
  /\ UNCHANGED <<server, header, stored, inFlight, screen, past>>

\* The effect happens and the answer is lost.
AnswerLost(c) ==
  /\ calls[c].pc = "sent"
  /\ c \in Main
  /\ Fault("lose")
  /\ Effect(c)
  /\ Answer(c, "failed", None)
  /\ UNCHANGED <<header, stored, inFlight, screen, reused, lost, crossed, broken, kept>>

-----------------------------------------------------------------------------
(* perform and refreshedAccessToken.                                       *)

Refused(c) == Answered(c) /\ calls[c].answer = "refused" /\ ~calls[c].retried

\* Another caller's refresh is awaited; it may have ended already.
Await(c) ==
  /\ Refused(c) /\ Free(Coordinator) /\ inFlight # NoneInFlight
  /\ Put(c, IF inFlight.end = "none" THEN [calls[c] EXCEPT !.pc = "waiting"]
            ELSE [calls[c] EXCEPT !.pc = "turn", !.answer = inFlight.end])
  /\ UNCHANGED <<server, header, stored, inFlight, screen, past>>

\* The first refused call begins the refresh with the token of the Keychain.
Begin(c) ==
  /\ Refused(c) /\ Free(Coordinator) /\ inFlight = NoneInFlight /\ Restorable
  /\ inFlight' = [by |-> c, spends |-> stored.refresh, end |-> "none"]
  /\ calls' = [calls EXCEPT ![c].pc = "waiting", !["refresh"] = Sent(None, FALSE)]
  /\ crossed' = (crossed \/ ~Free(Main))
  /\ UNCHANGED <<server, header, stored, screen, faults, reused, lost, broken, kept>>

\* There is nothing to refresh with.
BeginNothing(c) ==
  /\ Refused(c) /\ Free(Coordinator) /\ inFlight = NoneInFlight /\ ~Restorable
  /\ Put(c, Writing(None))
  /\ Crosses(c)
  /\ UNCHANGED <<server, header, stored, inFlight, screen, faults, reused, lost, broken, kept>>

\* The backend rotates the token: the answer may be lost.
Rotate(answered) ==
  /\ calls["refresh"].pc = "sent" /\ Spend(inFlight.spends)
  /\ IF answered THEN Answer("refresh", "pair", issued + 1) ELSE Answer("refresh", "failed", None)
  /\ IF answered THEN UNCHANGED past
     ELSE Fault("lose") /\ lost' = TRUE /\ UNCHANGED <<reused, crossed, broken, kept>>
  /\ UNCHANGED <<header, stored, inFlight, screen>>

\* The token was spent before, or its session is over.
RefuseRefresh ==
  /\ calls["refresh"].pc = "sent" /\ Punish(inFlight.spends)
  /\ Answer("refresh", "refused", None)
  /\ reused' = (reused \/ sessionOf[inFlight.spends] \notin ended)
  /\ UNCHANGED <<header, stored, inFlight, screen, faults, lost, crossed, broken, kept>>

KeepRefreshed ==
  /\ Answered("refresh") /\ calls["refresh"].answer = "pair" /\ Free(Coordinator)
  /\ Put("refresh", Writing(calls["refresh"].token))
  /\ crossed' = (crossed \/ ~Free(Main))
  /\ UNCHANGED <<server, header, stored, inFlight, screen, faults, reused, lost, broken, kept>>

\* A faulty variant: only who began the refresh is told of its end.
WakeFirst(end) ==
  /\ inFlight' = [inFlight EXCEPT !.end = end]
  /\ calls' = [calls EXCEPT !["refresh"] = Idle,
                           ![inFlight.by].pc = "turn", ![inFlight.by].answer = end]

\* The task is over, and everybody who waits for it gets a job.
Wake(end) ==
  /\ inFlight' = [inFlight EXCEPT !.end = end]
  /\ calls' = [c \in Callers |->
       IF c = "refresh" THEN Idle
       ELSE IF calls[c].pc = "waiting" THEN [calls[c] EXCEPT !.pc = "turn", !.answer = end]
       ELSE calls[c]]

Refreshed ==
  /\ calls["refresh"].pc = "done" /\ Free(Coordinator)
  /\ Wake("ok")
  /\ UNCHANGED <<server, header, stored, screen, past>>

RefreshFails ==
  /\ Answered("refresh") /\ calls["refresh"].answer # "pair" /\ Free(Coordinator)
  /\ Wake("failed")
  /\ crossed' = (crossed \/ ~Free(Main))
  /\ UNCHANGED <<server, header, stored, screen, faults, reused, lost, broken, kept>>

\* In any order they send their calls again, or clear the tokens; in its job
\* the one who began the refresh forgets it.
TakeTurn(c) ==
  /\ calls[c].pc = "turn" /\ Free(Coordinator)
  /\ Put(c, IF calls[c].answer = "ok" THEN Sent(header, TRUE) ELSE Writing(None))
  /\ inFlight' = IF c = inFlight.by THEN NoneInFlight ELSE inFlight
  /\ UNCHANGED <<server, header, stored, screen, past>>

-----------------------------------------------------------------------------
(* bootstrap, login, register, logout.                                     *)

BootSucceeds ==
  /\ Answered("boot") /\ calls["boot"].answer = "ok"
  /\ user' = sessionOf[calls["boot"].token] /\ isBootstrapping' = FALSE
  /\ End("boot")
  /\ UNCHANGED <<server, header, stored, inFlight, past>>

\* Not a 401: the tokens stay for the next start.
BootUndecided ==
  /\ Answered("boot") /\ calls["boot"].answer = "failed"
  /\ isBootstrapping' = FALSE /\ kept' = TRUE
  /\ End("boot")
  /\ UNCHANGED <<server, header, stored, inFlight, user, faults, reused, lost, crossed, broken>>

\* The call sent again after a refresh is refused as well.
BootRefused ==
  /\ Answered("boot") /\ calls["boot"].answer = "refused" /\ calls["boot"].retried
  /\ Put("boot", Writing(None))
  /\ UNCHANGED <<server, header, stored, inFlight, screen, past>>

SignInSucceeds(c) ==
  /\ Answered(c) /\ calls[c].answer = "pair" /\ Free(Main)
  /\ Put(c, Writing(calls[c].token))
  /\ Crosses(c) /\ kept' = FALSE
  /\ UNCHANGED <<server, header, stored, inFlight, screen, faults, reused, lost, broken>>

\* login asks for the user once the tokens are kept.
UserArrives(c) ==
  /\ Answered(c) /\ calls[c].answer = "ok" /\ Free(Main)
  /\ user' = sessionOf[calls[c].token]
  /\ End(c)
  /\ UNCHANGED <<server, header, stored, inFlight, isBootstrapping, past>>

\* The form says that the sign-in failed; tokens kept by then stay.
SignInFails(c) ==
  /\ Answered(c) /\ calls[c].answer \in {"refused", "failed"} /\ Free(Main)
  /\ kept' = (kept \/ header # None)
  /\ End(c)
  /\ UNCHANGED <<server, header, stored, inFlight, screen, faults, reused, lost, crossed, broken>>

\* A faulty variant: the tokens go only once the revoke has succeeded.
SignOutClearsIfRevoked(c) ==
  /\ Answered(c) /\ Free(Main)
  /\ IF calls[c].answer = "ok" THEN Put(c, Writing(None)) /\ UNCHANGED user
     ELSE End(c) /\ user' = None
  /\ Crosses(c)
  /\ UNCHANGED <<server, header, stored, inFlight, isBootstrapping, faults, reused, lost, broken, kept>>

\* The revoke is best effort, the tokens go in any case.
SignOutClears(c) ==
  /\ Answered(c) /\ Free(Main)
  /\ Put(c, Writing(None))
  /\ Crosses(c)
  /\ UNCHANGED <<server, header, stored, inFlight, screen, faults, reused, lost, broken, kept>>

WriteAccess(c) ==
  /\ calls[c].pc = "access"
  /\ stored' = [stored EXCEPT !.access = calls[c].token]
  /\ Put(c, [calls[c] EXCEPT !.pc = "refresh"])
  /\ UNCHANGED <<server, header, inFlight, screen, past>>

WriteRefresh(c) ==
  /\ calls[c].pc = "refresh"
  /\ stored' = [stored EXCEPT !.refresh = calls[c].token]
  /\ Put(c, [calls[c] EXCEPT !.pc = "header"])
  /\ UNCHANGED <<server, header, inFlight, screen, past>>

\* The end of the job, and what its caller does next.
WriteHeader(c) ==
  /\ calls[c].pc = "header"
  /\ header' = calls[c].token
  /\ CASE c = "refresh" -> Put(c, [calls[c] EXCEPT !.pc = "done"])
       [] c = "login"   -> Put(c, Sent(calls[c].token, FALSE))
       [] OTHER         -> End(c)
  /\ user' = CASE c = "register" -> sessionOf[calls[c].token]
               [] c \in SignOuts \cup {"boot"} -> None
               [] OTHER -> user
  /\ isBootstrapping' = (isBootstrapping /\ c # "boot")
  /\ UNCHANGED <<server, stored, inFlight, past>>

\* SecItemAdd fails, and nobody looks at its status: the key is gone.
KeychainFails(c) ==
  /\ calls[c].pc \in {"access", "refresh"} /\ calls[c].token # None
  /\ Fault("keychain")
  /\ stored' = IF calls[c].pc = "access" THEN [stored EXCEPT !.access = None]
               ELSE [stored EXCEPT !.refresh = None]
  /\ Put(c, [calls[c] EXCEPT !.pc = IF calls[c].pc = "access" THEN "refresh" ELSE "header"])
  /\ broken' = TRUE
  /\ UNCHANGED <<server, header, inFlight, screen, reused, lost, crossed, kept>>

\* Killed and started again: what the Keychain holds is what there is.
Kill ==
  /\ Fault("kill")
  /\ header' = None /\ inFlight' = NoneInFlight /\ calls' = Starting
  /\ user' = None /\ isBootstrapping' = TRUE
  /\ lost' = (lost \/ Busy("refresh"))
  /\ broken' = (broken \/ \E c \in Callers : calls[c].pc = "refresh")
  /\ UNCHANGED <<server, stored, reused, crossed, kept>>

-----------------------------------------------------------------------------
Step(c) ==
  \/ Accept(c) \/ Refuse(c) \/ CallFails(c)
  \/ WriteAccess(c) \/ WriteRefresh(c) \/ WriteHeader(c)
  \/ c \in Performed /\ (Await(c) \/ Begin(c) \/ BeginNothing(c) \/ TakeTurn(c))
  \/ c = "boot" /\ (RestoreNothing \/ RestoreTokens \/ BootSucceeds \/ BootUndecided \/ BootRefused)
  \/ c \in SignIns /\ (SignInSucceeds(c) \/ UserArrives(c) \/ SignInFails(c))
  \/ c \in SignOuts /\ SignOutClears(c)

Refreshes == Rotate(TRUE) \/ RefuseRefresh \/ KeepRefreshed \/ Refreshed \/ RefreshFails

Asks ==
  \/ \E c \in Requests : Fetch(c)
  \/ \E c \in SignIns : SignIn(c)
  \/ \E c \in SignOuts : SignOut(c)

Goes == \/ \E c \in Callers : AnswerLost(c) \/ KeychainFails(c)
        \/ Rotate(FALSE) \/ Kill

Works == (\E c \in Callers : Step(c)) \/ Refreshes

Next == Works \/ Asks \/ Goes

Spec == Init /\ [][Next]_vars

-----------------------------------------------------------------------------
(* Properties.                                                             *)

\* Every variable has its type.
TypeOK ==
  /\ ServiceTyped
  /\ header \in 0..MaxTokens
  /\ stored \in [access : 0..MaxTokens, refresh : 0..MaxTokens]
  /\ inFlight \in [by : Performed \cup {"none"}, spends : 0..MaxTokens,
                   end : {"none", "ok", "failed"}]
  /\ calls \in [Callers -> [pc : {"idle", "loading", "sent", "answered", "waiting", "turn",
                                  "access", "refresh", "header", "done"},
                            token : 0..MaxTokens,
                            answer : {"none", "ok", "pair", "refused", "failed"},
                            retried : BOOLEAN]]
  /\ user \in 0..MaxTokens /\ isBootstrapping \in BOOLEAN
  /\ faults \in Nat /\ {reused, lost, crossed, broken, kept} \subseteq BOOLEAN

AtRest == (\A c \in Callers : ~Busy(c)) /\ inFlight = NoneInFlight

\* The shared refresh (AccessTokenCoordinator.swift:4-8): however the jobs of the
\* two actors interleave, a spent refresh token is presented only after a
\* rotation that could not be kept.
ReuseNeedsALoss == reused => lost

\* At rest the header and the Keychain, which two actors write, hold the same
\* pair, and it belongs to the user shown; a user shown without one was expelled
\* by a refresh that failed, and a pair that nobody is shown for was kept by a
\* start or a sign-in that could not ask for the user (SessionStore.swift:31-67,
\* 78-112).  Apart are changes of the tokens that overlapped, a write of the
\* Keychain that failed, and a kill between its two keys.
OneSession ==
  AtRest /\ ~crossed /\ ~broken =>
    /\ stored = Held(header)
    /\ header # None => user = sessionOf[header] \/ (user = None /\ kept)

=============================================================================
