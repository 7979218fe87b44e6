------------------------------ MODULE ExpoSession ------------------------------
(***************************************************************************)
(* The session of the Expo application: the token pair in memory and in    *)
(* the phone's secure storage, the refresh the requests share, signing in  *)
(* and out, and starting again after the application was killed.           *)
(***************************************************************************)
EXTENDS TokenService, Sequences

CONSTANTS
  Requests,   \* data requests that may be under way at the same time
  SignOuts,   \* presses of the sign-out button
  Faults,     \* subset of {"kill", "lose", "write", "delete"}
  MaxFaults   \* bound: faults

Callers == Requests \cup SignOuts \cup {"boot", "login"}

ASSUME SessionConstants ==
  /\ MaxTokens \in Nat \ {0} /\ MaxFaults \in Nat
  /\ {"boot", "login", "refresh"} \cap (Requests \cup SignOuts) = {}
  /\ Requests \cap SignOuts = {}

VARIABLES
  memory,                \* client.ts: token, refreshTokenValue
  refreshing,            \* client.ts: refreshing
  disk, writes,          \* secureStorage: what is stored, what is still to be written
  calls,                 \* the calls under way
  screen,                \* authStore.ts: user (as a session), isInitializing, isSubmitting
  faults, reused, lost, crossed  \* history

client == <<memory, refreshing, calls>>
store  == <<disk, writes>>
past   == <<faults, reused, lost, crossed>>
vars   == <<server, client, store, screen, past>>

Empty  == [access |-> None, refresh |-> None]
Held(t) == [access |-> t, refresh |-> t]

-----------------------------------------------------------------------------
(* The calls under way, and the refresh they share.                        *)

Idle == [pc |-> "idle", token |-> None, answer |-> "none", retried |-> FALSE]

\* A request carries the access token memory holds when it is sent.
Sent(token, retried) ==
  [pc |-> "sent", token |-> token, answer |-> "none", retried |-> retried]

Busy(c) == calls[c].pc # "idle"
Answered(c) == calls[c].pc = "answered"
Answer(c, answer, token) ==
  calls' = [calls EXCEPT ![c].pc = "answered", ![c].answer = answer, ![c].token = token]
To(c, pc) == calls' = [calls EXCEPT ![c].pc = pc]
End(c) == calls' = [calls EXCEPT ![c] = Idle]

NoRefresh == [pc |-> "idle", spends |-> None, got |-> None]

\* A faulty variant: isSubmitting is forgotten.
SignedOutPartly == [user |-> None, booting |-> FALSE]

SignedOut == [user |-> None, booting |-> FALSE, submitting |-> FALSE]
AtBoot    == [user |-> None, booting |-> TRUE, submitting |-> FALSE]

Init ==
  /\ NothingIssued
  /\ memory = Empty /\ refreshing = NoRefresh
  /\ disk = Empty /\ writes = <<>>
  /\ calls = [c \in Callers |-> IF c = "boot" THEN [Idle EXCEPT !.pc = "restoring"] ELSE Idle]
  /\ screen = AtBoot
  /\ faults = 0 /\ reused = FALSE /\ lost = FALSE /\ crossed = FALSE

-----------------------------------------------------------------------------
(* Tokens in memory and in the secure storage.                             *)

\* Both keys are written at once; the storage takes its calls in order.
Writes(pair, by) ==
  <<[key |-> "access", value |-> pair.access, by |-> by],
    [key |-> "refresh", value |-> pair.refresh, by |-> by]>>

\* persistTokens and clearTokens: memory at once, then the storage.
Keep(pair, by) ==
  /\ memory' = pair
  /\ writes' = writes \o Writes(pair, by)

\* A sign-in or a sign-out that changes the tokens while a refresh is under way,
\* or a sign-in that does while a sign-out is.
Crosses(c) ==
  crossed' = \/ crossed
             \/ refreshing.pc # "idle"
             \/ c = "login" /\ \E out \in SignOuts : Busy(out)

Written(by) == \A i \in DOMAIN writes : writes[i].by # by

Restorable == disk.access # None /\ disk.refresh # None

\* Each key of another session.
Halves == Restorable /\ sessionOf[disk.access] # sessionOf[disk.refresh]

Fault(f) ==
  /\ f \in Faults /\ faults < MaxFaults
  /\ faults' = faults + 1

\* One setItemAsync or deleteItemAsync is done.
Write ==
  /\ writes # <<>>
  /\ disk' = [disk EXCEPT ![Head(writes).key] = Head(writes).value]
  /\ writes' = Tail(writes)
  /\ UNCHANGED <<server, client, screen, past>>

-----------------------------------------------------------------------------
(* Calls: sent by the application, answered by the backend.                *)

\* initialize, restoreTokens: nothing to restore, or a session to ask for.
RestoreNothing ==
  /\ calls["boot"].pc = "restoring" /\ ~Restorable
  /\ End("boot")
  /\ screen' = SignedOut
  /\ UNCHANGED <<server, memory, refreshing, store, past>>

RestoreTokens ==
  /\ calls["boot"].pc = "restoring" /\ Restorable
  /\ memory' = disk
  /\ calls' = [calls EXCEPT !["boot"] = Sent(disk.access, FALSE)]
  /\ UNCHANGED <<server, refreshing, store, screen, past>>

\* A screen behind the tabs reads or writes a document.
Fetch(c) ==
  /\ screen.user # None /\ ~Busy(c)
  /\ calls' = [calls EXCEPT ![c] = Sent(memory.access, FALSE)]
  /\ UNCHANGED <<server, memory, refreshing, store, screen, past>>

\* The form's buttons are disabled while isSubmitting.
SignIn ==
  /\ ~screen.booting /\ screen.user = None /\ ~screen.submitting /\ ~Busy("login")
  /\ calls' = [calls EXCEPT !["login"] = Sent(None, FALSE)]
  /\ screen' = [screen EXCEPT !.submitting = TRUE]
  /\ UNCHANGED <<server, memory, refreshing, store, past>>

\* The sign-out button is never disabled.
SignOut(c) ==
  /\ screen.user # None /\ ~Busy(c)
  /\ calls' = [calls EXCEPT ![c] = Sent(memory.access, FALSE)]
  /\ screen' = [screen EXCEPT !.submitting = TRUE]
  /\ UNCHANGED <<server, memory, refreshing, store, past>>

\* What the backend does for a call it accepts, before its answer.
Effect(c) ==
  \/ c = "login" /\ Grant
  \/ c \in SignOuts /\ Revoke(calls[c].token)
  \/ c \in Requests \cup {"boot"} /\ Accepts(calls[c].token) /\ UNCHANGED server

Accept(c) ==
  /\ calls[c].pc = "sent"
  /\ Effect(c)
  /\ IF c \in Requests THEN End(c)
     ELSE Answer(c, "ok", IF c = "login" THEN issued + 1 ELSE calls[c].token)
  /\ UNCHANGED <<memory, refreshing, store, screen, past>>

\* A 401: the token has expired by now, or its session is over.  A request sent
\* again is not retried a second time.
Refuse(c) ==
  /\ calls[c].pc = "sent" /\ c # "login"
  /\ Expire(calls[c].token)
  /\ IF c \in Requests /\ calls[c].retried THEN End(c) ELSE Answer(c, "refused", None)
  /\ UNCHANGED <<memory, refreshing, store, screen, past>>

\* The call fails, or the backend does, before it had an effect.  (A data
\* request ends with any answer but a 401, and changes nothing here.)
CallFails(c) ==
  /\ calls[c].pc = "sent" /\ c \notin Requests
  /\ Answer(c, "failed", None)
  /\ UNCHANGED <<server, memory, refreshing, store, screen, past>>

\* The effect happens and the answer is lost.
AnswerLost(c) ==
  /\ calls[c].pc = "sent" /\ c \in SignOuts \cup {"login"}
  /\ Fault("lose")
  /\ Effect(c)
  /\ Answer(c, "failed", None)
  /\ UNCHANGED <<memory, refreshing, store, screen, reused, lost, crossed>>

-----------------------------------------------------------------------------
(* withAuthRetry and refreshSession.                                       *)

Retries(c) ==
  /\ Answered(c) /\ calls[c].answer = "refused" /\ ~calls[c].retried
  /\ memory.refresh # None

\* The first refused request sends the refresh, the others wait for it.
Join(c) ==
  /\ Retries(c)
  /\ To(c, "waiting")
  /\ refreshing' = IF refreshing.pc # "idle" THEN refreshing
                   ELSE [NoRefresh EXCEPT !.pc = "sent", !.spends = memory.refresh]
  /\ UNCHANGED <<server, memory, store, screen, past>>

\* The backend rotates the token: the answer may be lost.
Rotate(answered) ==
  /\ refreshing.pc = "sent" /\ Spend(refreshing.spends)
  /\ refreshing' = [refreshing EXCEPT !.pc = "answered", !.got = IF answered THEN issued + 1 ELSE None]
  /\ IF answered THEN UNCHANGED past
     ELSE Fault("lose") /\ lost' = TRUE /\ UNCHANGED <<reused, crossed>>
  /\ UNCHANGED <<memory, calls, store, screen>>

\* The token was spent before, or its session is over.
RefuseRefresh ==
  /\ refreshing.pc = "sent" /\ Punish(refreshing.spends)
  /\ refreshing' = [refreshing EXCEPT !.pc = "answered"]
  /\ reused' = (reused \/ sessionOf[refreshing.spends] \notin ended)
  /\ UNCHANGED <<memory, calls, store, screen, faults, lost, crossed>>

RefreshCallFails ==
  /\ refreshing.pc = "sent"
  /\ refreshing' = [refreshing EXCEPT !.pc = "answered"]
  /\ UNCHANGED <<server, memory, calls, store, screen, past>>

\* Faulty variants: the refresh token of the answer is ignored, the new pair is
\* not stored.
KeepOldRefresh ==
  /\ refreshing.pc = "answered" /\ refreshing.got # None
  /\ Keep([memory EXCEPT !.access = refreshing.got], "refresh")
  /\ refreshing' = [refreshing EXCEPT !.pc = "storing"]
  /\ UNCHANGED <<server, calls, disk, screen, past>>

KeepInMemory ==
  /\ refreshing.pc = "answered" /\ refreshing.got # None
  /\ memory' = Held(refreshing.got)
  /\ refreshing' = [refreshing EXCEPT !.pc = "storing"]
  /\ UNCHANGED <<server, calls, store, screen, past>>

\* The answer is a new pair: memory at once, then the storage.
KeepRefreshed ==
  /\ refreshing.pc = "answered" /\ refreshing.got # None
  /\ Keep(Held(refreshing.got), "refresh")
  /\ refreshing' = [refreshing EXCEPT !.pc = "storing"]
  /\ UNCHANGED <<server, calls, disk, screen, past>>

\* A faulty variant: who waited is not told of a failure.
SettleSilently(ok) ==
  /\ refreshing' = NoRefresh
  /\ calls' = [c \in Callers |->
       IF ok /\ calls[c].pc = "waiting" THEN Sent(memory.access, TRUE) ELSE calls[c]]

\* The shared promise settles: whoever waited sends the call again, or fails.
Settle(ok) ==
  /\ refreshing' = NoRefresh
  /\ calls' = [c \in Callers |->
       IF calls[c].pc # "waiting" THEN calls[c]
       ELSE IF ok THEN Sent(memory.access, TRUE)
       ELSE IF c \in Requests THEN Idle
       ELSE [calls[c] EXCEPT !.pc = "answered", !.answer = "failed"]]

Refreshed ==
  /\ refreshing.pc = "storing" /\ Written("refresh")
  /\ Settle(TRUE)
  /\ UNCHANGED <<server, memory, store, screen, past>>

RefreshFails ==
  /\ refreshing.pc = "answered" /\ refreshing.got = None
  /\ Settle(FALSE)
  /\ UNCHANGED <<server, memory, store, screen, past>>

-----------------------------------------------------------------------------
(* What the callers do with the answer.                                    *)

\* There is nothing to refresh with: a data request ends with its error.
Receive(c) ==
  /\ Answered(c) /\ ~Retries(c)
  /\ End(c)
  /\ UNCHANGED <<server, memory, refreshing, store, screen, past>>

\* getSession: the user the backend names; whatever went wrong clears the tokens.
BootSucceeds ==
  /\ Answered("boot") /\ calls["boot"].answer = "ok"
  /\ screen' = [SignedOut EXCEPT !.user = sessionOf[calls["boot"].token]]
  /\ End("boot")
  /\ UNCHANGED <<server, memory, refreshing, store, past>>

\* The answer names no user: nobody is shown, and the tokens stay.
BootFindsNobody ==
  /\ Answered("boot") /\ calls["boot"].answer = "ok"
  /\ screen' = SignedOut
  /\ End("boot")
  /\ crossed' = TRUE
  /\ UNCHANGED <<server, memory, refreshing, store, faults, reused, lost>>

BootFails ==
  /\ Answered("boot") /\ calls["boot"].answer # "ok" /\ ~Retries("boot")
  /\ Keep(Empty, "boot") /\ To("boot", "storing")
  /\ UNCHANGED <<server, refreshing, disk, screen, past>>

SignInSucceeds ==
  /\ Answered("login") /\ calls["login"].answer = "ok"
  /\ Keep(Held(calls["login"].token), "login") /\ To("login", "storing")
  /\ Crosses("login")
  /\ UNCHANGED <<server, refreshing, disk, screen, faults, reused, lost>>

SignInFails ==
  /\ Answered("login") /\ calls["login"].answer = "failed"
  /\ End("login")
  /\ screen' = [screen EXCEPT !.submitting = FALSE]
  /\ UNCHANGED <<server, memory, refreshing, store, past>>

\* A faulty variant: the tokens are cleared only when the revoke succeeds.
SignOutClearsIfRevoked(c) ==
  /\ Answered(c)
  /\ IF calls[c].answer = "ok" THEN Keep(Empty, c) ELSE UNCHANGED <<memory, writes>>
  /\ To(c, "storing")
  /\ Crosses(c)
  /\ UNCHANGED <<server, refreshing, disk, screen, faults, reused, lost>>

\* logout: the revoke is best effort, the tokens go in any case.
SignOutClears(c) ==
  /\ Answered(c)
  /\ Keep(Empty, c) /\ To(c, "storing")
  /\ Crosses(c)
  /\ UNCHANGED <<server, refreshing, disk, screen, faults, reused, lost>>

\* The storage has taken the tokens: the caller returns to the auth store.
Stored(c) ==
  /\ calls[c].pc = "storing" /\ Written(c)
  /\ screen' = IF c = "login"
               THEN [screen EXCEPT !.user = sessionOf[calls[c].token], !.submitting = FALSE]
               ELSE SignedOut
  /\ End(c)
  /\ UNCHANGED <<server, memory, refreshing, store, past>>

-----------------------------------------------------------------------------
(* Faults of the storage, and the end of the process.                      *)

\* A failed write rejects for its caller at once; a failed delete is swallowed.
WriteFails ==
  /\ writes # <<>>
  /\ LET by == Head(writes).by
         deleting == Head(writes).value = None
     IN /\ Fault(IF deleting THEN "delete" ELSE "write")
        /\ writes' = Tail(writes)
        /\ CASE by = "refresh" /\ refreshing.pc = "storing" ->
                  Settle(FALSE) /\ UNCHANGED screen
             [] by = "login" /\ calls[by].pc = "storing" ->
                  /\ End(by) /\ screen' = [screen EXCEPT !.submitting = FALSE]
                  /\ UNCHANGED refreshing
             [] OTHER -> UNCHANGED <<calls, screen, refreshing>>
        /\ lost' = (lost \/ by = "refresh")
        /\ crossed' = (crossed \/ ~deleting \/ (Head(writes).key = "refresh" /\ disk.access # None))
  /\ UNCHANGED <<server, memory, disk, reused>>

\* Killed and started again: what was stored is what there is.
Kill ==
  /\ Fault("kill")
  /\ memory' = Empty /\ refreshing' = NoRefresh /\ writes' = <<>>
  /\ calls' = [c \in Callers |-> IF c = "boot" THEN [Idle EXCEPT !.pc = "restoring"] ELSE Idle]
  /\ screen' = AtBoot
  /\ lost' = (lost \/ refreshing.pc # "idle")
  /\ crossed' = (crossed \/ Halves)
  /\ UNCHANGED <<server, disk, reused>>

-----------------------------------------------------------------------------
\* The next step of a call, whoever takes it.
Step(c) ==
  \/ Accept(c) \/ Refuse(c) \/ CallFails(c)
  \/ c \in Requests \cup {"boot"} /\ Join(c)
  \/ c \in Requests /\ Receive(c)
  \/ c = "boot" /\ (RestoreNothing \/ RestoreTokens \/ BootSucceeds \/ BootFindsNobody \/ BootFails)
  \/ c = "login" /\ (SignInSucceeds \/ SignInFails)
  \/ c \in SignOuts /\ SignOutClears(c)
  \/ c \notin Requests /\ Stored(c)

Refreshes ==
  \/ Rotate(TRUE) \/ RefuseRefresh \/ RefreshCallFails
  \/ KeepRefreshed \/ Refreshed \/ RefreshFails

Asks == SignIn \/ (\E c \in Requests : Fetch(c)) \/ (\E c \in SignOuts : SignOut(c))

Goes == \/ \E c \in Callers : AnswerLost(c)
        \/ Rotate(FALSE) \/ WriteFails \/ Kill

Works == (\E c \in Callers : Step(c)) \/ Refreshes \/ Write

Next == Works \/ Asks \/ Goes

Spec == Init /\ [][Next]_vars

\* Every call is answered or fails, and the event loop runs what is ready.
FairSpec == Spec /\ WF_vars(Works)

-----------------------------------------------------------------------------
(* Properties.                                                             *)

\* Every variable has its type.
TypeOK ==
  /\ issued \in 0..MaxTokens /\ sessionOf \in [Pairs -> 0..MaxTokens]
  /\ expired \subseteq Pairs /\ unspent \subseteq Pairs /\ ended \subseteq 0..MaxTokens
  /\ memory \in [access : 0..MaxTokens, refresh : 0..MaxTokens]
  /\ disk \in [access : 0..MaxTokens, refresh : 0..MaxTokens]
  /\ refreshing \in [pc : {"idle", "sent", "answered", "storing"},
                     spends : 0..MaxTokens, got : 0..MaxTokens]
  /\ writes \in Seq([key : {"access", "refresh"}, value : 0..MaxTokens,
                     by : Callers \cup {"refresh"}])
  /\ calls \in [Callers -> [pc : {"idle", "restoring", "sent", "answered", "waiting", "storing"},
                            token : 0..MaxTokens,
                            answer : {"none", "ok", "refused", "failed"}, retried : BOOLEAN]]
  /\ screen \in [user : 0..MaxTokens, booting : BOOLEAN, submitting : BOOLEAN]
  /\ faults \in Nat /\ {reused, lost, crossed} \subseteq BOOLEAN

AtRest == (\A c \in Callers : ~Busy(c)) /\ refreshing.pc = "idle" /\ writes = <<>>

\* The shared refresh (client.ts:123-129): whatever requests are refused at
\* once, and however signing in and out falls between them, the application
\* presents a spent refresh token, which ends the session, only after a
\* rotation it could not keep: its answer lost, its write failed, or the
\* application killed before it was stored.
ReuseNeedsALoss == reused => lost

\* Signing out (client.ts:191-199): once everything is settled a signed-out
\* application holds no token, and a start finds none to restore, unless the
\* tokens changed while a refresh was under way, a sign-in was answered before
\* a sign-out pressed earlier was over, a start was told of no user and keeps its
\* tokens (client.ts:209), or the storage failed to take a key or to delete either.
SignOutIsFinal ==
  AtRest /\ screen.user = None /\ ~crossed => memory = Empty /\ ~Restorable

\* The store shows the session whose tokens are held (authStore.ts:37-68), and a
\* start would restore exactly those, kills between any two writes included, as
\* long as they do not leave the keys of two sessions, and but for the same cases.
ShownIsHeld ==
  AtRest /\ screen.user # None /\ ~crossed =>
    /\ memory.access # None /\ memory.refresh # None /\ disk = memory
    /\ sessionOf[memory.access] = screen.user
    /\ sessionOf[memory.refresh] = screen.user

\* Unless something is asked for again and again, the application comes to
\* rest: a request that waits for the shared refresh is sent again or fails, and
\* the start, a sign-in and a sign-out come to their end.
ComesToRest == []<><<Asks>>_vars \/ []<>AtRest

=============================================================================
