------------------------- MODULE ExpoSession_proofs -------------------------
(***************************************************************************)
(* The session of the Expo application, for any requests and presses of    *)
(* the sign-out button, any number of tokens, and any kinds and number of  *)
(* faults.                                                                 *)
(*                                                                         *)
(* A spent refresh token is presented only after a rotation that could not *)
(* be kept.  The argument: a refresh token is good when it is still to be  *)
(* spent or its session is over anyway.  While no refresh is under way, or *)
(* it has not been served, every refresh token that memory, the storage    *)
(* and the writes still to be done hold is good.  A rotation makes one of  *)
(* them bad; before the refresh is over the new token has replaced it in   *)
(* memory, and, as writes are done in order, in the storage.               *)
(*                                                                         *)
(* At rest the screen, memory and the storage agree.  The argument: the    *)
(* last two writes to come are always of the tokens memory holds; these    *)
(* are two of one session or none; and it is the session on the screen, or *)
(* the one a start or a sign-in under way will put there, until a sign-out *)
(* clears them.                                                            *)
(*                                                                         *)
(* The last part is what coming to rest needs but for fairness: work is    *)
(* bounded, and some of it is always ready.                                *)
(***************************************************************************)
EXTENDS ExpoSession, TLAPS

-----------------------------------------------------------------------------
(* Types.                                                                  *)

Tokens == 0..MaxTokens
Pair == [access : Tokens, refresh : Tokens]
WriteCall == [key : {"access", "refresh"}, value : Tokens, by : Callers \cup {"refresh"}]
Call == [pc : {"idle", "restoring", "sent", "answered", "waiting", "storing"},
         token : Tokens, answer : {"none", "ok", "refused", "failed"}, retried : BOOLEAN]
Refresh == [pc : {"idle", "sent", "answered", "storing"}, spends : Tokens, got : Tokens]
Screen == [user : Tokens, booting : BOOLEAN, submitting : BOOLEAN]

ServerTyped ==
  /\ issued \in 0..MaxTokens /\ sessionOf \in [Pairs -> Tokens]
  /\ expired \subseteq Pairs /\ unspent \subseteq Pairs /\ ended \subseteq Tokens
ClientTyped ==
  /\ memory \in Pair /\ refreshing \in Refresh /\ calls \in [Callers -> Call]
StoreTyped == disk \in Pair /\ writes \in Seq(WriteCall)
PastTyped == faults \in Nat /\ {reused, lost, crossed} \subseteq BOOLEAN

LEMMA TypeParts ==
  /\ TypeOK <=> ServerTyped /\ ClientTyped /\ StoreTyped /\ screen \in Screen /\ PastTyped
  /\ TypeOK' <=> ServerTyped' /\ ClientTyped' /\ StoreTyped' /\ screen' \in Screen /\ PastTyped'
BY DEF TypeOK, ServerTyped, ClientTyped, StoreTyped, PastTyped, Tokens, Pair, WriteCall, Call,
       Refresh, Screen

LEMMA Constants ==
  /\ MaxTokens \in Nat /\ None \in Tokens /\ Pairs \subseteq Tokens
  /\ {"boot", "login"} \subseteq Callers /\ Requests \subseteq Callers /\ SignOuts \subseteq Callers
  /\ "login" \notin Requests \cup SignOuts /\ "refresh" \notin Callers
BY SessionConstants DEF None, Tokens, Pairs, Callers

\* Records built by the client.
LEMMA Records ==
  /\ Idle \in Call /\ NoRefresh \in Refresh /\ Empty \in Pair
  /\ SignedOut \in Screen /\ AtBoot \in Screen
  /\ \A t \in Tokens : Held(t) \in Pair /\ \A b \in BOOLEAN : Sent(t, b) \in Call
BY Constants DEF Idle, Call, NoRefresh, Refresh, Empty, Pair, SignedOut, AtBoot, Screen, Held, Sent, None

LEMMA WritesTyped ==
  ASSUME NEW p \in Pair, NEW by \in Callers \cup {"refresh"}
  PROVE  Writes(p, by) \in Seq(WriteCall)
BY DEF Writes, Pair, WriteCall

LEMMA KeepTyped ==
  ASSUME StoreTyped, NEW p \in Pair, NEW by \in Callers \cup {"refresh"}, Keep(p, by)
  PROVE  memory' \in Pair /\ writes' \in Seq(WriteCall)
BY WritesTyped DEF Keep, StoreTyped

LEMMA IssueTyped ==
  ASSUME ServerTyped, NEW t \in Tokens, Issue(t)
  PROVE  /\ issued' \in 0..MaxTokens /\ sessionOf' \in [Pairs -> Tokens]
         /\ issued + 1 \in Pairs /\ issued' = issued + 1
         /\ \A u \in 1..issued : sessionOf'[u] = sessionOf[u]
BY Constants DEF ServerTyped, Issue, Tokens, Pairs, None

LEMMA EffectTyped ==
  ASSUME ServerTyped, ClientTyped, NEW c \in Callers, Effect(c)
  PROVE  ServerTyped' /\ (c = "login" => issued + 1 \in Tokens)
<1>1. CASE c = "login"
  <2>1. Issue(None) /\ unspent' = unspent \cup {issued + 1} /\ UNCHANGED <<expired, ended>>
    BY <1>1, Constants DEF Effect, Grant, Revoke
  <2> QED BY <2>1, IssueTyped, Constants DEF ServerTyped
<1>2. CASE c \in SignOuts /\ Accepts(calls[c].token) /\ ended' = ended \cup {sessionOf[calls[c].token]}
           /\ UNCHANGED <<issued, sessionOf, expired, unspent>>
  <2>1. calls[c].token \in Tokens /\ calls[c].token # None
    BY <1>2 DEF ClientTyped, Call, Accepts
  <2>2. sessionOf[calls[c].token] \in Tokens
    BY <2>1, Constants DEF ServerTyped, Tokens, Pairs, None
  <2> QED BY <1>2, <2>2, Constants DEF ServerTyped
<1>3. CASE c # "login" /\ UNCHANGED server
  BY <1>3 DEF ServerTyped, server
<1> QED BY <1>1, <1>2, <1>3, Constants DEF Effect, Grant, Revoke

\* A token whose session is asked for exists.
Named ==
  /\ refreshing.pc = "sent" => refreshing.spends \in Pairs
  /\ calls["boot"].pc = "answered" /\ calls["boot"].answer = "ok" =>
       calls["boot"].token \in Pairs
  /\ calls["login"].pc = "answered" /\ calls["login"].answer = "ok" =>
       calls["login"].token \in Pairs
  /\ calls["login"].pc = "storing" => calls["login"].token \in Pairs

Typed == TypeOK /\ Named

LEMMA InitTyped == Init => Typed
<1> SUFFICES ASSUME Init PROVE Typed
  OBVIOUS
<1>1. ServerTyped /\ PastTyped
  BY Constants DEF NothingIssued, Init, ServerTyped, PastTyped, None, Tokens
<1>2. ClientTyped
  <2>1. [Idle EXCEPT !.pc = "restoring"] \in Call
    BY Records DEF Call
  <2> QED BY <2>1, Records DEF Init, ClientTyped
<1>3. StoreTyped /\ screen \in Screen
  BY Records DEF Init, StoreTyped
<1>4. Named
  BY Constants DEF Init, Named, NoRefresh, Idle
<1> QED BY <1>1, <1>2, <1>3, <1>4, TypeParts DEF Typed

\* Steps that leave tokens, storage and backend alone.
LEMMA CallsTyped ==
  ASSUME Typed, UNCHANGED <<server, memory, refreshing, store, past>>,
         calls' \in [Callers -> Call], screen' \in Screen,
         \A c \in {"boot", "login"} :
           \/ calls'[c] = calls[c]
           \/ calls'[c].pc \notin {"answered", "storing"}
           \/ calls'[c].pc = "answered" /\ calls'[c].answer # "ok"
  PROVE  Typed'
<1>1. ServerTyped' /\ StoreTyped' /\ PastTyped'
  BY TypeParts DEF Typed, ServerTyped, StoreTyped, PastTyped, server, store, past
<1>2. ClientTyped'
  BY TypeParts DEF Typed, ClientTyped
<1>3. Named'
  BY DEF Typed, Named
<1> QED BY <1>1, <1>2, <1>3, TypeParts DEF Typed

LEMMA AsksTyped == Typed /\ Asks => Typed'
<1> SUFFICES ASSUME Typed, Asks PROVE Typed'
  OBVIOUS
<1> USE TypeParts, Constants, Records, CallsTyped
<1>1. CASE SignIn
  BY <1>1 DEF SignIn, Typed, ClientTyped, Screen, Sent
<1>2. ASSUME NEW c \in Requests, Fetch(c) PROVE Typed'
  BY <1>2, SessionConstants DEF Fetch, Typed, ClientTyped, Sent, Pair
<1>3. ASSUME NEW c \in SignOuts, SignOut(c) PROVE Typed'
  BY <1>3, SessionConstants DEF SignOut, Typed, ClientTyped, Sent, Pair, Screen
<1> QED BY <1>1, <1>2, <1>3 DEF Asks

LEMMA AnswerTyped ==
  ASSUME ClientTyped, NEW c \in Callers, NEW a \in {"none", "ok", "refused", "failed"},
         NEW t \in Tokens, Answer(c, a, t)
  PROVE  /\ calls' \in [Callers -> Call]
         /\ calls'[c].pc = "answered" /\ calls'[c].answer = a /\ calls'[c].token = t
         /\ \A d \in Callers : d # c => calls'[d] = calls[d]
BY DEF ClientTyped, Answer, Call

LEMMA EndTyped ==
  ASSUME ClientTyped, NEW c \in Callers, End(c)
  PROVE  /\ calls' \in [Callers -> Call] /\ calls'[c].pc = "idle"
         /\ \A d \in Callers : d # c => calls'[d] = calls[d]
BY Records DEF ClientTyped, End, Idle

LEMMA ToTyped ==
  ASSUME ClientTyped, NEW c \in Callers, NEW pc \in {"waiting", "storing"}, To(c, pc)
  PROVE  /\ calls' \in [Callers -> Call]
         /\ calls'[c].pc = pc /\ calls'[c].answer = calls[c].answer /\ calls'[c].token = calls[c].token
         /\ \A d \in Callers : d # c => calls'[d] = calls[d]
BY DEF ClientTyped, To, Call

LEMMA SettleTyped ==
  ASSUME ClientTyped, NEW ok \in BOOLEAN, Settle(ok)
  PROVE  /\ calls' \in [Callers -> Call] /\ refreshing' = NoRefresh
         /\ \A c \in Callers :
              \/ calls'[c] = calls[c] /\ calls[c].pc # "waiting"
              \/ calls'[c].pc \in {"sent", "idle"}
              \/ calls'[c].pc = "answered" /\ calls'[c].answer = "failed"
<1>1. Sent(memory.access, TRUE) \in Call
  BY Records DEF ClientTyped, Pair
<1>2. ASSUME NEW c \in Callers
      PROVE  [calls[c] EXCEPT !.pc = "answered", !.answer = "failed"] \in Call
  BY DEF ClientTyped, Call
<1> DEFINE after(c) == IF calls[c].pc # "waiting" THEN calls[c]
                       ELSE IF ok THEN Sent(memory.access, TRUE)
                       ELSE IF c \in Requests THEN Idle
                       ELSE [calls[c] EXCEPT !.pc = "answered", !.answer = "failed"]
<1>3. calls' = [c \in Callers |-> after(c)] /\ refreshing' = NoRefresh
  BY DEF Settle
<1>4. \A c \in Callers : after(c) \in Call
  BY <1>1, <1>2, Records DEF ClientTyped
<1>5. ASSUME NEW c \in Callers
      PROVE  \/ after(c) = calls[c] /\ calls[c].pc # "waiting"
             \/ after(c).pc \in {"sent", "idle"}
             \/ after(c).pc = "answered" /\ after(c).answer = "failed"
  BY DEF Sent, Idle, ClientTyped, Call
<1> QED BY <1>3, <1>4, <1>5

LEMMA SettledTyped ==
  ASSUME Typed, NEW ok \in BOOLEAN, Settle(ok), ServerTyped', StoreTyped', PastTyped',
         UNCHANGED <<memory, screen>>
  PROVE  Typed'
<1>1. ClientTyped /\ screen \in Screen
  BY TypeParts DEF Typed
<1>2. ClientTyped' /\ screen' \in Screen
  BY <1>1, SettleTyped, Records DEF ClientTyped
<1>3. Named'
  BY <1>1, SettleTyped, Constants DEF Named, Typed, NoRefresh
<1> QED BY <1>2, <1>3, TypeParts DEF Typed

\* Answers of the backend, and answers that are lost.
LEMMA AnsweredTyped ==
  ASSUME Typed, NEW c \in Callers,
         UNCHANGED <<memory, refreshing, store, screen>>, PastTyped',
         \/ Effect(c) /\ \/ c \in Requests /\ End(c)
                         \/ c \notin Requests
                            /\ Answer(c, "ok", IF c = "login" THEN issued + 1 ELSE calls[c].token)
                         \/ Answer(c, "failed", None)
         \/ UNCHANGED server /\ Answer(c, "failed", None)
         \/ c # "login" /\ expired' \subseteq Pairs /\ UNCHANGED <<issued, sessionOf, unspent, ended>>
            /\ (Answer(c, "refused", None) \/ End(c))
  PROVE  Typed'
<1>1. ServerTyped /\ ClientTyped /\ StoreTyped /\ screen \in Screen
  BY TypeParts DEF Typed
<1>2. ServerTyped' /\ (Effect(c) /\ c = "login" => issued + 1 \in Pairs)
  <2>1. CASE Effect(c)
    <3>1. c = "login" => Issue(None)
      BY <2>1, Constants DEF Effect, Grant, Revoke
    <3>2. ServerTyped'
      BY <1>1, <2>1, EffectTyped
    <3>3. c = "login" => issued + 1 \in Pairs
      BY <1>1, <3>1, IssueTyped, Constants
    <3> QED BY <3>2, <3>3
  <2>2. CASE ~Effect(c)
    BY <1>1, <2>2 DEF ServerTyped, server
  <2> QED BY <2>1, <2>2
<1>3. Effect(c) /\ c = "boot" => calls[c].token \in Pairs
  BY <1>1, Constants DEF Effect, Grant, Revoke, Accepts, ClientTyped, Call, Tokens, Pairs, None, Callers
<1>4. calls[c].token \in Tokens /\ None \in Tokens
  BY <1>1, Constants DEF ClientTyped, Call
<1>5. /\ calls' \in [Callers -> Call]
      /\ \A d \in Callers : d # c => calls'[d] = calls[d]
      /\ \/ calls'[c].pc = "idle"
         \/ calls'[c].pc = "answered" /\ calls'[c].answer # "ok"
         \/ Effect(c) /\ calls'[c].pc = "answered"
            /\ calls'[c].token = IF c = "login" THEN issued + 1 ELSE calls[c].token
  <2>1. CASE End(c)
    BY <1>1, <2>1, EndTyped
  <2>2. CASE Answer(c, "failed", None)
    BY <1>1, <1>4, <2>2, AnswerTyped
  <2>3. CASE Answer(c, "refused", None)
    BY <1>1, <1>4, <2>3, AnswerTyped
  <2>4. CASE Effect(c) /\ Answer(c, "ok", IF c = "login" THEN issued + 1 ELSE calls[c].token)
    <3>1. (IF c = "login" THEN issued + 1 ELSE calls[c].token) \in Tokens
      BY <1>2, <1>4, <2>4, Constants
    <3> QED BY <1>1, <2>4, <3>1, AnswerTyped
  <2> QED BY <2>1, <2>2, <2>3, <2>4
<1>6. ClientTyped' /\ StoreTyped' /\ screen' \in Screen
  BY <1>1, <1>5 DEF ClientTyped, StoreTyped, store
<1>7. Named'
  BY <1>2, <1>3, <1>5, Constants DEF Typed, Named
<1> QED BY <1>2, <1>6, <1>7, TypeParts DEF Typed

LEMMA AcceptTyped == ASSUME Typed, NEW c \in Callers, Accept(c) PROVE Typed'
BY AnsweredTyped, TypeParts DEF Accept, Typed, PastTyped, past

LEMMA RefuseTyped == ASSUME Typed, NEW c \in Callers, Refuse(c) PROVE Typed'
<1>1. expired' \subseteq Pairs
  BY TypeParts, Constants DEF Expire, Typed, ServerTyped, ClientTyped, Call, Refuse, Tokens, Pairs, None
<1> QED BY <1>1, AnsweredTyped, TypeParts DEF Expire, Refuse, Typed, PastTyped, past

LEMMA CallFailsTyped == ASSUME Typed, NEW c \in Callers, CallFails(c) PROVE Typed'
BY AnsweredTyped, TypeParts DEF CallFails, Typed, PastTyped, past

LEMMA FaultTyped ==
  ASSUME PastTyped, NEW f, Fault(f) PROVE faults' \in Nat
BY SessionConstants DEF PastTyped, Fault

LEMMA AnswerLostTyped == ASSUME Typed, NEW c \in Callers, AnswerLost(c) PROVE Typed'
<1>1. PastTyped'
  BY TypeParts, FaultTyped DEF Typed, AnswerLost, PastTyped
<1> QED BY <1>1, AnsweredTyped DEF AnswerLost

\* What a caller does with its answer.
LEMMA StepTyped == ASSUME Typed, NEW c \in Callers, Step(c) PROVE Typed'
<1>1. ServerTyped /\ ClientTyped /\ StoreTyped /\ screen \in Screen /\ PastTyped /\ Named
  BY TypeParts DEF Typed
<1>2. CASE Accept(c) \/ Refuse(c) \/ CallFails(c)
  BY <1>2, AcceptTyped, RefuseTyped, CallFailsTyped
<1>3. CASE c \in Requests \cup {"boot"} /\ Join(c)
  <2>1. /\ calls' \in [Callers -> Call] /\ calls'[c].pc = "waiting"
        /\ \A d \in Callers : d # c => calls'[d] = calls[d]
    BY <1>1, <1>3, ToTyped DEF Join
  <2>2. refreshing' \in Refresh /\ (refreshing'.pc = "sent" => refreshing'.spends \in Pairs)
    <3>1. memory.refresh \in Tokens /\ memory.refresh \in Pairs
      BY <1>1, <1>3, Constants DEF Join, Retries, ClientTyped, Pair, Tokens, Pairs, None
    <3>2. CASE refreshing.pc = "idle"
      BY <1>3, <3>1, <3>2, Constants DEF Join, Refresh, NoRefresh
    <3>3. CASE refreshing.pc # "idle"
      BY <1>1, <1>3, <3>3 DEF Join, ClientTyped, Named
    <3> QED BY <3>2, <3>3
  <2>3. ClientTyped'
    BY <1>1, <1>3, <2>1, <2>2 DEF ClientTyped, Join
  <2>4. Named'
    BY <1>1, <2>1, <2>2, Constants DEF Named
  <2>5. ServerTyped' /\ StoreTyped' /\ screen' \in Screen /\ PastTyped'
    BY <1>1, <1>3 DEF Join, ServerTyped, StoreTyped, PastTyped, server, store, past
  <2> QED BY <2>3, <2>4, <2>5, TypeParts DEF Typed
<1>4. CASE c \in Requests /\ Receive(c)
  <2>1. calls' \in [Callers -> Call] /\ calls'[c].pc = "idle" /\ \A d \in Callers : d # c => calls'[d] = calls[d]
    BY <1>1, <1>4, EndTyped DEF Receive
  <2> QED BY <1>1, <1>4, <2>1, CallsTyped, Constants DEF Receive
<1>5. CASE c = "boot" /\ RestoreNothing
  <2>1. calls' \in [Callers -> Call] /\ calls'[c].pc = "idle" /\ \A d \in Callers : d # c => calls'[d] = calls[d]
    BY <1>1, <1>5, EndTyped DEF RestoreNothing
  <2> QED BY <1>5, <2>1, CallsTyped, Records, Constants DEF RestoreNothing
<1>6. CASE c = "boot" /\ RestoreTokens
  <2>1. Sent(disk.access, FALSE) \in Call /\ Sent(disk.access, FALSE).pc = "sent"
    BY <1>1, Records DEF StoreTyped, Pair, Sent
  <2>2. /\ calls' \in [Callers -> Call] /\ calls'[c].pc = "sent"
        /\ \A d \in Callers : d # c => calls'[d] = calls[d]
    BY <1>1, <1>6, <2>1 DEF RestoreTokens, ClientTyped
  <2>3. ClientTyped' /\ ServerTyped' /\ StoreTyped' /\ screen' \in Screen /\ PastTyped'
    BY <1>1, <1>6, <2>2 DEF RestoreTokens, ClientTyped, ServerTyped, StoreTyped, PastTyped, server, store, past
  <2>4. Named'
    BY <1>1, <1>6, <2>2, Constants DEF Named, RestoreTokens
  <2> QED BY <2>3, <2>4, TypeParts DEF Typed
<1>7. CASE c = "boot" /\ BootSucceeds
  <2>1. calls' \in [Callers -> Call] /\ calls'[c].pc = "idle" /\ \A d \in Callers : d # c => calls'[d] = calls[d]
    BY <1>1, <1>7, EndTyped DEF BootSucceeds
  <2>2. sessionOf[calls["boot"].token] \in Tokens
    BY <1>1, <1>7 DEF BootSucceeds, Answered, Named, ServerTyped
  <2>3. screen' \in Screen
    BY <1>7, <2>2, Records DEF BootSucceeds, Screen
  <2> QED BY <1>7, <2>1, <2>3, CallsTyped, Constants DEF BootSucceeds
<1>8. CASE (c = "boot" /\ BootFails) \/ (c = "login" /\ SignInSucceeds) \/ (c \in SignOuts /\ SignOutClears(c))
  <2>1. To(c, "storing") /\ UNCHANGED <<server, refreshing, disk, screen, faults, reused, lost>>
    BY <1>8 DEF BootFails, SignInSucceeds, SignOutClears, past
  <2>2. \E p \in Pair : Keep(p, c)
    <3>1. calls["login"].token \in Tokens
      BY <1>1, Constants DEF ClientTyped, Call
    <3> QED BY <1>8, <3>1, Records DEF BootFails, SignInSucceeds, SignOutClears
  <2>3. memory' \in Pair /\ StoreTyped'
    BY <1>1, <2>1, <2>2, KeepTyped DEF StoreTyped
  <2>4. /\ calls' \in [Callers -> Call] /\ calls'[c].pc = "storing" /\ calls'[c].token = calls[c].token
        /\ \A d \in Callers : d # c => calls'[d] = calls[d]
    BY <1>1, <2>1, ToTyped
  <2>5. crossed' \in BOOLEAN
    BY <1>1, <1>8 DEF BootFails, SignInSucceeds, SignOutClears, Crosses, past, PastTyped
  <2>6. ClientTyped' /\ ServerTyped' /\ screen' \in Screen /\ PastTyped'
    BY <1>1, <2>1, <2>3, <2>4, <2>5 DEF ClientTyped, ServerTyped, PastTyped, server
  <2>7. Named'
    BY <1>1, <1>8, <2>1, <2>4, Constants DEF Named, SignInSucceeds, Answered
  <2> QED BY <2>3, <2>6, <2>7, TypeParts DEF Typed
<1>9. CASE c = "login" /\ SignInFails
  <2>1. calls' \in [Callers -> Call] /\ calls'[c].pc = "idle" /\ \A d \in Callers : d # c => calls'[d] = calls[d]
    BY <1>1, <1>9, EndTyped DEF SignInFails
  <2>2. screen' \in Screen
    BY <1>1, <1>9 DEF SignInFails, Screen
  <2> QED BY <1>9, <2>1, <2>2, CallsTyped, Constants DEF SignInFails
<1>10. CASE Stored(c)
  <2>1. calls' \in [Callers -> Call] /\ calls'[c].pc = "idle" /\ \A d \in Callers : d # c => calls'[d] = calls[d]
    BY <1>1, <1>10, EndTyped DEF Stored
  <2>2. c = "login" => sessionOf[calls[c].token] \in Tokens
    BY <1>1, <1>10 DEF Stored, Named, ServerTyped
  <2>3. screen' \in Screen
    BY <1>1, <1>10, <2>2, Records DEF Stored, Screen
  <2> QED BY <1>10, <2>1, <2>3, CallsTyped, Constants DEF Stored
<1>11. CASE c = "boot" /\ BootFindsNobody
  <2>1. calls' \in [Callers -> Call] /\ calls'[c].pc = "idle" /\ \A d \in Callers : d # c => calls'[d] = calls[d]
    BY <1>1, <1>11, EndTyped DEF BootFindsNobody
  <2>2. screen' \in Screen
    BY <1>11, Records DEF BootFindsNobody, Screen
  <2>3. ClientTyped' /\ ServerTyped' /\ StoreTyped' /\ PastTyped'
    BY <1>1, <1>11, <2>1 DEF BootFindsNobody, ClientTyped, ServerTyped, StoreTyped, PastTyped, server, store
  <2>4. Named'
    BY <1>1, <1>11, <2>1, Constants DEF Named, BootFindsNobody, server
  <2> QED BY <2>2, <2>3, <2>4, TypeParts DEF Typed
<1> QED BY <1>2, <1>3, <1>4, <1>5, <1>6, <1>7, <1>8, <1>9, <1>10, <1>11 DEF Step

\* The refresh.
LEMMA RefreshesTyped == ASSUME Typed, Refreshes \/ Rotate(FALSE) PROVE Typed'
<1>1. ServerTyped /\ ClientTyped /\ StoreTyped /\ screen \in Screen /\ PastTyped /\ Named
  BY TypeParts DEF Typed
<1>2. ASSUME NEW answered \in BOOLEAN, Rotate(answered) PROVE Typed'
  <2>1. refreshing.spends \in Pairs /\ sessionOf[refreshing.spends] \in Tokens
    BY <1>1, <1>2 DEF Rotate, Named, ServerTyped
  <2>2. /\ issued' \in 0..MaxTokens /\ sessionOf' \in [Pairs -> Tokens] /\ issued + 1 \in Pairs
    BY <1>1, <1>2, <2>1, IssueTyped DEF Spend, Rotate
  <2>3. ServerTyped'
    BY <1>1, <1>2, <2>2 DEF Spend, ServerTyped, Rotate
  <2>4. refreshing' \in Refresh /\ refreshing'.pc = "answered"
    BY <1>1, <1>2, <2>2, Constants DEF Rotate, ClientTyped, Refresh
  <2>5. PastTyped'
    BY <1>1, <1>2, FaultTyped DEF Rotate, PastTyped, past
  <2>6. ClientTyped' /\ StoreTyped' /\ screen' \in Screen /\ Named'
    BY <1>1, <1>2, <2>4 DEF Rotate, ClientTyped, StoreTyped, store, Named
  <2> QED BY <2>3, <2>5, <2>6, TypeParts DEF Typed
<1>3. CASE RefuseRefresh
  <2>1. refreshing.spends \in Pairs /\ sessionOf[refreshing.spends] \in Tokens
    BY <1>1, <1>3 DEF RefuseRefresh, Named, ServerTyped
  <2>2. ServerTyped' /\ PastTyped'
    BY <1>1, <1>3, <2>1 DEF Punish, ServerTyped, RefuseRefresh, PastTyped
  <2>3. ClientTyped' /\ StoreTyped' /\ screen' \in Screen /\ Named'
    BY <1>1, <1>3 DEF RefuseRefresh, ClientTyped, Refresh, StoreTyped, store, Named
  <2> QED BY <2>2, <2>3, TypeParts DEF Typed
<1>4. CASE RefreshCallFails
  <2>1. ServerTyped' /\ PastTyped'
    BY <1>1, <1>4 DEF ServerTyped, RefreshCallFails, PastTyped, server, past
  <2>2. ClientTyped' /\ StoreTyped' /\ screen' \in Screen /\ Named'
    BY <1>1, <1>4 DEF RefreshCallFails, ClientTyped, Refresh, StoreTyped, store, Named
  <2> QED BY <2>1, <2>2, TypeParts DEF Typed
<1>5. CASE KeepRefreshed
  <2>1. Held(refreshing.got) \in Pair
    BY <1>1, Records DEF ClientTyped, Refresh
  <2>2. memory' \in Pair /\ writes' \in Seq(WriteCall)
    BY <1>1, <1>5, <2>1, KeepTyped DEF KeepRefreshed
  <2>3. ServerTyped' /\ PastTyped' /\ StoreTyped'
    BY <1>1, <1>5, <2>2 DEF ServerTyped, KeepRefreshed, PastTyped, StoreTyped, server, past
  <2>4. ClientTyped' /\ screen' \in Screen /\ Named'
    BY <1>1, <1>5, <2>2 DEF KeepRefreshed, ClientTyped, Refresh, Named
  <2> QED BY <2>3, <2>4, TypeParts DEF Typed
<1>6. CASE Refreshed \/ RefreshFails
  <2>1. \E ok \in BOOLEAN : Settle(ok)
    BY <1>6 DEF Refreshed, RefreshFails
  <2>2. UNCHANGED <<server, memory, store, screen, past>>
    BY <1>6 DEF Refreshed, RefreshFails
  <2>3. ServerTyped' /\ StoreTyped' /\ PastTyped'
    BY <1>1, <2>2 DEF ServerTyped, StoreTyped, PastTyped, server, store, past
  <2> QED BY <2>1, <2>2, <2>3, SettledTyped
<1> QED BY <1>2, <1>3, <1>4, <1>5, <1>6 DEF Refreshes

\* The storage.
LEMMA TailTyped ==
  ASSUME StoreTyped, writes # <<>>
  PROVE  Head(writes) \in WriteCall /\ Tail(writes) \in Seq(WriteCall)
BY DEF StoreTyped

LEMMA WriteTyped == ASSUME Typed, Write PROVE Typed'
<1>1. ServerTyped /\ ClientTyped /\ StoreTyped /\ screen \in Screen /\ PastTyped /\ Named
  BY TypeParts DEF Typed
<1>2. StoreTyped'
  BY <1>1, TailTyped DEF Write, StoreTyped, WriteCall, Pair
<1>3. ServerTyped' /\ ClientTyped' /\ screen' \in Screen /\ PastTyped' /\ Named'
  BY <1>1 DEF Write, ServerTyped, ClientTyped, PastTyped, Named, server, client, past
<1> QED BY <1>2, <1>3, TypeParts DEF Typed

LEMMA WriteFailsTyped == ASSUME Typed, WriteFails PROVE Typed'
<1>1. ServerTyped /\ ClientTyped /\ StoreTyped /\ screen \in Screen /\ PastTyped /\ Named
  BY TypeParts DEF Typed
<1> DEFINE by == Head(writes).by
<1>2. /\ ServerTyped' /\ memory' = memory /\ StoreTyped' /\ PastTyped'
  <2>1. faults' \in Nat
    BY <1>1, FaultTyped DEF WriteFails
  <2>2. {lost', crossed'} \subseteq BOOLEAN /\ reused' = reused
    BY <1>1 DEF WriteFails, PastTyped
  <2> QED BY <1>1, <2>1, <2>2, TailTyped DEF WriteFails, ServerTyped, server, StoreTyped, PastTyped
<1>3. CASE by = "refresh" /\ refreshing.pc = "storing"
  <2>1. Settle(FALSE) /\ UNCHANGED screen
    BY <1>3 DEF WriteFails
  <2> QED BY <1>2, <2>1, SettledTyped
<1>4. CASE by = "login" /\ calls[by].pc = "storing"
  <2>1. End("login") /\ screen' = [screen EXCEPT !.submitting = FALSE] /\ UNCHANGED refreshing
    BY <1>4 DEF WriteFails
  <2>2. calls' \in [Callers -> Call] /\ calls'["login"].pc = "idle"
        /\ \A d \in Callers : d # "login" => calls'[d] = calls[d]
    BY <1>1, <2>1, EndTyped, Constants
  <2>3. ClientTyped' /\ screen' \in Screen /\ Named'
    BY <1>1, <1>2, <2>1, <2>2, Constants DEF ClientTyped, Screen, Named
  <2> QED BY <1>2, <2>3, TypeParts DEF Typed
<1>5. CASE ~(by = "refresh" /\ refreshing.pc = "storing") /\ ~(by = "login" /\ calls[by].pc = "storing")
  <2>1. UNCHANGED <<calls, screen, refreshing>>
    BY <1>5 DEF WriteFails
  <2>2. ClientTyped' /\ screen' \in Screen /\ Named'
    BY <1>1, <1>2, <2>1 DEF ClientTyped, Named
  <2> QED BY <1>2, <2>2, TypeParts DEF Typed
<1> QED BY <1>3, <1>4, <1>5

LEMMA KillTyped == ASSUME Typed, Kill PROVE Typed'
<1>1. ServerTyped /\ StoreTyped /\ PastTyped
  BY TypeParts DEF Typed
<1>2. calls' \in [Callers -> Call] /\ \A c \in Callers : calls'[c].pc \in {"restoring", "idle"}
  <2>1. [Idle EXCEPT !.pc = "restoring"] \in Call
    BY Records DEF Call
  <2> QED BY <2>1, Records DEF Kill, Idle
<1>3. ClientTyped' /\ StoreTyped' /\ screen' \in Screen
  BY <1>1, <1>2, Records DEF Kill, ClientTyped, StoreTyped
<1>4. ServerTyped' /\ PastTyped'
  BY <1>1, FaultTyped DEF Kill, ServerTyped, PastTyped, server
<1>5. Named'
  BY <1>2, Constants DEF Kill, Named, NoRefresh
<1> QED BY <1>3, <1>4, <1>5, TypeParts DEF Typed

LEMMA NextTyped == ASSUME Typed, [Next]_vars PROVE Typed'
<1>1. CASE UNCHANGED vars
  BY <1>1 DEF vars, server, client, store, past, Typed, TypeOK, Named
<1>2. CASE Next
  <2>1. Rotate(FALSE) \/ Refreshes => Typed'
    BY RefreshesTyped
  <2> QED BY <1>2, <2>1, AsksTyped, StepTyped, WriteTyped, AnswerLostTyped, WriteFailsTyped, KillTyped
          DEF Next, Works, Goes
<1> QED BY <1>1, <1>2

\* Every variable of the Expo session keeps its type, whatever requests,
\* sign-outs and faults there are.
THEOREM SessionTypes == Spec => []TypeOK
<1>1. Typed => TypeOK
  BY DEF Typed
<1> QED BY <1>1, InitTyped, NextTyped, PTL DEF Spec

-----------------------------------------------------------------------------
(* The inductive invariant.                                                *)

GoodIn(t, open, session, over) == t = None \/ t \in open \/ session[t] \in over
Good(t) == GoodIn(t, unspent, sessionOf, ended)

\* The write at i leaves no bad refresh token in the storage.
Harmless(i) == writes[i].key = "refresh" => Good(writes[i].value)

\* Every token that is held has been issued.
Issued ==
  /\ unspent \subseteq 1..issued
  /\ memory.refresh <= issued /\ disk.refresh <= issued
  /\ \A i \in DOMAIN writes : writes[i].value <= issued
  /\ refreshing.spends <= issued /\ refreshing.got <= issued

\* The token of a sign-in that has just been answered is nowhere else.
Unused ==
  calls["login"].pc = "answered" /\ calls["login"].answer = "ok" =>
    LET t == calls["login"].token IN
    t \in unspent /\ t # memory.refresh /\ t # refreshing.spends /\ t # refreshing.got

\* Nothing happens before the tokens are restored.
Starting ==
  calls["boot"].pc = "restoring" =>
    /\ refreshing.pc = "idle" /\ screen.user = None /\ screen.booting
    /\ \A c \in Callers : c # "boot" => calls[c].pc = "idle"

AllGood ==
  /\ Good(memory.refresh) /\ Good(disk.refresh)
  /\ \A i \in DOMAIN writes : Harmless(i)

\* The storage is good already, or a write to come makes it good.
SoonGood ==
  \/ Good(disk.refresh) /\ \A i \in DOMAIN writes : Harmless(i)
  \/ \E i \in DOMAIN writes :
       /\ writes[i].by = "refresh" /\ writes[i].key = "refresh"
       /\ \A j \in DOMAIN writes : j >= i => Harmless(j)

Kept ==
  /\ refreshing.pc \in {"idle", "sent"} => AllGood
  /\ refreshing.pc = "sent" =>
       refreshing.spends # None /\ Good(refreshing.spends) /\ refreshing.got = None
  /\ refreshing.pc = "answered" =>
       IF refreshing.got = None THEN AllGood ELSE Good(refreshing.got)
  /\ refreshing.pc = "storing" => Good(memory.refresh) /\ SoonGood

Safe == Issued /\ (~lost => Kept /\ ~reused)

\* The inductive strengthening of ReuseNeedsALoss.
Careful == Typed /\ Safe /\ Unused /\ Starting

\* What a step may do to the tokens of the backend, but for a rotation.
Grows ==
  /\ issued' \in Nat /\ issued <= issued' /\ unspent' \subseteq 1..issued'
  /\ unspent \subseteq unspent' /\ ended \subseteq ended'
  /\ \A u \in 1..issued : sessionOf'[u] = sessionOf[u]

LEMMA GoodStays ==
  ASSUME Grows, NEW t \in Tokens, t <= issued, GoodIn(t, unspent, sessionOf, ended)
  PROVE  GoodIn(t, unspent', sessionOf', ended')
BY Constants DEF Grows, GoodIn, Tokens, None

LEMMA SameGrows ==
  ASSUME Typed, Issued, UNCHANGED <<issued, sessionOf, unspent, ended>>
  PROVE  Grows
BY TypeParts DEF Typed, ServerTyped, Issued, Grows

LEMMA EffectGrows ==
  ASSUME Typed, Issued, NEW c \in Callers, Effect(c)
  PROVE  Grows
<1>1. ServerTyped
  BY TypeParts DEF Typed
<1>2. CASE c = "login"
  <2>1. Issue(None) /\ unspent' = unspent \cup {issued + 1} /\ UNCHANGED <<expired, ended>>
    BY <1>2, Constants DEF Effect, Grant, Revoke
  <2> QED BY <1>1, <2>1, IssueTyped, Constants DEF Grows, Issued, ServerTyped
<1>3. CASE c # "login"
  <2>1. UNCHANGED <<issued, sessionOf, unspent>> /\ ended \subseteq ended'
    BY <1>3 DEF Effect, Grant, Revoke, server
  <2> QED BY <1>1, <2>1 DEF Grows, Issued, ServerTyped
<1> QED BY <1>2, <1>3

\* Before the tokens are restored nothing else can happen.
LEMMA StartingSteps ==
  ASSUME Starting, calls["boot"].pc = "restoring", Next
  PROVE  RestoreNothing \/ RestoreTokens \/ Write \/ WriteFails \/ Kill
<1>1. /\ refreshing.pc = "idle" /\ screen.user = None /\ screen.booting
      /\ \A c \in Callers : calls[c].pc \in {"restoring", "idle"}
      /\ \A c \in Callers : c # "boot" => calls[c].pc = "idle"
  BY DEF Starting
<1>2. ~Asks
  BY <1>1 DEF Asks, SignIn, Fetch, SignOut
<1>3. ~Refreshes /\ ~Rotate(FALSE)
  BY <1>1 DEF Refreshes, Rotate, RefuseRefresh, RefreshCallFails, KeepRefreshed, Refreshed, RefreshFails
<1>4. ASSUME NEW c \in Callers PROVE ~AnswerLost(c)
  BY <1>1 DEF AnswerLost
<1>5. ASSUME NEW c \in Callers, Step(c) PROVE RestoreNothing \/ RestoreTokens
  <2>1. ~Answered(c) /\ calls[c].pc # "sent" /\ calls[c].pc # "storing"
    BY <1>1 DEF Answered
  <2>2. ~Accept(c) /\ ~Refuse(c) /\ ~CallFails(c) /\ ~Stored(c)
    BY <2>1 DEF Accept, Refuse, CallFails, Stored
  <2>3. ~Join(c) /\ ~Receive(c) /\ ~SignOutClears(c)
    BY <2>1 DEF Join, Retries, Receive, SignOutClears
  <2>4. ~(c = "boot" /\ (BootSucceeds \/ BootFindsNobody \/ BootFails))
       /\ ~(c = "login" /\ (SignInSucceeds \/ SignInFails))
    BY <2>1 DEF BootSucceeds, BootFindsNobody, BootFails, SignInSucceeds, SignInFails
  <2> QED BY <1>5, <2>2, <2>3, <2>4 DEF Step
<1> QED BY <1>2, <1>3, <1>4, <1>5 DEF Next, Works, Goes

\* Only the start of the process restores tokens.
LEMMA OnlyKillRestores ==
  ASSUME Typed, calls["boot"].pc # "restoring", Next, ~Kill
  PROVE  calls'["boot"].pc # "restoring"
<1>1. ClientTyped
  BY TypeParts DEF Typed
<1> USE <1>1, Constants
<1>2. CASE Asks
  BY <1>2 DEF Asks, SignIn, Fetch, SignOut, Sent, ClientTyped
<1>3. CASE Refreshes \/ Rotate(FALSE)
  <2>1. CASE \E ok \in BOOLEAN : Settle(ok)
    BY <2>1, SettleTyped
  <2>2. CASE UNCHANGED calls
    BY <2>2
  <2> QED BY <1>3, <2>1, <2>2 DEF Refreshes, Rotate, RefuseRefresh, RefreshCallFails, KeepRefreshed,
                                 Refreshed, RefreshFails, client
<1>4. ASSUME NEW c \in Callers, \E a \in {"ok", "refused", "failed"} : \E t : Answer(c, a, t)
      PROVE  calls'["boot"].pc # "restoring"
  BY <1>4 DEF Answer, ClientTyped
<1>5. ASSUME NEW c \in Callers, End(c) PROVE calls'["boot"].pc # "restoring"
  BY <1>5, EndTyped
<1>6. ASSUME NEW c \in Callers, \E pc \in {"waiting", "storing"} : To(c, pc)
      PROVE  calls'["boot"].pc # "restoring"
  BY <1>6, ToTyped
<1>7. ASSUME NEW c \in Callers, AnswerLost(c) PROVE calls'["boot"].pc # "restoring"
  BY <1>4, <1>7 DEF AnswerLost
<1>8. ASSUME NEW c \in Callers, Step(c) PROVE calls'["boot"].pc # "restoring"
  <2>1. CASE Accept(c) \/ Refuse(c) \/ CallFails(c)
    BY <1>4, <1>5, <2>1 DEF Accept, Refuse, CallFails
  <2>2. CASE Join(c) \/ SignOutClears(c)
    BY <1>6, <2>2 DEF Join, SignOutClears
  <2>3. CASE Receive(c) \/ Stored(c)
    BY <1>5, <2>3 DEF Receive, Stored
  <2>4. CASE c = "boot" /\ (RestoreNothing \/ RestoreTokens \/ BootSucceeds \/ BootFindsNobody \/ BootFails)
    BY <1>5, <1>6, <2>4 DEF RestoreNothing, RestoreTokens, BootSucceeds, BootFindsNobody, BootFails
  <2>5. CASE c = "login" /\ (SignInSucceeds \/ SignInFails)
    BY <1>5, <1>6, <2>5 DEF SignInSucceeds, SignInFails
  <2> QED BY <1>8, <2>1, <2>2, <2>3, <2>4, <2>5 DEF Step
<1>9. CASE Write
  BY <1>9 DEF Write, client
<1>10. CASE WriteFails
  <2>1. CASE Settle(FALSE)
    BY <2>1, SettleTyped
  <2>2. CASE End("login")
    BY <2>2, <1>5
  <2>3. CASE UNCHANGED calls
    BY <2>3
  <2> QED BY <1>10, <2>1, <2>2, <2>3 DEF WriteFails
<1> QED BY <1>2, <1>3, <1>7, <1>8, <1>9, <1>10 DEF Next, Works, Goes

LEMMA StartingKept == ASSUME Typed, Starting, Next PROVE Starting'
<1>1. ClientTyped
  BY TypeParts DEF Typed
<1>2. CASE Kill
  BY <1>2, Constants DEF Kill, Starting, NoRefresh, AtBoot, Idle
<1>3. CASE calls["boot"].pc # "restoring" /\ ~Kill
  BY <1>3, OnlyKillRestores DEF Starting
<1>4. CASE calls["boot"].pc = "restoring" /\ ~Kill
  <2>1. RestoreNothing \/ RestoreTokens \/ Write \/ WriteFails
    BY <1>4, StartingSteps
  <2>2. CASE RestoreNothing
    BY <1>1, <2>2, EndTyped, Constants DEF RestoreNothing, Starting
  <2>3. CASE RestoreTokens
    BY <1>1, <2>3, Constants DEF RestoreTokens, Starting, ClientTyped, Sent
  <2>4. CASE Write
    BY <2>4 DEF Write, Starting, client
  <2>5. CASE WriteFails
    BY <1>4, <2>5, Constants DEF WriteFails, Starting
  <2> QED BY <2>1, <2>2, <2>3, <2>4, <2>5
<1> QED BY <1>2, <1>3, <1>4

\* The writes still to be done, when tokens are kept and when one is done.
LEMMA TwoMore ==
  ASSUME NEW S, NEW old \in Seq(S), NEW x \in S, NEW y \in S
  PROVE  LET new == old \o <<x, y>> IN
         /\ Len(old) \in Nat /\ DOMAIN old = 1..Len(old) /\ DOMAIN new = 1..(Len(old) + 2)
         /\ \A i \in 1..Len(old) : new[i] = old[i]
         /\ new[Len(old) + 1] = x /\ new[Len(old) + 2] = y
OBVIOUS

LEMMA KeepWrites ==
  ASSUME StoreTyped, NEW p \in Pair, NEW by \in Callers \cup {"refresh"}, Keep(p, by)
  PROVE  /\ memory' = p
         /\ DOMAIN writes = 1..Len(writes) /\ DOMAIN writes' = 1..(Len(writes) + 2)
         /\ Len(writes) \in Nat
         /\ \A i \in 1..Len(writes) : writes'[i] = writes[i]
         /\ writes'[Len(writes) + 1].key = "access" /\ writes'[Len(writes) + 1].value = p.access
         /\ writes'[Len(writes) + 2].key = "refresh" /\ writes'[Len(writes) + 2].value = p.refresh
         /\ writes'[Len(writes) + 1].by = by /\ writes'[Len(writes) + 2].by = by
<1> DEFINE first == [key |-> "access", value |-> p.access, by |-> by]
           second == [key |-> "refresh", value |-> p.refresh, by |-> by]
<1>1. first \in WriteCall /\ second \in WriteCall
  BY DEF Pair, WriteCall
<1>2. first.key = "access" /\ first.value = p.access /\ first.by = by
      /\ second.key = "refresh" /\ second.value = p.refresh /\ second.by = by
  OBVIOUS
<1>3. writes \in Seq(WriteCall) /\ writes' = writes \o <<first, second>> /\ memory' = p
  BY DEF StoreTyped, Keep, Writes
<1> HIDE DEF first, second
<1>4. /\ DOMAIN writes = 1..Len(writes) /\ DOMAIN writes' = 1..(Len(writes) + 2)
      /\ Len(writes) \in Nat
      /\ \A i \in 1..Len(writes) : writes'[i] = writes[i]
      /\ writes'[Len(writes) + 1] = first /\ writes'[Len(writes) + 2] = second
  BY <1>1, <1>3, TwoMore
<1> QED BY <1>2, <1>3, <1>4

LEMMA TailWrites ==
  ASSUME StoreTyped, writes # <<>>, writes' = Tail(writes)
  PROVE  /\ DOMAIN writes = 1..Len(writes) /\ DOMAIN writes' = 1..(Len(writes) - 1)
         /\ Len(writes) \in Nat /\ Len(writes) >= 1 /\ Head(writes) = writes[1]
         /\ \A i \in 1..(Len(writes) - 1) : writes'[i] = writes[i + 1]
BY DEF StoreTyped

LEMMA WriteAt ==
  ASSUME StoreTyped, NEW i \in DOMAIN writes
  PROVE  writes[i] \in WriteCall /\ writes[i].value \in Tokens /\ writes[i].value \in Nat
<1>1. writes[i] \in WriteCall
  BY DEF StoreTyped
<1> QED BY <1>1 DEF WriteCall, Tokens

LEMMA IssuedByGrowth ==
  ASSUME Typed, Issued, Grows, UNCHANGED <<memory, refreshing, store>>
  PROVE  Issued'
<1>1. ServerTyped /\ ClientTyped /\ StoreTyped
  BY TypeParts DEF Typed
<1>2. issued \in Nat /\ issued' \in Nat /\ issued <= issued'
  BY <1>1 DEF ServerTyped, Grows
<1>3. \A i \in DOMAIN writes : writes[i].value \in Nat
  BY <1>1, WriteAt
<1>4. /\ memory.refresh \in Nat /\ disk.refresh \in Nat
      /\ refreshing.spends \in Nat /\ refreshing.got \in Nat
  BY <1>1 DEF ClientTyped, StoreTyped, Pair, Refresh, Tokens
<1>5. \A v \in Nat : v <= issued => v <= issued'
  BY <1>2
<1>6. \A i \in DOMAIN writes' : writes'[i].value <= issued'
  BY <1>3, <1>5 DEF Issued, store
<1>7. /\ memory'.refresh <= issued' /\ disk'.refresh <= issued'
      /\ refreshing'.spends <= issued' /\ refreshing'.got <= issued'
  BY <1>4, <1>5 DEF Issued, store
<1> QED BY <1>6, <1>7 DEF Issued, Grows

\* No step but a rotation spends a token: what is good stays good.
LEMMA KeptByGrowth ==
  ASSUME Typed, Issued, Kept, Grows, UNCHANGED <<memory, refreshing, store>>
  PROVE  Kept'
<1>1. ClientTyped /\ StoreTyped
  BY TypeParts DEF Typed
<1>2. /\ Good(memory.refresh) => Good(memory.refresh)'
      /\ Good(disk.refresh) => Good(disk.refresh)'
      /\ Good(refreshing.spends) => Good(refreshing.spends)'
      /\ Good(refreshing.got) => Good(refreshing.got)'
  BY <1>1, GoodStays DEF ClientTyped, StoreTyped, Pair, Refresh, Good, Issued, store
<1>3. ASSUME NEW i \in DOMAIN writes, Harmless(i) PROVE Harmless(i)'
  <2>1. writes[i].value \in Tokens /\ writes[i].value <= issued
    BY <1>1, WriteAt DEF Issued
  <2> QED BY <1>3, <2>1, GoodStays DEF Harmless, Good, store
<1>4. (AllGood => AllGood') /\ (SoonGood => SoonGood')
  BY <1>2, <1>3 DEF AllGood, SoonGood, store
<1> QED BY <1>2, <1>4 DEF Kept

\* Tokens are kept that are good, or none.
LEMMA KeptByKeeping ==
  ASSUME Typed, Issued, Kept, NEW p \in Pair, NEW by \in Callers \cup {"refresh"}, Keep(p, by),
         p.access <= issued, p.refresh <= issued, Good(p.refresh),
         UNCHANGED <<server, refreshing, disk>>
  PROVE  Kept'
<1>1. StoreTyped
  BY TypeParts DEF Typed
<1> DEFINE n == Len(writes)
<1>2. /\ memory' = p /\ n \in Nat
      /\ DOMAIN writes = 1..n /\ DOMAIN writes' = 1..(n + 2)
      /\ \A i \in 1..n : writes'[i] = writes[i]
      /\ writes'[n + 1].key = "access" /\ writes'[n + 2].key = "refresh"
      /\ writes'[n + 2].value = p.refresh
  BY ONLY <1>1, KeepWrites, Keep(p, by)
<1> HIDE DEF n
<1>3. Good(memory.refresh)' /\ (Good(disk.refresh) => Good(disk.refresh)')
  BY <1>2 DEF Good, server
<1>4. ASSUME NEW i \in DOMAIN writes', i \in DOMAIN writes => Harmless(i) PROVE Harmless(i)'
  BY <1>2, <1>4 DEF Harmless, Good, server
<1>5. AllGood => AllGood'
  BY <1>2, <1>3, <1>4 DEF AllGood
<1>6. SoonGood => SoonGood'
  <2>1. CASE Good(disk.refresh) /\ \A i \in DOMAIN writes : Harmless(i)
    BY <1>3, <1>4, <2>1 DEF SoonGood
  <2>2. ASSUME NEW i \in DOMAIN writes, writes[i].by = "refresh", writes[i].key = "refresh",
               \A j \in DOMAIN writes : j >= i => Harmless(j)
        PROVE  SoonGood'
    <3>1. i \in DOMAIN writes' /\ writes'[i] = writes[i]
      BY <1>2, <2>2
    <3>2. \A j \in DOMAIN writes' : j >= i => Harmless(j)'
      BY <1>4, <2>2
    <3> QED BY <2>2, <3>1, <3>2 DEF SoonGood
  <2> QED BY <2>1, <2>2 DEF SoonGood
<1>7. (Good(refreshing.spends) => Good(refreshing.spends)') /\ (Good(refreshing.got) => Good(refreshing.got)')
  BY DEF Good, server
<1> QED BY <1>3, <1>5, <1>6, <1>7 DEF Kept

\* The steps that leave the tokens of the client alone.
Quiet == Grows /\ UNCHANGED <<memory, refreshing, store, reused, lost>>

LEMMA QuietSafe == ASSUME Typed, Safe, Quiet PROVE Safe'
BY IssuedByGrowth, KeptByGrowth DEF Safe, Quiet

\* Keeping tokens, good ones or none.
LEMMA KeepSafe ==
  ASSUME Typed, Safe, NEW p \in Pair, NEW by \in Callers \cup {"refresh"}, Keep(p, by),
         p.access <= issued, p.refresh <= issued, Good(p.refresh),
         UNCHANGED <<server, refreshing, disk, reused, lost>>
  PROVE  Safe'
<1>1. StoreTyped
  BY TypeParts DEF Typed
<1>2. Issued'
  BY <1>1, KeepWrites DEF Safe, Issued, server
<1> QED BY <1>2, KeptByKeeping DEF Safe

\* Asking for something, and answers, are quiet.
LEMMA AsksQuiet == ASSUME Typed, Issued, Asks PROVE Quiet
BY SameGrows DEF Asks, SignIn, Fetch, SignOut, Quiet, server, past

LEMMA AnswersQuiet ==
  ASSUME Typed, Issued, NEW c \in Callers, Accept(c) \/ Refuse(c) \/ CallFails(c) \/ AnswerLost(c)
  PROVE  Quiet
BY SameGrows, EffectGrows DEF Expire, Accept, Refuse, CallFails, AnswerLost, Quiet, server, past

LEMMA EndsQuiet ==
  ASSUME Typed, Issued, NEW c \in Callers,
         Receive(c) \/ RestoreNothing \/ BootSucceeds \/ BootFindsNobody \/ SignInFails \/ Stored(c)
  PROVE  Quiet
BY SameGrows DEF Receive, RestoreNothing, BootSucceeds, BootFindsNobody, SignInFails, Stored, Quiet, server, past

\* The first refused request sends the refresh, with the token memory holds.
LEMMA JoinSafe == ASSUME Typed, Safe, NEW c \in Callers, Join(c) PROVE Safe'
<1>1. UNCHANGED <<server, memory, store, past>>
  BY DEF Join
<1>2. CASE refreshing.pc # "idle"
  <2>1. Quiet
    BY <1>1, <1>2, SameGrows DEF Join, Safe, Quiet, server, past
  <2> QED BY <2>1, QuietSafe
<1>3. CASE refreshing.pc = "idle"
  <2>1. /\ refreshing'.pc = "sent" /\ refreshing'.spends = memory.refresh /\ refreshing'.got = None
        /\ memory.refresh # None
    BY <1>3 DEF Join, Retries, NoRefresh
  <2>2. Issued'
    <3>1. ServerTyped
      BY TypeParts DEF Typed
    <3> QED BY <1>1, <2>1, <3>1 DEF Safe, Issued, server, store, None, ServerTyped
  <2>3. AllGood => AllGood'
    BY <1>1 DEF AllGood, Good, Harmless, server, store
  <2>4. AllGood => Good(refreshing.spends)'
    BY <1>1, <2>1 DEF AllGood, Good, server
  <2>5. Kept => Kept'
    BY <1>3, <2>1, <2>3, <2>4 DEF Kept
  <2> QED BY <1>1, <2>2, <2>5 DEF Safe, past
<1> QED BY <1>2, <1>3

\* A rotation spends one token and issues a good one.
LEMMA RotateSafe == ASSUME Typed, Safe, NEW answered \in BOOLEAN, Rotate(answered) PROVE Safe'
<1>1. ServerTyped /\ ClientTyped /\ StoreTyped /\ Named
  BY TypeParts DEF Typed
<1>2. refreshing.spends \in Pairs /\ sessionOf[refreshing.spends] \in Tokens
  BY <1>1 DEF Rotate, Named, ServerTyped
<1>3. issued' = issued + 1 /\ issued + 1 \in Pairs /\ issued \in Nat
  BY <1>1, <1>2, IssueTyped DEF Spend, Rotate, ServerTyped
<1>4. /\ unspent' = (unspent \ {refreshing.spends}) \cup {issued + 1}
      /\ UNCHANGED <<memory, disk, writes, reused>>
      /\ refreshing'.pc = "answered" /\ refreshing'.spends = refreshing.spends
      /\ refreshing'.got = IF answered THEN issued + 1 ELSE None
  BY <1>1 DEF Spend, Rotate, store, past, ClientTyped, Refresh
<1>5. (answered => lost' = lost) /\ (~answered => lost')
  BY DEF Rotate, past
<1>6. Issued'
  <2>1. memory.refresh \in Nat /\ disk.refresh \in Nat /\ refreshing.spends \in Nat
        /\ \A i \in DOMAIN writes : writes[i].value \in Nat
    BY <1>1, WriteAt DEF ClientTyped, StoreTyped, Pair, Refresh, Tokens
  <2>2. \A v \in Nat : v <= issued => v <= issued'
    BY <1>3
  <2>3. unspent' \subseteq 1..issued'
    <3>1. unspent \subseteq 1..issued
      BY DEF Safe, Issued
    <3>2. \A u \in unspent' : u \in unspent \/ u = issued + 1
      BY <1>4
    <3>3. \A u \in 1..issued : u \in 1..(issued + 1)
      BY <1>3
    <3>4. issued + 1 \in 1..(issued + 1)
      BY <1>3
    <3> QED BY <1>3, <3>1, <3>2, <3>3, <3>4
  <2>4. refreshing'.got <= issued'
    BY <1>3, <1>4 DEF None
  <2> QED BY <1>4, <2>1, <2>2, <2>3, <2>4 DEF Safe, Issued
<1>7. answered => Kept'
  BY <1>3, <1>4 DEF Kept, Good, GoodIn, None
<1> QED BY <1>4, <1>5, <1>6, <1>7 DEF Safe

\* The token of a refresh is good: it is refused only when its session is over.
LEMMA RefuseRefreshSafe == ASSUME Typed, Safe, RefuseRefresh PROVE Safe'
<1>1. ServerTyped /\ ClientTyped /\ PastTyped
  BY TypeParts DEF Typed
<1>2. /\ UNCHANGED <<issued, sessionOf, unspent, memory, disk, writes, lost>>
      /\ ended \subseteq ended' /\ refreshing.pc = "sent" /\ ~Rotates(refreshing.spends)
      /\ reused' = (reused \/ sessionOf[refreshing.spends] \notin ended)
      /\ refreshing'.pc = "answered"
      /\ refreshing'.spends = refreshing.spends /\ refreshing'.got = refreshing.got
  BY <1>1 DEF Punish, RefuseRefresh, store, ClientTyped, Refresh
<1>3. Issued'
  BY <1>2 DEF Safe, Issued
<1>4. ASSUME Kept PROVE Kept' /\ (reused' => reused)
  <2>1. AllGood /\ Good(refreshing.spends) /\ refreshing.spends # None /\ refreshing.got = None
    BY <1>2, <1>4 DEF Kept
  <2>2. sessionOf[refreshing.spends] \in ended
    BY <1>2, <2>1 DEF Good, GoodIn, Rotates
  <2>3. AllGood'
    BY <1>2, <2>1 DEF AllGood, Harmless, Good, GoodIn
  <2> QED BY <1>2, <2>1, <2>2, <2>3 DEF Kept
<1> QED BY <1>2, <1>3, <1>4 DEF Safe

LEMMA RefreshCallFailsSafe == ASSUME Typed, Safe, RefreshCallFails PROVE Safe'
<1>1. ClientTyped
  BY TypeParts DEF Typed
<1>2. /\ UNCHANGED <<server, memory, disk, writes, reused, lost>> /\ refreshing.pc = "sent"
      /\ refreshing'.pc = "answered"
      /\ refreshing'.spends = refreshing.spends /\ refreshing'.got = refreshing.got
  BY <1>1 DEF RefreshCallFails, store, past, ClientTyped, Refresh
<1>3. Issued'
  BY <1>2 DEF Safe, Issued, server
<1>4. Kept => Kept'
  BY <1>2 DEF Kept, AllGood, Harmless, Good, server
<1> QED BY <1>2, <1>3, <1>4 DEF Safe

\* The new pair is in memory at once, and the last write to come is of its token.
LEMMA KeepRefreshedSafe == ASSUME Typed, Safe, KeepRefreshed PROVE Safe'
<1>1. ClientTyped /\ StoreTyped
  BY TypeParts DEF Typed
<1> DEFINE t == refreshing.got
<1>2. /\ UNCHANGED <<server, disk, reused, lost>> /\ refreshing.pc = "answered" /\ t # None
      /\ refreshing'.pc = "storing"
      /\ refreshing'.spends = refreshing.spends /\ refreshing'.got = t
      /\ Keep(Held(t), "refresh")
  BY <1>1 DEF KeepRefreshed, past, ClientTyped, Refresh
<1>3. Held(t) \in Pair /\ Held(t).access = t /\ Held(t).refresh = t
  BY <1>1, Records DEF ClientTyped, Refresh, Held
<1>4. PICK n \in Nat :
      /\ memory' = Held(t)
      /\ DOMAIN writes = 1..n /\ DOMAIN writes' = 1..(n + 2)
      /\ \A i \in 1..n : writes'[i] = writes[i]
      /\ writes'[n + 1].value = t
      /\ writes'[n + 2].key = "refresh" /\ writes'[n + 2].value = t /\ writes'[n + 2].by = "refresh"
  <2>1. Len(writes) \in Nat
    BY <1>1 DEF StoreTyped
  <2> QED BY <1>1, <1>2, <1>3, <2>1, KeepWrites
<1>5. Issued'
  BY <1>2, <1>3, <1>4 DEF Safe, Issued, server
<1>6. ASSUME Kept PROVE Kept'
  <2>1. Good(t)
    BY <1>2, <1>6 DEF Kept
  <2>2. Good(memory.refresh)' /\ Harmless(n + 2)'
    BY <1>2, <1>3, <1>4, <2>1 DEF Good, Harmless, server
  <2>3. SoonGood'
    <3>1. \A j \in DOMAIN writes' : j >= n + 2 => j = n + 2
      BY <1>4
    <3> QED BY <1>4, <2>2, <3>1 DEF SoonGood
  <2> QED BY <1>2, <2>2, <2>3 DEF Kept
<1> QED BY <1>2, <1>5, <1>6 DEF Safe

\* Memory and storage agree again when the refresh is over.
LEMMA SettleSafe ==
  ASSUME Typed, Safe, Refreshed \/ RefreshFails
  PROVE  Safe'
<1>1. UNCHANGED <<server, memory, disk, writes, reused, lost>> /\ refreshing' = NoRefresh
  BY DEF Refreshed, RefreshFails, Settle, store, past
<1>2. refreshing'.pc = "idle" /\ refreshing'.spends = None /\ refreshing'.got = None
  BY <1>1 DEF NoRefresh
<1>3. Issued'
  <2>1. ServerTyped
    BY TypeParts DEF Typed
  <2> QED BY <1>1, <1>2, <2>1 DEF Safe, Issued, server, ServerTyped, None
<1>4. Kept => AllGood
  <2>1. CASE Refreshed
    <3>1. refreshing.pc = "storing" /\ \A i \in DOMAIN writes : writes[i].by # "refresh"
      BY <2>1 DEF Refreshed, Written
    <3> QED BY <3>1 DEF Kept, SoonGood, AllGood
  <2>2. CASE RefreshFails
    BY <2>2 DEF RefreshFails, Kept
  <2> QED BY <2>1, <2>2
<1>5. AllGood => AllGood'
  BY <1>1 DEF AllGood, Harmless, Good, server
<1> QED BY <1>1, <1>2, <1>3, <1>4, <1>5 DEF Safe, Kept

\* The tokens of a start are those that were stored.
LEMMA RestoreSafe == ASSUME Typed, Starting, Safe, RestoreTokens PROVE Safe'
<1>1. /\ UNCHANGED <<server, refreshing, disk, writes, reused, lost>> /\ memory' = disk
      /\ refreshing.pc = "idle"
  BY DEF RestoreTokens, Starting, store, past
<1>2. Issued'
  BY <1>1 DEF Safe, Issued, server
<1>3. Kept => Kept'
  BY <1>1 DEF Kept, AllGood, Harmless, Good, server
<1> QED BY <1>1, <1>2, <1>3 DEF Safe

\* Signing in keeps a token nobody has spent, everything else keeps none.
LEMMA KeepsSafe ==
  ASSUME Typed, Safe, Unused, NEW c \in Callers,
         \/ c = "boot" /\ BootFails
         \/ c = "login" /\ SignInSucceeds
         \/ c \in SignOuts /\ SignOutClears(c)
  PROVE  Safe'
<1>1. ServerTyped /\ ClientTyped
  BY TypeParts DEF Typed
<1>2. UNCHANGED <<server, refreshing, disk, reused, lost>>
  BY DEF BootFails, SignInSucceeds, SignOutClears, past
<1>3. CASE Keep(Empty, c)
  <2>1. Empty \in Pair /\ Empty.access <= issued /\ Empty.refresh <= issued /\ Good(Empty.refresh)
    BY <1>1, Records DEF Empty, None, ServerTyped, Good, GoodIn
  <2> QED BY <1>2, <1>3, <2>1, KeepSafe
<1>4. CASE c = "login" /\ SignInSucceeds
  <2> DEFINE t == calls["login"].token
  <2>1. t \in unspent
    BY <1>4 DEF SignInSucceeds, Answered, Unused
  <2>2. t \in Tokens /\ t <= issued
    BY <1>1, <2>1, Constants DEF Safe, Issued, ServerTyped
  <2>3. Held(t) \in Pair /\ Held(t).access = t /\ Held(t).refresh = t
    BY <2>2, Records DEF Held
  <2>4. Good(t) /\ Keep(Held(t), c)
    BY <1>4, <2>1 DEF Good, GoodIn, SignInSucceeds
  <2> QED BY <1>2, <2>2, <2>3, <2>4, KeepSafe
<1> QED BY <1>3, <1>4 DEF BootFails, SignInSucceeds, SignOutClears

\* Writes are done in order: the last one on its way decides.
LEMMA TailSafe ==
  ASSUME Typed, writes # <<>>, writes' = Tail(writes),
         UNCHANGED <<server, memory>>,
         \/ disk' = [disk EXCEPT ![Head(writes).key] = Head(writes).value]
         \/ disk' = disk /\ Head(writes).by # "refresh"
  PROVE  (AllGood => AllGood') /\ (SoonGood => SoonGood')
<1>1. StoreTyped
  BY TypeParts DEF Typed
<1>2. PICK n \in Nat :
      /\ DOMAIN writes = 1..n /\ DOMAIN writes' = 1..(n - 1) /\ n >= 1 /\ Head(writes) = writes[1]
      /\ \A i \in 1..(n - 1) : writes'[i] = writes[i + 1]
  BY <1>1, TailWrites
<1>3. ASSUME NEW i \in 1..(n - 1), Harmless(i + 1) PROVE Harmless(i)'
  BY <1>2, <1>3 DEF Harmless, Good, server
<1>4. Head(writes) \in WriteCall /\ disk \in Pair
  BY <1>1, TailTyped DEF StoreTyped
<1>5. ASSUME Good(disk.refresh), Harmless(1) PROVE Good(disk.refresh)'
  <2>1. \/ disk'.refresh = disk.refresh
        \/ Head(writes).key = "refresh" /\ disk'.refresh = Head(writes).value
    BY <1>4 DEF WriteCall, Pair
  <2> QED BY <1>2, <1>5, <2>1 DEF Harmless, Good, server
<1>6. ASSUME Good(disk.refresh), \A i \in DOMAIN writes : Harmless(i)
      PROVE  Good(disk.refresh)' /\ \A i \in DOMAIN writes' : Harmless(i)'
  <2>1. Harmless(1) /\ \A i \in 1..(n - 1) : Harmless(i + 1)
    BY <1>2, <1>6
  <2> QED BY <1>2, <1>3, <1>5, <1>6, <2>1
<1>7. ASSUME NEW i \in DOMAIN writes, writes[i].by = "refresh", writes[i].key = "refresh",
             \A j \in DOMAIN writes : j >= i => Harmless(j)
      PROVE  SoonGood'
  <2>1. CASE i = 1
    <3>1. Harmless(1) /\ \A j \in 1..(n - 1) : Harmless(j + 1)
      BY <1>2, <1>7, <2>1
    <3>2. Head(writes).by = "refresh" /\ Head(writes).key = "refresh"
      BY <1>2, <1>7, <2>1
    <3>3. disk'.refresh = Head(writes).value
      BY <1>4, <3>2 DEF Pair
    <3>4. Good(disk.refresh)'
      BY <1>2, <3>1, <3>2, <3>3 DEF Harmless, Good, server
    <3> QED BY <1>2, <1>3, <3>1, <3>4 DEF SoonGood
  <2>2. CASE i # 1
    <3>1. i - 1 \in DOMAIN writes' /\ writes'[i - 1] = writes[i]
      BY <1>2, <2>2
    <3>2. \A j \in DOMAIN writes' : j >= i - 1 => Harmless(j + 1)
      BY <1>2, <1>7, <2>2
    <3>3. \A j \in DOMAIN writes' : j >= i - 1 => Harmless(j)'
      BY <1>2, <1>3, <3>2
    <3> QED BY <1>7, <3>1, <3>3 DEF SoonGood
  <2> QED BY <2>1, <2>2
<1>8. AllGood => AllGood'
  <2>1. Good(memory.refresh) => Good(memory.refresh)'
    BY DEF Good, server
  <2> QED BY <1>6, <2>1 DEF AllGood
<1>9. SoonGood => SoonGood'
  <2>1. CASE Good(disk.refresh) /\ \A i \in DOMAIN writes : Harmless(i)
    BY <1>6, <2>1 DEF SoonGood
  <2> QED BY <1>7, <2>1 DEF SoonGood
<1> QED BY <1>8, <1>9

LEMMA TailIssued ==
  ASSUME Typed, Issued, writes # <<>>, writes' = Tail(writes), UNCHANGED <<server, memory>>,
         \/ disk' = [disk EXCEPT ![Head(writes).key] = Head(writes).value]
         \/ disk' = disk,
         \/ refreshing' = refreshing
         \/ refreshing' = NoRefresh
  PROVE  Issued'
<1>1. StoreTyped /\ ServerTyped
  BY TypeParts DEF Typed
<1>2. PICK n \in Nat :
      /\ DOMAIN writes = 1..n /\ DOMAIN writes' = 1..(n - 1) /\ n >= 1 /\ Head(writes) = writes[1]
      /\ \A i \in 1..(n - 1) : writes'[i] = writes[i + 1]
  BY <1>1, TailWrites
<1>3. Head(writes) \in WriteCall /\ disk \in Pair
  BY <1>1, TailTyped DEF StoreTyped
<1>4. 1 \in DOMAIN writes /\ \A i \in 1..(n - 1) : i + 1 \in DOMAIN writes
  BY <1>2
<1>5. \A i \in DOMAIN writes' : writes'[i].value <= issued
  BY <1>2, <1>4 DEF Issued
<1>6. disk'.refresh <= issued
  <2>1. Head(writes).value <= issued /\ disk.refresh <= issued
    BY <1>2, <1>4 DEF Issued
  <2>2. disk'.refresh \in {disk.refresh, Head(writes).value}
    BY <1>3 DEF WriteCall, Pair
  <2> QED BY <2>1, <2>2
<1>7. refreshing'.spends <= issued /\ refreshing'.got <= issued
  BY <1>1 DEF Issued, NoRefresh, None, ServerTyped
<1> QED BY <1>5, <1>6, <1>7 DEF Issued, server

LEMMA WriteSafe == ASSUME Typed, Safe, Write PROVE Safe'
<1>1. /\ UNCHANGED <<server, memory, refreshing, reused, lost>> /\ writes # <<>>
      /\ disk' = [disk EXCEPT ![Head(writes).key] = Head(writes).value] /\ writes' = Tail(writes)
  BY DEF Write, client, past
<1>2. (AllGood => AllGood') /\ (SoonGood => SoonGood')
  BY <1>1, TailSafe
<1>3. Issued'
  BY <1>1, TailIssued DEF Safe
<1>4. Kept => Kept'
  BY <1>1, <1>2 DEF Kept, Good, server
<1> QED BY <1>1, <1>3, <1>4 DEF Safe

LEMMA WriteFailsSafe == ASSUME Typed, Safe, WriteFails PROVE Safe'
<1>1. /\ UNCHANGED <<server, memory, disk, reused>> /\ writes # <<>> /\ writes' = Tail(writes)
      /\ refreshing' = refreshing \/ refreshing' = NoRefresh
      /\ lost => lost'
  BY DEF WriteFails, Settle
<1>2. Issued'
  BY <1>1, TailIssued DEF Safe
<1>3. CASE Head(writes).by = "refresh"
  BY <1>2, <1>3 DEF WriteFails, Safe
<1>4. CASE Head(writes).by # "refresh"
  <2>1. refreshing' = refreshing
    BY <1>4 DEF WriteFails
  <2>2. (AllGood => AllGood') /\ (SoonGood => SoonGood')
    BY <1>1, <1>4, TailSafe
  <2>3. Kept => Kept'
    BY <1>1, <2>1, <2>2 DEF Kept, Good, server
  <2> QED BY <1>1, <1>2, <2>3 DEF Safe
<1> QED BY <1>3, <1>4

LEMMA KillSafe == ASSUME Typed, Safe, Kill PROVE Safe'
<1>1. /\ UNCHANGED <<server, disk, reused>>
      /\ memory' = Empty /\ refreshing' = NoRefresh /\ writes' = <<>>
      /\ lost => lost'
      /\ refreshing.pc # "idle" => lost'
  BY DEF Kill
<1>2. ServerTyped
  BY TypeParts DEF Typed
<1>3. DOMAIN writes' = {}
  BY <1>1
<1>4. Issued'
  BY <1>1, <1>2, <1>3 DEF Safe, Issued, server, Empty, NoRefresh, None, ServerTyped
<1>5. refreshing.pc = "idle" /\ Kept => Kept'
  <2>1. Good(disk.refresh) => AllGood'
    BY <1>1, <1>3 DEF AllGood, Good, GoodIn, Empty, server
  <2> QED BY <1>1, <2>1 DEF Kept, AllGood, NoRefresh
<1> QED BY <1>1, <1>4, <1>5 DEF Safe

\* Every step is of one of these kinds.
LEMMA SafeKept == ASSUME Careful, Next PROVE Safe'
<1> USE DEF Careful
<1>1. CASE Asks
  BY <1>1, AsksQuiet, QuietSafe DEF Safe
<1>2. ASSUME NEW c \in Callers, AnswerLost(c) PROVE Safe'
  BY <1>2, AnswersQuiet, QuietSafe DEF Safe
<1>3. CASE Refreshes \/ Rotate(FALSE)
  BY <1>3, RotateSafe, RefuseRefreshSafe, RefreshCallFailsSafe, KeepRefreshedSafe, SettleSafe
     DEF Refreshes
<1>4. ASSUME NEW c \in Callers, Step(c) PROVE Safe'
  <2>1. CASE Accept(c) \/ Refuse(c) \/ CallFails(c)
    BY <2>1, AnswersQuiet, QuietSafe DEF Safe
  <2>2. CASE Join(c)
    BY <2>2, JoinSafe
  <2>3. CASE Receive(c) \/ RestoreNothing \/ BootSucceeds \/ BootFindsNobody \/ SignInFails \/ Stored(c)
    BY <2>3, EndsQuiet, QuietSafe DEF Safe
  <2>4. CASE RestoreTokens
    BY <2>4, RestoreSafe
  <2>5. CASE \/ c = "boot" /\ BootFails
             \/ c = "login" /\ SignInSucceeds
             \/ c \in SignOuts /\ SignOutClears(c)
    BY <2>5, KeepsSafe
  <2> QED BY <1>4, <2>1, <2>2, <2>3, <2>4, <2>5 DEF Step
<1> QED BY <1>1, <1>2, <1>3, <1>4, WriteSafe, WriteFailsSafe, KillSafe DEF Next, Works, Goes

\* The token of an answered sign-in stays unused until the sign-in keeps it.
LEMMA UnusedFrom ==
  ASSUME Typed, Issued, Unused,
         \/ calls'["login"] = calls["login"]
         \/ calls'["login"].pc # "answered"
         \/ calls'["login"].answer # "ok",
         unspent \ {refreshing.spends} \subseteq unspent',
         memory'.refresh \in {memory.refresh, None, refreshing.got},
         refreshing'.spends \in {refreshing.spends, memory.refresh, None},
         refreshing'.got \in {refreshing.got, None, issued + 1}
  PROVE  Unused'
<1> DEFINE t == calls["login"].token
<1> SUFFICES ASSUME calls'["login"] = calls["login"],
                    calls["login"].pc = "answered", calls["login"].answer = "ok"
             PROVE  t \in unspent' /\ t # memory'.refresh /\ t # refreshing'.spends /\ t # refreshing'.got
  BY DEF Unused
<1>1. t \in unspent /\ t # memory.refresh /\ t # refreshing.spends /\ t # refreshing.got
  BY DEF Unused
<1>2. t # None /\ t # issued + 1
  <2>1. t \in 1..issued
    BY <1>1 DEF Issued
  <2>2. issued \in Nat
    BY TypeParts, Constants DEF Typed, ServerTyped
  <2> QED BY <2>1, <2>2 DEF None
<1> QED BY <1>1, <1>2

\* A sign-in is answered with a token issued for it.
LEMMA AnswersUnused ==
  ASSUME Typed, Issued, Unused, NEW c \in Callers,
         Accept(c) \/ Refuse(c) \/ CallFails(c) \/ AnswerLost(c)
  PROVE  Unused'
<1>1. ServerTyped /\ ClientTyped /\ UNCHANGED <<memory, refreshing>>
  BY TypeParts DEF Typed, Accept, Refuse, CallFails, AnswerLost
<1>2. CASE c = "login" /\ Accept(c)
  <2>1. /\ issued' = issued + 1 /\ unspent' = unspent \cup {issued + 1}
        /\ issued + 1 \in Tokens
    BY <1>1, <1>2, EffectTyped, Constants DEF Accept, Effect, Grant, Revoke, Issue
  <2>2. calls'["login"].token = issued + 1
    BY <1>1, <1>2, <2>1, AnswerTyped, Constants DEF Accept
  <2>3. /\ memory.refresh # issued + 1
        /\ refreshing.spends # issued + 1 /\ refreshing.got # issued + 1
    BY <1>1 DEF Issued, ServerTyped
  <2> QED BY <1>1, <2>1, <2>2, <2>3 DEF Unused
<1>3. CASE c # "login" \/ ~Accept(c)
  <2>1. Grows
    BY AnswersQuiet DEF Quiet
  <2>2. \/ calls'["login"] = calls["login"]
        \/ calls'["login"].answer # "ok"
    <3>1. CASE End(c) /\ c # "login"
      BY <1>1, <3>1, EndTyped, Constants
    <3>2. CASE \E a \in {"ok", "refused", "failed"} : \E u : Answer(c, a, u) /\ (c # "login" \/ a # "ok")
      BY <1>1, <3>2, Constants DEF Answer, ClientTyped, Call
    <3> QED BY <1>3, <3>1, <3>2, Constants DEF Accept, Refuse, CallFails, AnswerLost
  <2> QED BY <1>1, <2>1, <2>2, UnusedFrom DEF Grows
<1> QED BY <1>2, <1>3

\* A caller other than the sign-in takes its answer, or the sign-in is over.
LEMMA StepUnused ==
  ASSUME Typed, Issued, Unused, Starting, NEW c \in Callers, Step(c)
  PROVE  Unused'
<1>1. ClientTyped
  BY TypeParts DEF Typed
<1>2. CASE Accept(c) \/ Refuse(c) \/ CallFails(c)
  BY <1>2, AnswersUnused
<1>3. CASE c \in Requests \cup {"boot"} /\ Join(c)
  <2>1. calls'["login"] = calls["login"] /\ UNCHANGED <<unspent, memory>>
    BY <1>1, <1>3, ToTyped, Constants DEF Join, server
  <2>2. refreshing'.spends \in {refreshing.spends, memory.refresh}
        /\ refreshing'.got \in {refreshing.got, None}
    BY <1>3 DEF Join, NoRefresh
  <2> QED BY <2>1, <2>2, UnusedFrom
<1>4. CASE Receive(c) \/ RestoreNothing \/ BootSucceeds \/ BootFindsNobody \/ SignInFails \/ Stored(c)
  <2>1. UNCHANGED <<unspent, memory, refreshing>>
    BY <1>4 DEF Receive, RestoreNothing, BootSucceeds, BootFindsNobody, SignInFails, Stored, server
  <2>2. \E d \in Callers : End(d)
    BY <1>4, Constants DEF Receive, RestoreNothing, BootSucceeds, BootFindsNobody, SignInFails, Stored
  <2>3. calls'["login"] = calls["login"] \/ calls'["login"].pc # "answered"
    BY <1>1, <2>2, EndTyped, Constants
  <2> QED BY <2>1, <2>3, UnusedFrom
<1>5. CASE c = "boot" /\ RestoreTokens
  <2>1. calls["login"].pc = "idle"
    BY <1>5, Constants DEF RestoreTokens, Starting
  <2>2. calls'["login"] = calls["login"]
    BY <1>1, <1>5, Constants DEF RestoreTokens, ClientTyped
  <2> QED BY <2>1, <2>2 DEF Unused
<1>6. CASE (c = "boot" /\ BootFails) \/ (c \in SignOuts /\ SignOutClears(c))
  <2>1. calls'["login"] = calls["login"]
    BY <1>1, <1>6, ToTyped, Constants DEF BootFails, SignOutClears
  <2>2. UNCHANGED <<unspent, refreshing>> /\ memory'.refresh = None
    BY <1>6 DEF BootFails, SignOutClears, Keep, Empty, server
  <2> QED BY <2>1, <2>2, UnusedFrom
<1>7. CASE c = "login" /\ SignInSucceeds
  BY <1>1, <1>7, ToTyped, Constants DEF SignInSucceeds, Unused
<1> QED BY <1>2, <1>3, <1>4, <1>5, <1>6, <1>7, SessionConstants DEF Step

LEMMA RefreshesUnused ==
  ASSUME Typed, Issued, Unused, Refreshes \/ Rotate(FALSE)
  PROVE  Unused'
<1>1. ClientTyped
  BY TypeParts DEF Typed
<1>2. ASSUME NEW answered \in BOOLEAN, Rotate(answered) PROVE Unused'
  BY <1>1, <1>2, UnusedFrom DEF Spend, Rotate, ClientTyped, Refresh
<1>3. CASE RefuseRefresh \/ RefreshCallFails
  BY <1>1, <1>3, UnusedFrom DEF Punish, RefuseRefresh, RefreshCallFails, ClientTyped, Refresh, server
<1>4. CASE KeepRefreshed
  BY <1>1, <1>4, UnusedFrom DEF KeepRefreshed, Keep, Held, ClientTyped, Refresh, server
<1>5. CASE Refreshed \/ RefreshFails
  <2>1. UNCHANGED <<unspent, memory>> /\ refreshing' = NoRefresh
    BY <1>5 DEF Refreshed, RefreshFails, Settle, server
  <2>2. \E ok \in BOOLEAN : Settle(ok)
    BY <1>5 DEF Refreshed, RefreshFails
  <2>3. \/ calls'["login"] = calls["login"]
        \/ calls'["login"].pc # "answered"
        \/ calls'["login"].answer # "ok"
    BY <1>1, <2>2, SettleTyped, Constants
  <2> QED BY <2>1, <2>3, UnusedFrom DEF NoRefresh
<1> QED BY <1>2, <1>3, <1>4, <1>5 DEF Refreshes

LEMMA UnusedKept == ASSUME Careful, Next PROVE Unused'
<1>1. Typed /\ Issued /\ Unused /\ Starting /\ ClientTyped
  BY TypeParts DEF Careful, Safe, Typed
<1>2. CASE Asks
  <2>1. calls'["login"] = calls["login"] \/ calls'["login"].pc # "answered"
    BY <1>1, <1>2, Constants DEF Asks, SignIn, Fetch, SignOut, ClientTyped, Sent
  <2>2. UNCHANGED <<unspent, memory, refreshing>>
    BY <1>2 DEF Asks, SignIn, Fetch, SignOut, server
  <2> QED BY <1>1, <2>1, <2>2, UnusedFrom
<1>3. ASSUME NEW c \in Callers, AnswerLost(c) PROVE Unused'
  BY <1>1, <1>3, AnswersUnused
<1>4. CASE Write
  BY <1>1, <1>4, UnusedFrom DEF Write, server, client
<1>5. CASE WriteFails
  <2>1. /\ UNCHANGED <<unspent, memory>>
        /\ refreshing' = refreshing \/ refreshing' = NoRefresh
    BY <1>5 DEF WriteFails, Settle, server
  <2>2. \/ calls'["login"] = calls["login"]
        \/ calls'["login"].pc # "answered"
        \/ calls'["login"].answer # "ok"
    <3>1. Settle(FALSE) \/ End("login") \/ UNCHANGED calls
      BY <1>5 DEF WriteFails
    <3> QED BY <1>1, <3>1, SettleTyped, EndTyped, Constants
  <2> QED BY <1>1, <2>1, <2>2, UnusedFrom DEF NoRefresh
<1>6. CASE Kill
  BY <1>6, Constants DEF Kill, Unused, Idle
<1> QED BY <1>1, <1>2, <1>3, <1>4, <1>5, <1>6, StepUnused, RefreshesUnused DEF Next, Works, Goes

LEMMA InitCareful == Init => Careful
<1> SUFFICES ASSUME Init PROVE Careful
  OBVIOUS
<1>1. Typed
  BY InitTyped
<1>2. Safe
  BY DEF NothingIssued, Init, Safe, Issued, Kept, AllGood, Good, GoodIn, Empty, NoRefresh, None
<1>3. Unused /\ Starting
  BY Constants DEF Init, Unused, Starting, NoRefresh, Idle, AtBoot
<1> QED BY <1>1, <1>2, <1>3 DEF Careful

LEMMA CarefulKept == ASSUME Careful, [Next]_vars PROVE Careful'
<1>1. CASE Next
  <2>1. Typed' /\ Starting'
    BY <1>1, NextTyped, StartingKept DEF Careful
  <2> QED BY <1>1, <2>1, SafeKept, UnusedKept DEF Careful
<1>2. CASE UNCHANGED vars
  <2>1. Typed'
    BY <1>2, NextTyped DEF Careful
  <2>2. Safe'
    BY <1>2, QuietSafe, SameGrows DEF Careful, Safe, Quiet, vars, server, client, past
  <2>3. Unused' /\ Starting'
    BY <1>2 DEF Careful, Unused, Starting, vars, server, client
  <2> QED BY <2>1, <2>2, <2>3 DEF Careful
<1> QED BY <1>1, <1>2

\* The application presents a spent refresh token, which ends the session for
\* every phone that shares it, only after a rotation it could not keep, however
\* requests, sign-ins and sign-outs fall between each other (client.ts:123-129).
THEOREM RotationIsSafe == Spec => []ReuseNeedsALoss
<1>1. Careful => ReuseNeedsALoss
  BY DEF Careful, Safe, ReuseNeedsALoss
<1> QED BY <1>1, InitCareful, CarefulKept, PTL DEF Spec

-----------------------------------------------------------------------------
(* Signing out, and the session that is shown.                             *)

\* Two tokens of one session.
WholeIn(pair, n, session) ==
  pair.access \in 1..n /\ pair.refresh \in 1..n /\ session[pair.access] = session[pair.refresh]
Whole(pair) == WholeIn(pair, issued, sessionOf)

\* The token is of the session whose tokens memory holds.
Same(t) == Whole(memory) /\ t \in 1..issued /\ sessionOf[t] = sessionOf[memory.access]

\* Every pair has its session, and a sign-in stores tokens.
Numbered ==
  /\ \A t \in 1..issued : sessionOf[t] \in 1..issued
  /\ disk.access <= issued
  /\ \A i \in DOMAIN writes : writes[i].by = "login" => writes[i].value # None

\* The application starts, or the user is signed out and may sign in, or is signed in.
Phases ==
  /\ screen.booting <=> Busy("boot")
  /\ screen.booting => screen.user = None /\ \A c \in Callers : c # "boot" => ~Busy(c)
  /\ screen.booting /\ refreshing.pc # "idle" => calls["boot"].pc = "waiting"
  /\ Busy("login") => screen.user = None

\* The last two writes to come make the storage what memory is.
Follows ==
  LET n == Len(writes) IN
  /\ n = 0 => disk = memory \/ (memory = Empty /\ ~Restorable)
  /\ n >= 1 => writes[n].key = "refresh" /\ writes[n].value = memory.refresh
  /\ n = 1 => disk.access = memory.access \/ memory = Empty
  /\ n >= 2 => writes[n - 1].key = "access" /\ writes[n - 1].value = memory.access

\* What the start holds: nothing yet, a session it asks for, or nothing any more.
BootHolds ==
  /\ calls["boot"].pc = "restoring" =>
       memory = Empty /\ writes = <<>> /\ (Restorable => Whole(disk))
  /\ calls["boot"].pc = "storing" => memory = Empty
  /\ calls["boot"].pc \in {"sent", "answered", "waiting"} => Whole(memory)
  /\ calls["boot"].pc = "sent" \/ (Answered("boot") /\ calls["boot"].answer = "ok") =>
       Same(calls["boot"].token)

LoginHolds ==
  calls["login"].pc = "storing" =>
    Same(calls["login"].token) /\ \A c \in SignOuts : ~Busy(c)

\* The screen and the tokens are those of one session; a sign-out clears the tokens first.
ScreenShows ==
  /\ memory = Empty \/ Whole(memory)
  /\ ~screen.booting /\ screen.user = None /\ calls["login"].pc # "storing" => memory = Empty
  /\ screen.user # None =>
       \/ Whole(memory) /\ sessionOf[memory.access] = screen.user
       \/ memory = Empty /\ \E c \in SignOuts : calls[c].pc = "storing"
  /\ \A c \in SignOuts : calls[c].pc = "storing" => memory = Empty

\* A refresh spends the token memory holds, for another of its session.
RefreshHolds ==
  refreshing.pc \in {"sent", "answered"} =>
    /\ Whole(memory) /\ memory.refresh = refreshing.spends
    /\ refreshing.got # None => Same(refreshing.got)

Agreed ==
  /\ calls["boot"].pc # "restoring" => Follows
  /\ BootHolds /\ LoginHolds /\ ScreenShows /\ RefreshHolds

\* The inductive strengthening of SignOutIsFinal and ShownIsHeld.
Agreeing == Careful /\ Numbered /\ Phases /\ (~crossed => Agreed)

\* Tokens keep their sessions.
Ages ==
  /\ issued \in Nat /\ issued' \in Nat /\ issued <= issued'
  /\ \A u \in 1..issued : sessionOf'[u] = sessionOf[u]

LEMMA AgesWhole ==
  ASSUME Ages, NEW pair, WholeIn(pair, issued, sessionOf)
  PROVE  WholeIn(pair, issued', sessionOf')
BY DEF Ages, WholeIn

LEMMA AgesSame ==
  ASSUME Ages, NEW t, Same(t), memory' = memory
  PROVE  Same(t)'
BY AgesWhole DEF Ages, Same, Whole, WholeIn

LEMMA GrowsAges == ASSUME Typed, Grows PROVE Ages
BY TypeParts DEF Typed, ServerTyped, Grows, Ages

LEMMA IssueNumbers ==
  ASSUME ServerTyped, NEW t \in Tokens, Issue(t), t = None \/ t \in 1..issued,
         \A u \in 1..issued : sessionOf[u] \in 1..issued
  PROVE  Ages /\ \A u \in 1..issued' : sessionOf'[u] \in 1..issued'
<1>1. issued \in Nat /\ issued + 1 \in Pairs /\ issued' = issued + 1 /\ sessionOf \in [Pairs -> Tokens]
      /\ \A u \in 1..issued : sessionOf'[u] = sessionOf[u]
  BY IssueTyped DEF ServerTyped
<1>2. sessionOf'[issued + 1] = IF t = None THEN issued + 1 ELSE t
  BY <1>1 DEF Issue
<1>3. \A u \in 1..issued' : u \in 1..issued \/ u = issued + 1
  BY <1>1
<1> QED BY <1>1, <1>2, <1>3 DEF Ages, None

\* How the backend's tokens grow, whatever the step.
LEMMA NextAges ==
  ASSUME Careful, Numbered, Next
  PROVE  Ages /\ \A u \in 1..issued' : sessionOf'[u] \in 1..issued'
<1>1. Typed /\ Issued /\ ServerTyped /\ Named
  BY TypeParts DEF Careful, Safe, Typed
<1>2. CASE UNCHANGED <<issued, sessionOf>>
  BY <1>1, <1>2 DEF Ages, ServerTyped, Numbered
<1>3. CASE Issue(None)
  BY <1>1, <1>3, IssueNumbers, Constants DEF Numbered
<1>4. ASSUME NEW answered \in BOOLEAN, Rotate(answered)
      PROVE  Ages /\ \A u \in 1..issued' : sessionOf'[u] \in 1..issued'
  <2>1. Issue(sessionOf[refreshing.spends]) /\ refreshing.spends \in Pairs /\ refreshing.spends <= issued
    BY <1>1, <1>4 DEF Rotate, Spend, Named, Issued
  <2>2. refreshing.spends \in 1..issued
    BY <1>1, <2>1 DEF Pairs, ServerTyped
  <2>3. sessionOf[refreshing.spends] \in 1..issued /\ sessionOf[refreshing.spends] \in Tokens
    BY <1>1, <2>1, <2>2 DEF Numbered, ServerTyped
  <2> QED BY <1>1, <2>1, <2>3, IssueNumbers DEF Numbered
<1>5. ASSUME NEW c \in Callers, Effect(c) PROVE Issue(None) \/ UNCHANGED <<issued, sessionOf>>
  BY <1>5 DEF Effect, Grant, Revoke, server
<1>6. Asks \/ Write \/ WriteFails \/ Kill => UNCHANGED <<issued, sessionOf>>
  BY DEF Asks, SignIn, Fetch, SignOut, Write, WriteFails, Kill, server
<1>7. RefuseRefresh \/ RefreshCallFails \/ KeepRefreshed \/ Refreshed \/ RefreshFails => UNCHANGED <<issued, sessionOf>>
  BY DEF Punish, RefuseRefresh, RefreshCallFails, KeepRefreshed, Refreshed, RefreshFails, server
<1>8. ASSUME NEW c \in Callers, Step(c) \/ AnswerLost(c)
      PROVE  Issue(None) \/ UNCHANGED <<issued, sessionOf>>
  <2>1. CASE Accept(c) \/ AnswerLost(c)
    BY <1>5, <2>1 DEF Accept, AnswerLost
  <2>2. CASE Refuse(c) \/ CallFails(c)
    BY <2>2 DEF Refuse, Expire, CallFails, server
  <2>3. CASE Join(c) \/ Receive(c) \/ RestoreNothing \/ RestoreTokens
            \/ BootSucceeds \/ BootFindsNobody \/ BootFails
    BY <2>3 DEF Join, Receive, RestoreNothing, RestoreTokens, BootSucceeds, BootFindsNobody, BootFails, server
  <2>4. CASE SignInSucceeds \/ SignInFails \/ SignOutClears(c) \/ Stored(c)
    BY <2>4 DEF SignInSucceeds, SignInFails, SignOutClears, Stored, server
  <2> QED BY <1>8, <2>1, <2>2, <2>3, <2>4 DEF Step
<1> QED BY <1>2, <1>3, <1>4, <1>6, <1>7, <1>8 DEF Next, Works, Goes, Refreshes

\* A sign-in stores the token it was answered.
LEMMA NumberedKept == ASSUME Careful, Numbered, Next PROVE Numbered'
<1>1. Typed /\ Issued /\ ServerTyped /\ ClientTyped /\ StoreTyped /\ Named
  BY TypeParts DEF Careful, Safe, Typed
<1>2. Ages /\ \A u \in 1..issued' : sessionOf'[u] \in 1..issued'
  BY NextAges
<1>3. disk.access \in Nat /\ \A v \in Nat : v <= issued => v <= issued'
  BY <1>1, <1>2 DEF StoreTyped, Pair, Tokens, Ages
<1> DEFINE Signs(i) == writes[i].by = "login" => writes[i].value # None
<1>4. disk.access <= issued'
  BY <1>3 DEF Numbered
<1>5. ASSUME UNCHANGED <<disk, writes>> PROVE Numbered'
  BY <1>2, <1>4, <1>5 DEF Numbered
<1>6. ASSUME NEW p \in Pair, NEW by \in Callers \cup {"refresh"}, Keep(p, by), disk' = disk,
             by = "login" => p.access # None /\ p.refresh # None
      PROVE  Numbered'
  <2>1. PICK n \in Nat :
        /\ DOMAIN writes = 1..n /\ DOMAIN writes' = 1..(n + 2)
        /\ \A i \in 1..n : writes'[i] = writes[i]
        /\ writes'[n + 1].value = p.access /\ writes'[n + 2].value = p.refresh
        /\ writes'[n + 1].by = by /\ writes'[n + 2].by = by
    BY <1>1, <1>6, KeepWrites
  <2>2. ASSUME NEW i \in 1..(n + 2) PROVE Signs(i)'
    <3>1. i \in 1..n \/ i = n + 1 \/ i = n + 2
      OBVIOUS
    <3> QED BY <1>6, <2>1, <3>1 DEF Numbered
  <2> QED BY <1>2, <1>4, <1>6, <2>1, <2>2 DEF Numbered
<1>7. ASSUME writes # <<>>, writes' = Tail(writes),
             disk' = disk \/ disk' = [disk EXCEPT ![Head(writes).key] = Head(writes).value]
      PROVE  Numbered'
  <2>1. PICK n \in Nat :
        /\ DOMAIN writes = 1..n /\ DOMAIN writes' = 1..(n - 1) /\ n >= 1 /\ Head(writes) = writes[1]
        /\ \A i \in 1..(n - 1) : writes'[i] = writes[i + 1]
    BY <1>1, <1>7, TailWrites
  <2>2. \A i \in 1..(n - 1) : Signs(i)'
    BY <2>1 DEF Numbered
  <2>3. Head(writes) \in WriteCall /\ Head(writes).value \in Nat /\ Head(writes).value <= issued
    BY <1>1, <1>7, <2>1, TailTyped, WriteAt DEF Issued
  <2>4. disk'.access \in {disk.access, Head(writes).value}
    BY <1>1, <1>7, <2>3 DEF StoreTyped, WriteCall, Pair
  <2>5. disk'.access <= issued'
    BY <1>3, <1>4, <2>3, <2>4
  <2> QED BY <1>2, <2>1, <2>2, <2>5 DEF Numbered
<1>8. CASE KeepRefreshed
  BY <1>1, <1>6, <1>8, Records DEF KeepRefreshed, ClientTyped, Refresh
<1>9. CASE SignInSucceeds
  <2>1. calls["login"].token \in Pairs
    BY <1>1, <1>9 DEF SignInSucceeds, Answered, Named
  <2> QED BY <1>6, <1>9, <2>1, Records, Constants DEF SignInSucceeds, Held, Pairs, None
<1>10. ASSUME NEW c \in Callers, c # "login", Keep(Empty, c), disk' = disk PROVE Numbered'
  BY <1>6, <1>10, Records
<1>11. CASE Write \/ WriteFails
  BY <1>7, <1>11 DEF Write, WriteFails
<1>12. CASE Kill
  BY <1>2, <1>4, <1>12 DEF Kill, Numbered
<1>13. Asks \/ (\E c \in Callers : AnswerLost(c)) => UNCHANGED <<disk, writes>>
  BY DEF Asks, SignIn, Fetch, SignOut, AnswerLost, store
<1>14. Refreshes \/ Rotate(FALSE) => KeepRefreshed \/ UNCHANGED <<disk, writes>>
  BY DEF Refreshes, Rotate, RefuseRefresh, RefreshCallFails, Refreshed, RefreshFails, store
<1>15. ASSUME NEW c \in Callers, Step(c) PROVE Numbered'
  <2>1. CASE Accept(c) \/ Refuse(c) \/ CallFails(c) \/ Join(c) \/ Receive(c) \/ Stored(c)
    BY <1>5, <2>1 DEF Accept, Refuse, CallFails, Join, Receive, Stored, store
  <2>2. CASE RestoreNothing \/ RestoreTokens \/ BootSucceeds \/ BootFindsNobody \/ SignInFails
    BY <1>5, <2>2 DEF RestoreNothing, RestoreTokens, BootSucceeds, BootFindsNobody, SignInFails, store
  <2>3. CASE (c = "boot" /\ BootFails) \/ (c \in SignOuts /\ SignOutClears(c))
    BY <1>10, <2>3, Constants DEF BootFails, SignOutClears
  <2> QED BY <1>9, <1>15, <2>1, <2>2, <2>3 DEF Step
<1> QED BY <1>5, <1>8, <1>11, <1>12, <1>13, <1>14, <1>15 DEF Next, Works, Goes

\* Steps that leave the screen alone, and who is under way.
LEMMA PhasesStay ==
  ASSUME Phases, screen' = screen,
         \A c \in Callers : Busy(c)' => Busy(c), Busy("boot") => Busy("boot")',
         refreshing'.pc # "idle" =>
           \/ calls'["boot"].pc = "waiting"
           \/ ~Busy("boot")
           \/ refreshing.pc # "idle" /\ (calls["boot"].pc = "waiting" => calls'["boot"].pc = "waiting")
  PROVE  Phases'
BY Constants DEF Phases, Busy

LEMMA AsksPhases == ASSUME Typed, Phases, Asks PROVE Phases'
<1>1. ClientTyped /\ screen \in Screen
  BY TypeParts DEF Typed
<1>2. CASE SignIn
  BY <1>1, <1>2, Constants DEF SignIn, Phases, Busy, ClientTyped, Sent, Screen
<1>3. ASSUME NEW c \in Requests, Fetch(c) PROVE Phases'
  <2>1. c # "boot" /\ c # "login" /\ ~screen.booting /\ UNCHANGED <<screen, refreshing>>
    BY <1>3, SessionConstants DEF Phases, Fetch
  <2>2. \A d \in Callers : d # c => calls'[d] = calls[d]
    BY <1>1, <1>3 DEF Fetch, ClientTyped
  <2> QED BY <2>1, <2>2, Constants DEF Phases, Busy
<1>4. ASSUME NEW c \in SignOuts, SignOut(c) PROVE Phases'
  <2>1. c # "boot" /\ c # "login" /\ ~screen.booting /\ refreshing' = refreshing
        /\ screen'.booting = screen.booting /\ screen'.user = screen.user
    BY <1>1, <1>4, SessionConstants DEF Phases, SignOut, Screen
  <2>2. \A d \in Callers : d # c => calls'[d] = calls[d]
    BY <1>1, <1>4 DEF SignOut, ClientTyped
  <2> QED BY <2>1, <2>2, Constants DEF Phases, Busy
<1> QED BY <1>2, <1>3, <1>4 DEF Asks

LEMMA StepPhases == ASSUME Typed, Phases, NEW c \in Callers, Step(c) \/ AnswerLost(c) PROVE Phases'
<1>1. ClientTyped /\ screen \in Screen
  BY TypeParts DEF Typed
<1>2. ASSUME UNCHANGED <<screen, refreshing>>, calls[c].pc \notin {"idle", "waiting"},
             c = "boot" => calls'[c].pc # "idle",
             \A d \in Callers : d # c => calls'[d] = calls[d]
      PROVE  Phases'
  BY <1>2, PhasesStay, Constants DEF Busy
<1>3. ASSUME NEW a \in {"ok", "refused", "failed"}, NEW u \in Tokens, Answer(c, a, u),
             UNCHANGED <<screen, refreshing>>, calls[c].pc = "sent"
      PROVE  Phases'
  BY <1>1, <1>2, <1>3, AnswerTyped
<1>4. ASSUME End(c), c # "boot", UNCHANGED <<screen, refreshing>>, calls[c].pc \in {"sent", "answered"}
      PROVE  Phases'
  BY <1>1, <1>2, <1>4, EndTyped
<1>5. ASSUME To(c, "storing"), UNCHANGED <<screen, refreshing>>, calls[c].pc = "answered"
      PROVE  Phases'
  BY <1>1, <1>2, <1>5, ToTyped
<1>6. calls[c].token \in Tokens /\ None \in Tokens
  BY <1>1, Constants DEF ClientTyped, Call
<1>7. CASE Accept(c) \/ AnswerLost(c)
  <2>1. calls[c].pc = "sent" /\ Effect(c) /\ UNCHANGED <<screen, refreshing>>
    BY <1>7 DEF Accept, AnswerLost
  <2>2. c = "login" => issued + 1 \in Tokens
    BY <2>1, EffectTyped, TypeParts DEF Typed
  <2> DEFINE u == IF c = "login" THEN issued + 1 ELSE calls[c].token
  <2>3. u \in Tokens
    BY <1>6, <2>2
  <2>4. (End(c) /\ c \in Requests) \/ Answer(c, "ok", u) \/ Answer(c, "failed", None)
    BY <1>7 DEF Accept, AnswerLost
  <2> HIDE DEF u
  <2> QED BY <1>3, <1>4, <1>6, <2>1, <2>3, <2>4, SessionConstants
<1>8. CASE Refuse(c) \/ CallFails(c)
  BY <1>3, <1>4, <1>6, <1>8, SessionConstants DEF Refuse, CallFails
<1>9. CASE c \in Requests \cup {"boot"} /\ Join(c)
  <2>1. /\ screen' = screen /\ calls[c].pc = "answered" /\ calls'[c].pc = "waiting"
        /\ \A d \in Callers : d # c => calls'[d] = calls[d]
    BY <1>1, <1>9, ToTyped DEF Join, Retries, Answered
  <2>2. c # "boot" => ~Busy("boot")
    BY <2>1 DEF Phases, Busy
  <2> QED BY <2>1, <2>2, PhasesStay, Constants DEF Busy
<1>10. CASE c \in Requests /\ Receive(c)
  BY <1>4, <1>10, SessionConstants DEF Receive, Answered
<1>11. CASE c = "boot" /\ RestoreTokens
  BY <1>1, <1>2, <1>11 DEF RestoreTokens, ClientTyped, Sent
<1>12. CASE c = "boot" /\ (RestoreNothing \/ BootSucceeds \/ BootFindsNobody)
  <2>1. Busy("boot") /\ End("boot") /\ ~screen'.booting /\ refreshing' = refreshing
    BY <1>12 DEF RestoreNothing, BootSucceeds, BootFindsNobody, Answered, Busy, SignedOut
  <2>2. calls'["boot"].pc = "idle" /\ \A d \in Callers : d # "boot" => calls'[d] = calls[d]
    BY <1>1, <1>12, <2>1, EndTyped
  <2> QED BY <2>1, <2>2, Constants DEF Phases, Busy
<1>13. CASE (c = "boot" /\ BootFails) \/ (c = "login" /\ SignInSucceeds) \/ (c \in SignOuts /\ SignOutClears(c))
  BY <1>5, <1>13 DEF BootFails, SignInSucceeds, SignOutClears, Answered
<1>14. CASE c = "login" /\ SignInFails
  <2>1. Busy("login") /\ calls'["login"].pc = "idle" /\ \A d \in Callers : d # "login" => calls'[d] = calls[d]
    BY <1>1, <1>14, EndTyped DEF SignInFails, Answered, Busy
  <2>2. screen'.booting = screen.booting /\ screen'.user = screen.user /\ refreshing' = refreshing
    BY <1>1, <1>14 DEF SignInFails, Screen
  <2> QED BY <2>1, <2>2, Constants DEF Phases, Busy
<1>15. CASE c \notin Requests /\ Stored(c)
  <2>1. Busy(c) /\ calls'[c].pc = "idle" /\ \A d \in Callers : d # c => calls'[d] = calls[d]
    BY <1>1, <1>15, EndTyped DEF Stored, Busy
  <2>2. /\ refreshing' = refreshing
        /\ c = "login" => screen'.booting = screen.booting
        /\ c # "login" => ~screen'.booting /\ screen'.user = None
    BY <1>1, <1>15 DEF Stored, SignedOut, Screen
  <2> QED BY <2>1, <2>2, Constants DEF Phases, Busy
<1> QED BY <1>7, <1>8, <1>9, <1>10, <1>11, <1>12, <1>13, <1>14, <1>15 DEF Step

LEMMA SettlePhases ==
  ASSUME Typed, Phases, NEW ok \in BOOLEAN, Settle(ok), screen' = screen PROVE Phases'
<1>1. refreshing'.pc = "idle"
  BY DEF Settle, NoRefresh
<1>2. \A c \in Callers : calls[c].pc # "waiting" => calls'[c] = calls[c]
  BY DEF Settle
<1>3. "boot" \notin Requests
  BY SessionConstants
<1>4. calls["boot"].pc = "waiting" => calls'["boot"].pc # "idle"
  <2>1. calls["boot"] \in Call
    BY TypeParts, Constants DEF Typed, ClientTyped
  <2> QED BY <1>3, <2>1, Constants DEF Settle, Sent, Call
<1> QED BY <1>1, <1>2, <1>4, PhasesStay, Constants DEF Busy

LEMMA PhasesKept == ASSUME Typed, Phases, Next PROVE Phases'
<1>1. ClientTyped /\ screen \in Screen
  BY TypeParts DEF Typed
<1>2. ASSUME UNCHANGED <<calls, screen>>, refreshing'.pc # "idle" => refreshing.pc # "idle" PROVE Phases'
  BY <1>2, PhasesStay DEF Busy
<1>3. CASE Refreshes \/ Rotate(FALSE)
  <2>1. CASE \E answered \in BOOLEAN : Rotate(answered)
    BY <1>2, <2>1 DEF Rotate
  <2>2. CASE RefuseRefresh \/ RefreshCallFails \/ KeepRefreshed
    BY <1>2, <2>2 DEF RefuseRefresh, RefreshCallFails, KeepRefreshed
  <2>3. CASE Refreshed \/ RefreshFails
    BY <2>3, SettlePhases DEF Refreshed, RefreshFails
  <2> QED BY <1>3, <2>1, <2>2, <2>3 DEF Refreshes
<1>4. CASE Write
  BY <1>2, <1>4 DEF Write, client
<1>5. CASE WriteFails
  <2>1. CASE Settle(FALSE) /\ UNCHANGED screen
    BY <2>1, SettlePhases
  <2>2. CASE /\ calls["login"].pc = "storing" /\ End("login")
             /\ screen' = [screen EXCEPT !.submitting = FALSE] /\ refreshing' = refreshing
    <3>1. calls'["login"].pc = "idle" /\ \A d \in Callers : d # "login" => calls'[d] = calls[d]
      BY <1>1, <2>2, EndTyped, Constants
    <3>2. screen'.booting = screen.booting /\ screen'.user = screen.user
      BY <1>1, <2>2 DEF Screen
    <3> QED BY <2>2, <3>1, <3>2, Constants DEF Phases, Busy
  <2>3. CASE UNCHANGED <<calls, screen, refreshing>>
    BY <1>2, <2>3
  <2> QED BY <1>5, <2>1, <2>2, <2>3 DEF WriteFails
<1>6. CASE Kill
  BY <1>6, Constants DEF Kill, Phases, Busy, AtBoot, NoRefresh, Idle
<1> QED BY <1>3, <1>4, <1>5, <1>6, AsksPhases, StepPhases DEF Next, Works, Goes

-----------------------------------------------------------------------------
(* What is still to be written.                                            *)

LEMMA LenOf ==
  ASSUME NEW S, NEW s \in Seq(S), NEW n \in Nat, DOMAIN s = 1..n
  PROVE  Len(s) = n
OBVIOUS

LEMMA KeepFollows ==
  ASSUME StoreTyped, NEW p \in Pair, NEW by \in Callers \cup {"refresh"}, Keep(p, by)
  PROVE  Follows' /\ memory' = p
<1>1. PICK n \in Nat :
      /\ memory' = p /\ DOMAIN writes' = 1..(n + 2)
      /\ writes'[n + 1].key = "access" /\ writes'[n + 1].value = p.access
      /\ writes'[n + 2].key = "refresh" /\ writes'[n + 2].value = p.refresh
  BY KeepWrites
<1>2. Len(writes') = n + 2
  <2>1. writes' \in Seq(WriteCall) /\ n + 2 \in Nat
    BY KeepTyped
  <2> QED BY <1>1, <2>1, LenOf
<1> QED BY <1>1, <1>2 DEF Follows

\* The first write is done, or it was a delete that failed and not both did.
LEMMA TailFollows ==
  ASSUME StoreTyped, memory \in Pair, Follows, memory = Empty \/ Whole(memory),
         writes # <<>>, writes' = Tail(writes), memory' = memory,
         \/ disk' = [disk EXCEPT ![Head(writes).key] = Head(writes).value]
         \/ /\ disk' = disk /\ Head(writes).value = None
            /\ ~(Head(writes).key = "refresh" /\ disk.access # None)
  PROVE  Follows'
<1>1. PICK n \in Nat :
      /\ n = Len(writes) /\ n >= 1 /\ DOMAIN writes' = 1..(n - 1) /\ Head(writes) = writes[1]
      /\ \A i \in 1..(n - 1) : writes'[i] = writes[i + 1]
  BY TailWrites
<1>2. Len(writes') = n - 1
  <2>1. writes' \in Seq(WriteCall) /\ n - 1 \in Nat
    BY <1>1, TailTyped
  <2> QED BY <1>1, <2>1, LenOf
<1>3. disk \in Pair /\ Head(writes) \in WriteCall
  BY TailTyped DEF StoreTyped
<1>4. CASE n = 1
  <2>1. /\ writes[1].key = "refresh" /\ writes[1].value = memory.refresh
        /\ disk.access = memory.access \/ memory = Empty
    BY <1>1, <1>4 DEF Follows
  <2>2. disk' = memory \/ (memory = Empty /\ (disk'.access = None \/ disk'.refresh = None))
    <3>1. CASE disk' = [disk EXCEPT ![Head(writes).key] = Head(writes).value]
      <4>1. disk'.access = disk.access /\ disk'.refresh = memory.refresh /\ disk' \in Pair
        BY <1>1, <1>3, <2>1, <3>1 DEF Pair, WriteCall
      <4>2. CASE memory = Empty
        BY <4>1, <4>2 DEF Empty
      <4>3. CASE memory # Empty
        BY <2>1, <4>1, <4>3 DEF Pair
      <4> QED BY <4>2, <4>3
    <3>2. CASE /\ disk' = disk /\ Head(writes).value = None
               /\ ~(Head(writes).key = "refresh" /\ disk.access # None)
      <4>1. memory.refresh = None /\ disk.access = None
        BY <1>1, <2>1, <3>2
      <4>2. memory = Empty
        BY <4>1 DEF Whole, WholeIn, None
      <4> QED BY <3>2, <4>1, <4>2
    <3> QED BY <3>1, <3>2
  <2>3. Len(writes') = 0
    BY <1>2, <1>4
  <2>4. memory' = memory
    OBVIOUS
  <2> QED BY ONLY <2>2, <2>3, <2>4 DEF Follows, Restorable, None
<1>5. CASE n = 2
  <2>1. /\ writes[2].key = "refresh" /\ writes[2].value = memory.refresh
        /\ writes[1].key = "access" /\ writes[1].value = memory.access
    BY <1>1, <1>5 DEF Follows
  <2>2. writes'[1] = writes[2] /\ Len(writes') = 1
    BY <1>1, <1>2, <1>5
  <2>3. disk'.access = memory.access \/ memory = Empty
    BY <1>1, <1>3, <2>1 DEF Pair, Whole, WholeIn, None
  <2> QED BY <2>1, <2>2, <2>3 DEF Follows
<1>6. CASE n >= 3
  <2>1. writes'[n - 1] = writes[n] /\ writes'[n - 2] = writes[n - 1]
    BY <1>1, <1>6
  <2>2. /\ writes[n].key = "refresh" /\ writes[n].value = memory.refresh
        /\ writes[n - 1].key = "access" /\ writes[n - 1].value = memory.access
    BY <1>1, <1>6 DEF Follows
  <2>3. PICK m \in Nat : m = Len(writes') /\ m >= 2 /\ writes'[m] = writes[n] /\ writes'[m - 1] = writes[n - 1]
    <3>1. n - 1 \in Nat /\ n - 1 >= 2 /\ (n - 1) - 1 = n - 2
      BY <1>6
    <3> QED BY <1>2, <2>1, <3>1
  <2> QED BY <2>2, <2>3 DEF Follows
<1> QED BY <1>1, <1>4, <1>5, <1>6

LEMMA FollowsStay == ASSUME Follows, UNCHANGED <<memory, disk, writes>> PROVE Follows'
BY DEF Follows, Restorable
-----------------------------------------------------------------------------
(* Memory, storage and screen agree.                                       *)

\* A session the start asks for.
Asking == calls["boot"].pc = "sent" \/ (Answered("boot") /\ calls["boot"].answer = "ok")

\* What a step must show of the calls, the refresh and the screen when it leaves memory alone.
LEMMA TokensStay ==
  ASSUME Agreed, Ages, memory' = memory, Follows',
         calls["boot"].pc # "restoring", calls'["boot"].pc # "restoring",
         calls'["boot"].pc = "storing" => calls["boot"].pc = "storing",
         calls'["boot"].pc \in {"sent", "answered", "waiting"} =>
           calls["boot"].pc \in {"sent", "answered", "waiting"},
         Asking' => \/ calls'["boot"].token = memory.access
                    \/ Asking /\ calls'["boot"].token = calls["boot"].token,
         calls'["login"].pc = "storing" =>
           calls'["login"] = calls["login"] /\ \A c \in SignOuts : Busy(c)' => Busy(c),
         ~screen'.booting /\ screen'.user = None /\ calls'["login"].pc # "storing" => memory = Empty,
         screen'.user # None =>
           \/ Whole(memory) /\ sessionOf[memory.access] = screen'.user
           \/ memory = Empty /\ \E c \in SignOuts : calls'[c].pc = "storing",
         \A c \in SignOuts : calls'[c].pc = "storing" => memory = Empty,
         refreshing'.pc \in {"sent", "answered"} =>
           /\ Whole(memory) /\ memory.refresh = refreshing'.spends
           /\ refreshing'.got # None => Same(refreshing.got)'
  PROVE  Agreed'
<1>1. Whole(memory) => Whole(memory)' /\ sessionOf'[memory.access] = sessionOf[memory.access]
  BY AgesWhole DEF Ages, Whole, WholeIn
<1>2. Whole(memory) => Same(memory.access)'
  BY <1>1 DEF Whole, WholeIn, Same
<1>3. BootHolds'
  <2>1. calls'["boot"].pc \in {"sent", "answered", "waiting"} => Whole(memory)'
    BY <1>1 DEF Agreed, BootHolds
  <2>2. calls'["boot"].pc = "storing" => memory' = Empty
    BY DEF Agreed, BootHolds
  <2>3. Asking' => Same(calls["boot"].token)'
    <3>1. CASE Asking /\ calls'["boot"].token = calls["boot"].token
      <4>1. Same(calls["boot"].token)
        BY <3>1 DEF Agreed, BootHolds, Asking
      <4>2. \A t : Same(t) => t \in 1..issued' /\ sessionOf'[t] = sessionOf'[memory'.access] /\ Whole(memory)'
        BY <1>1 DEF Same, Ages
      <4> QED BY <3>1, <4>1, <4>2 DEF Same
    <3>2. CASE Asking' /\ calls'["boot"].token = memory.access
      <4>1. Whole(memory)
        BY <3>2 DEF Asking, Answered, Agreed, BootHolds
      <4> QED BY <1>2, <3>2, <4>1
    <3> QED BY <3>1, <3>2
  <2> QED BY <2>1, <2>2, <2>3 DEF BootHolds, Asking
<1>4. LoginHolds'
  <2> SUFFICES ASSUME calls'["login"].pc = "storing"
               PROVE  Same(calls["login"].token)' /\ \A c \in SignOuts : ~Busy(c)'
    BY DEF LoginHolds
  <2>1. Same(calls["login"].token) /\ \A c \in SignOuts : ~Busy(c)'
    BY DEF Agreed, LoginHolds
  <2>2. \A t : Same(t) => t \in 1..issued' /\ sessionOf'[t] = sessionOf'[memory'.access] /\ Whole(memory)'
    BY <1>1 DEF Same, Ages
  <2> QED BY <2>1, <2>2 DEF Same
<1>5. ScreenShows'
  BY <1>1 DEF Agreed, ScreenShows
<1>6. RefreshHolds'
  BY <1>1 DEF RefreshHolds
<1> QED BY <1>3, <1>4, <1>5, <1>6 DEF Agreed

\* Nobody has changed the tokens across another, before this step or in it.
Smooth == Agreeing /\ ~crossed /\ ~crossed'

LEMMA SmoothFacts ==
  ASSUME Smooth
  PROVE  /\ Typed /\ Issued /\ ServerTyped /\ ClientTyped /\ StoreTyped /\ screen \in Screen /\ Named
         /\ Numbered /\ Phases /\ Agreed
BY TypeParts DEF Smooth, Agreeing, Careful, Safe, Typed

LEMMA SmoothAges ==
  ASSUME Smooth, Next
  PROVE  Ages
BY NextAges DEF Smooth, Agreeing

\* What is asked for holds nothing yet.
LEMMA AsksAgree == ASSUME Smooth, Asks PROVE Agreed'
<1> USE SmoothFacts, Constants
<1>1. Ages
  BY SmoothAges DEF Next
<1>2. UNCHANGED <<memory, refreshing, disk, writes>> /\ screen'.user = screen.user
      /\ screen'.booting = screen.booting /\ ~screen.booting
  BY DEF Asks, SignIn, Fetch, SignOut, store, Screen, Phases
<1>3. ~Busy("boot") /\ ~Asking
  BY <1>2 DEF Phases, Busy, Asking, Answered
<1>4. PICK c \in Callers :
      /\ c # "boot" /\ ~Busy(c) /\ calls'[c].pc = "sent"
      /\ c = "login" => ~Busy("login")
      /\ c # "login" => screen.user # None
      /\ \A d \in Callers : d # c => calls'[d] = calls[d]
  BY SessionConstants DEF Asks, SignIn, Fetch, SignOut, ClientTyped, Sent
<1>5. Follows' /\ calls["boot"].pc = "idle" /\ calls'["boot"].pc = "idle"
  BY <1>2, <1>3, <1>4, FollowsStay DEF Agreed, Busy
<1>6. calls'["login"].pc = "storing" =>
        calls'["login"] = calls["login"] /\ \A d \in SignOuts : Busy(d)' => Busy(d)
  BY <1>4 DEF Phases, Busy
<1>7. \A d \in SignOuts : calls'[d].pc = "storing" <=> calls[d].pc = "storing"
  BY <1>4 DEF Busy
<1>8. /\ ~screen'.booting /\ screen'.user = None /\ calls'["login"].pc # "storing" => memory = Empty
      /\ screen'.user # None =>
           \/ Whole(memory) /\ sessionOf[memory.access] = screen'.user
           \/ memory = Empty /\ \E d \in SignOuts : calls'[d].pc = "storing"
      /\ \A d \in SignOuts : calls'[d].pc = "storing" => memory = Empty
  BY <1>2, <1>4, <1>6, <1>7 DEF Agreed, ScreenShows, Busy
<1>9. refreshing'.pc \in {"sent", "answered"} =>
        /\ Whole(memory) /\ memory.refresh = refreshing'.spends
        /\ refreshing'.got # None => Same(refreshing.got)'
  BY <1>1, <1>2, AgesSame DEF Agreed, RefreshHolds
<1>10. ~Asking'
  BY <1>5 DEF Asking, Answered
<1> QED BY <1>1, <1>2, <1>5, <1>6, <1>8, <1>9, <1>10, TokensStay
\* A call that was sent or answered goes on, or ends.
LEMMA CallAgrees ==
  ASSUME Smooth, Ages, UNCHANGED <<memory, disk, writes, screen>>,
         NEW c \in Callers, calls[c].pc \in {"sent", "answered"},
         calls'[c].pc \in {"answered", "waiting", "idle"},
         \A d \in Callers : d # c => calls'[d] = calls[d],
         c = "boot" /\ Asking' => Asking /\ calls'["boot"].token = calls["boot"].token,
         \/ refreshing' = refreshing
         \/ Whole(memory) /\ memory.refresh = refreshing'.spends /\ refreshing'.got = None
  PROVE  Agreed'
<1> USE SmoothFacts, Constants
<1>1. Follows' /\ calls["boot"].pc # "restoring" /\ calls'["boot"].pc # "restoring"
  <2>1. c = "boot" \/ ~Busy("boot")
    BY DEF Phases, Busy
  <2> QED BY <2>1, FollowsStay DEF Agreed, Busy
<1>2. calls'["boot"].pc = "storing" => calls["boot"].pc = "storing"
  OBVIOUS
<1>3. calls'["boot"].pc \in {"sent", "answered", "waiting"} => calls["boot"].pc \in {"sent", "answered", "waiting"}
  OBVIOUS
<1>4. Asking' => Asking /\ calls'["boot"].token = calls["boot"].token
  BY DEF Asking, Answered
<1>5. calls'["login"].pc = "storing" =>
        calls'["login"] = calls["login"] /\ \A d \in SignOuts : Busy(d)' => Busy(d)
  BY DEF Busy
<1>6. \A d \in SignOuts : calls'[d].pc = "storing" <=> calls[d].pc = "storing"
  OBVIOUS
<1>7. calls'["login"].pc = "storing" <=> calls["login"].pc = "storing"
  OBVIOUS
<1>8. /\ ~screen'.booting /\ screen'.user = None /\ calls'["login"].pc # "storing" => memory = Empty
      /\ screen'.user # None =>
           \/ Whole(memory) /\ sessionOf[memory.access] = screen'.user
           \/ memory = Empty /\ \E d \in SignOuts : calls'[d].pc = "storing"
      /\ \A d \in SignOuts : calls'[d].pc = "storing" => memory = Empty
  BY <1>6, <1>7 DEF Agreed, ScreenShows
<1>9. refreshing'.pc \in {"sent", "answered"} =>
        /\ Whole(memory) /\ memory.refresh = refreshing'.spends
        /\ refreshing'.got # None => Same(refreshing.got)'
  BY AgesSame DEF Agreed, RefreshHolds
<1> QED BY <1>1, <1>2, <1>3, <1>4, <1>5, <1>8, <1>9, TokensStay

LEMMA AnswersAgree ==
  ASSUME Smooth, NEW c \in Callers, Step(c) \/ AnswerLost(c),
         Accept(c) \/ Refuse(c) \/ CallFails(c) \/ AnswerLost(c)
  PROVE  Agreed'
<1> USE SmoothFacts, Constants
<1>1. Ages
  BY SmoothAges DEF Next, Works, Goes
<1>2. UNCHANGED <<memory, refreshing, disk, writes, screen>> /\ calls[c].pc = "sent"
  BY DEF Accept, Refuse, CallFails, AnswerLost, store
<1>3. CASE End(c) /\ c \in Requests
  <2>1. calls'[c].pc = "idle" /\ (\A d \in Callers : d # c => calls'[d] = calls[d]) /\ c # "boot"
    BY <1>3, EndTyped, SessionConstants
  <2> QED BY <1>1, <1>2, <2>1, CallAgrees
<1>4. ASSUME NEW a \in {"ok", "refused", "failed"}, NEW u \in Tokens, Answer(c, a, u),
             a = "ok" /\ c = "boot" => u = calls[c].token
      PROVE  Agreed'
  <2>1. /\ calls'[c].pc = "answered" /\ calls'[c].answer = a /\ calls'[c].token = u
        /\ \A d \in Callers : d # c => calls'[d] = calls[d]
    BY <1>4, AnswerTyped
  <2>2. c = "boot" /\ Asking' => Asking /\ calls'["boot"].token = calls["boot"].token
    BY <1>2, <1>4, <2>1 DEF Asking, Answered
  <2> QED BY <1>1, <1>2, <2>1, <2>2, CallAgrees
<1>5. calls[c].token \in Tokens /\ None \in Tokens
  BY DEF ClientTyped, Call
<1>6. CASE Accept(c) /\ c \notin Requests
  <2>1. c = "login" => issued + 1 \in Tokens
    BY <1>6, EffectTyped DEF Accept
  <2> DEFINE u == IF c = "login" THEN issued + 1 ELSE calls[c].token
  <2>2. u \in Tokens /\ Answer(c, "ok", u) /\ (c = "boot" => u = calls[c].token)
    BY <1>5, <1>6, <2>1 DEF Accept
  <2> HIDE DEF u
  <2> QED BY <1>4, <2>2
<1>7. CASE Refuse(c) \/ CallFails(c) \/ AnswerLost(c)
  BY <1>3, <1>4, <1>5, <1>7 DEF Refuse, CallFails, AnswerLost
<1> QED BY <1>3, <1>6, <1>7 DEF Accept

LEMMA JoinAgrees ==
  ASSUME Smooth, NEW c \in Callers, Step(c), Join(c)
  PROVE  Agreed'
<1> USE SmoothFacts, Constants
<1>1. Ages
  BY SmoothAges DEF Next, Works
<1>2. /\ UNCHANGED <<memory, disk, writes, screen>> /\ calls[c].pc = "answered"
      /\ calls'[c].pc = "waiting" /\ \A d \in Callers : d # c => calls'[d] = calls[d]
  BY ToTyped DEF Join, Retries, Answered, store
<1>3. \/ refreshing' = refreshing
      \/ Whole(memory) /\ memory.refresh = refreshing'.spends /\ refreshing'.got = None
  <2>1. memory.refresh # None
    BY DEF Join, Retries
  <2>2. Whole(memory)
    BY <2>1 DEF Agreed, ScreenShows, Empty
  <2> QED BY <2>2 DEF Join, NoRefresh
<1>4. c = "boot" => ~Asking'
  BY <1>2 DEF Asking, Answered
<1> QED BY <1>1, <1>2, <1>3, <1>4, CallAgrees

LEMMA ReceiveAgrees ==
  ASSUME Smooth, NEW c \in Requests, Step(c), Receive(c)
  PROVE  Agreed'
<1> USE SmoothFacts, Constants
<1>1. Ages
  BY SmoothAges DEF Next, Works
<1>2. /\ UNCHANGED <<memory, disk, writes, screen, refreshing>> /\ calls[c].pc = "answered" /\ c # "boot"
      /\ calls'[c].pc = "idle" /\ \A d \in Callers : d # c => calls'[d] = calls[d]
  BY EndTyped, SessionConstants DEF Receive, Answered, store
<1> QED BY <1>1, <1>2, CallAgrees
\* The start ends with the session of its tokens on the screen.
LEMMA BootSucceedsAgrees == ASSUME Smooth, BootSucceeds PROVE Agreed'
<1> USE SmoothFacts, Constants
<1>1. Ages
  BY SmoothAges DEF Next, Works, Step
<1> DEFINE t == calls["boot"].token
<1>2. /\ UNCHANGED <<memory, disk, writes, refreshing>> /\ Answered("boot") /\ Asking
      /\ screen'.user = sessionOf[t] /\ ~screen'.booting
      /\ calls'["boot"].pc = "idle" /\ \A d \in Callers : d # "boot" => calls'[d] = calls[d]
  BY EndTyped DEF BootSucceeds, SignedOut, store, Asking
<1>3. Same(t) /\ Follows'
  BY <1>2, FollowsStay DEF Agreed, BootHolds, Asking, Answered
<1>4. Whole(memory) /\ sessionOf[memory.access] = screen'.user /\ screen'.user # None
  BY <1>2, <1>3 DEF Same, Numbered, None
<1>5. \A d \in Callers : d # "boot" => calls'[d].pc = "idle"
  BY <1>2 DEF Phases, Busy, Answered
<1>6. ~Asking' /\ calls["boot"].pc = "answered"
  BY <1>2 DEF Asking, Answered
<1>7. \A d \in SignOuts : calls'[d].pc = "idle"
  BY <1>5, SessionConstants
<1>8. refreshing'.pc \in {"sent", "answered"} =>
        /\ Whole(memory) /\ memory.refresh = refreshing'.spends
        /\ refreshing'.got # None => Same(refreshing.got)'
  BY <1>1, <1>2, AgesSame DEF Agreed, RefreshHolds
<1> QED BY <1>1, <1>2, <1>3, <1>4, <1>5, <1>6, <1>7, <1>8, TokensStay

LEMMA SignInFailsAgrees == ASSUME Smooth, SignInFails PROVE Agreed'
<1> USE SmoothFacts, Constants
<1>1. Ages
  BY SmoothAges DEF Next, Works, Step
<1>2. /\ UNCHANGED <<memory, disk, writes, refreshing>> /\ calls["login"].pc = "answered"
      /\ screen'.user = screen.user /\ screen'.booting = screen.booting
      /\ calls'["login"].pc = "idle" /\ \A d \in Callers : d # "login" => calls'[d] = calls[d]
  BY EndTyped DEF SignInFails, Answered, store, Screen
<1>3. screen.user = None /\ ~screen.booting /\ ~Busy("boot")
  BY <1>2 DEF Phases, Busy
<1>4. memory = Empty /\ Follows'
  BY <1>2, <1>3, FollowsStay DEF Agreed, ScreenShows, Busy
<1>5. ~Asking' /\ calls["boot"].pc = "idle" /\ calls'["boot"].pc = "idle"
  BY <1>2, <1>3 DEF Asking, Answered, Busy
<1>6. refreshing'.pc \in {"sent", "answered"} =>
        /\ Whole(memory) /\ memory.refresh = refreshing'.spends
        /\ refreshing'.got # None => Same(refreshing.got)'
  BY <1>1, <1>2, AgesSame DEF Agreed, RefreshHolds
<1> QED BY <1>1, <1>2, <1>3, <1>4, <1>5, <1>6, TokensStay

\* The caller returns to the auth store.
LEMMA StoredAgrees == ASSUME Smooth, NEW c \in Callers \ Requests, Stored(c) PROVE Agreed'
<1> USE SmoothFacts, Constants
<1>1. Ages
  BY SmoothAges DEF Next, Works, Step
<1>2. /\ UNCHANGED <<memory, disk, writes, refreshing>> /\ calls[c].pc = "storing"
      /\ calls'[c].pc = "idle" /\ \A d \in Callers : d # c => calls'[d] = calls[d]
  BY EndTyped DEF Stored, store
<1>3. c = "boot" \/ ~Busy("boot")
  BY <1>2 DEF Phases, Busy
<1>4. Follows' /\ ~Asking' /\ calls["boot"].pc # "restoring" /\ calls'["boot"].pc = "idle"
  BY <1>2, <1>3, FollowsStay DEF Agreed, Asking, Answered, Busy
<1>5. calls'["login"].pc = "storing" =>
        calls'["login"] = calls["login"] /\ \A d \in SignOuts : Busy(d)' => Busy(d)
  BY <1>2 DEF Busy
<1>6. \A d \in SignOuts : calls'[d].pc = "storing" => memory = Empty
  BY <1>2 DEF Agreed, ScreenShows
<1>7. refreshing'.pc \in {"sent", "answered"} =>
        /\ Whole(memory) /\ memory.refresh = refreshing'.spends
        /\ refreshing'.got # None => Same(refreshing.got)'
  BY <1>1, <1>2, AgesSame DEF Agreed, RefreshHolds
<1>8. CASE c = "login"
  <2>1. Same(calls["login"].token) /\ screen'.user = sessionOf[calls["login"].token]
    BY <1>2, <1>8 DEF Agreed, LoginHolds, Stored, Screen
  <2>2. Whole(memory) /\ sessionOf[memory.access] = screen'.user /\ screen'.user # None
    BY <2>1 DEF Same, Numbered, None
  <2> QED BY <1>1, <1>2, <1>4, <1>5, <1>6, <1>7, <2>2, TokensStay
<1>9. CASE c # "login"
  <2>1. screen'.user = None
    BY <1>9 DEF Stored, SignedOut
  <2>2. memory = Empty
    BY <1>2, <1>9 DEF Agreed, BootHolds, ScreenShows, Callers
  <2> QED BY <1>1, <1>2, <1>4, <1>5, <1>6, <1>7, <2>1, <2>2, TokensStay
<1> QED BY <1>8, <1>9

\* The refresh is answered.
LEMMA RefreshAgrees ==
  ASSUME Smooth, Next, UNCHANGED <<memory, disk, writes, calls, screen>>,
         refreshing'.pc \in {"sent", "answered"} =>
           /\ Whole(memory) /\ memory.refresh = refreshing'.spends
           /\ refreshing'.got # None => Same(refreshing.got)'
  PROVE  Agreed'
<1> USE SmoothFacts, Constants
<1>1. Ages
  BY SmoothAges
<1>2. CASE calls["boot"].pc = "restoring"
  <2>1. /\ Whole(memory) => Whole(memory)'
        /\ \A t : Same(t) => Same(t)'
    BY <1>1, AgesWhole, AgesSame DEF Whole
  <2>2. refreshing.pc = "idle" /\ screen.booting /\ calls["login"].pc = "idle"
    BY <1>2 DEF Smooth, Agreeing, Careful, Starting
  <2>3. Restorable => Whole(disk)'
    BY <1>1, <1>2, AgesWhole DEF Agreed, BootHolds, Whole
  <2>4. BootHolds'
    BY <1>2, <2>3 DEF Agreed, BootHolds, Restorable, Answered
  <2>5. LoginHolds' /\ ScreenShows' /\ RefreshHolds'
    BY <2>1, <2>2 DEF Agreed, LoginHolds, ScreenShows, RefreshHolds, Phases
  <2> QED BY <1>2, <2>4, <2>5 DEF Agreed
<1>3. CASE calls["boot"].pc # "restoring"
  <2>1. Follows' /\ calls' = calls
    BY <1>3, FollowsStay DEF Agreed
  <2>2. Asking' => Asking /\ calls'["boot"].token = calls["boot"].token
    BY DEF Asking, Answered
  <2>3. calls'["login"].pc = "storing" =>
          calls'["login"] = calls["login"] /\ \A d \in SignOuts : Busy(d)' => Busy(d)
    BY DEF Busy
  <2>4. /\ ~screen'.booting /\ screen'.user = None /\ calls'["login"].pc # "storing" => memory = Empty
        /\ screen'.user # None =>
             \/ Whole(memory) /\ sessionOf[memory.access] = screen'.user
             \/ memory = Empty /\ \E d \in SignOuts : calls'[d].pc = "storing"
        /\ \A d \in SignOuts : calls'[d].pc = "storing" => memory = Empty
    BY DEF Agreed, ScreenShows
  <2> QED BY <1>1, <1>3, <2>1, <2>2, <2>3, <2>4, TokensStay
<1> QED BY <1>2, <1>3

LEMMA RotateAgrees == ASSUME Smooth, Next, NEW answered \in BOOLEAN, Rotate(answered) PROVE Agreed'
<1> USE SmoothFacts, Constants
<1>1. Ages
  BY SmoothAges
<1>2. /\ UNCHANGED <<memory, disk, writes, calls, screen>> /\ refreshing.pc = "sent"
      /\ Issue(sessionOf[refreshing.spends]) /\ refreshing'.spends = refreshing.spends
      /\ refreshing'.got = IF answered THEN issued + 1 ELSE None
  BY DEF Rotate, Spend, store, ClientTyped, Refresh
<1>3. Whole(memory) /\ memory.refresh = refreshing.spends
  BY <1>2 DEF Agreed, RefreshHolds
<1>4. /\ issued' = issued + 1 /\ issued + 1 \in Pairs
      /\ sessionOf'[issued + 1] = sessionOf[memory.access]
  <2>1. refreshing.spends \in 1..issued /\ sessionOf[refreshing.spends] = sessionOf[memory.access]
    BY <1>3 DEF Whole, WholeIn
  <2>2. sessionOf[refreshing.spends] \in 1..issued
    BY <2>1 DEF Numbered
  <2>3. sessionOf[refreshing.spends] \in Tokens /\ issued + 1 \in Pairs /\ issued' = issued + 1
    BY <1>2, <2>2, IssueTyped DEF ServerTyped, Tokens
  <2> QED BY <1>2, <2>1, <2>2, <2>3 DEF Issue, ServerTyped, None
<1>5. refreshing'.got # None => Same(refreshing.got)'
  <2>1. Whole(memory)' /\ sessionOf'[memory.access] = sessionOf[memory.access]
    BY <1>1, <1>2, <1>3, AgesWhole DEF Ages, Whole, WholeIn
  <2> QED BY <1>1, <1>2, <1>4, <2>1 DEF Same, Ages
<1> QED BY <1>2, <1>3, <1>5, RefreshAgrees

LEMMA NoRotationAgrees == ASSUME Smooth, Next, RefuseRefresh \/ RefreshCallFails PROVE Agreed'
<1> USE SmoothFacts, Constants
<1>1. Ages
  BY SmoothAges
<1>2. /\ UNCHANGED <<memory, disk, writes, calls, screen>> /\ refreshing.pc = "sent"
      /\ refreshing'.spends = refreshing.spends /\ refreshing'.got = refreshing.got
  BY DEF RefuseRefresh, RefreshCallFails, store, ClientTyped, Refresh
<1>3. /\ Whole(memory) /\ memory.refresh = refreshing.spends
      /\ refreshing.got # None => Same(refreshing.got)
  BY <1>2 DEF Agreed, RefreshHolds
<1>4. \A t : Same(t) => Same(t)'
  BY <1>1, <1>2, AgesSame
<1>5. refreshing'.got # None => Same(refreshing.got)'
  BY <1>2, <1>3, <1>4 DEF Same
<1> QED BY <1>2, <1>3, <1>5, RefreshAgrees
\* The shared promise settles.
LEMMA SettleAgrees ==
  ASSUME Smooth, Next, NEW ok \in BOOLEAN, Settle(ok), UNCHANGED <<memory, screen>>, Follows',
         calls["boot"].pc # "restoring"
  PROVE  Agreed'
<1> USE SmoothFacts, Constants
<1>1. Ages
  BY SmoothAges
<1>2. /\ refreshing'.pc = "idle"
      /\ \A c \in Callers : calls[c].pc # "waiting" => calls'[c] = calls[c]
  BY DEF Settle, NoRefresh
<1>3. \A c \in Callers : calls[c].pc = "waiting" =>
        \/ calls'[c].pc = "sent" /\ calls'[c].token = memory.access
        \/ calls'[c].pc = "idle"
        \/ calls'[c].pc = "answered" /\ calls'[c].answer = "failed"
  <2> SUFFICES ASSUME NEW c \in Callers, calls[c].pc = "waiting"
               PROVE  \/ calls'[c].pc = "sent" /\ calls'[c].token = memory.access
                      \/ calls'[c].pc = "idle"
                      \/ calls'[c].pc = "answered" /\ calls'[c].answer = "failed"
    OBVIOUS
  <2>1. calls[c] \in Call
    BY DEF ClientTyped
  <2>2. calls'[c] = IF ok THEN Sent(memory.access, TRUE)
                    ELSE IF c \in Requests THEN Idle
                    ELSE [calls[c] EXCEPT !.pc = "answered", !.answer = "failed"]
    BY DEF Settle
  <2>3. CASE ok
    BY <2>2, <2>3 DEF Sent
  <2>4. CASE ~ok /\ c \in Requests
    BY <2>2, <2>4 DEF Idle
  <2>5. CASE ~ok /\ c \notin Requests
    BY <2>1, <2>2, <2>5 DEF Call
  <2> QED BY <2>3, <2>4, <2>5
<1>4. \A c \in Callers : calls'[c].pc = "storing" <=> calls[c].pc = "storing"
  BY <1>2, <1>3
<1>5. \A c \in Callers : Busy(c)' => Busy(c)
  BY <1>2 DEF Busy
<1>6. calls'["login"].pc = "storing" =>
        calls'["login"] = calls["login"] /\ \A d \in SignOuts : Busy(d)' => Busy(d)
  BY <1>2, <1>4, <1>5
<1>7. Asking' => \/ calls'["boot"].token = memory.access
                 \/ Asking /\ calls'["boot"].token = calls["boot"].token
  BY <1>2, <1>3 DEF Asking, Answered
<1>8. /\ calls'["boot"].pc # "restoring" /\ (calls'["boot"].pc = "storing" => calls["boot"].pc = "storing")
      /\ calls'["boot"].pc \in {"sent", "answered", "waiting"} =>
           calls["boot"].pc \in {"sent", "answered", "waiting"}
  BY <1>2, <1>3
<1>9. /\ ~screen'.booting /\ screen'.user = None /\ calls'["login"].pc # "storing" => memory = Empty
      /\ screen'.user # None =>
           \/ Whole(memory) /\ sessionOf[memory.access] = screen'.user
           \/ memory = Empty /\ \E d \in SignOuts : calls'[d].pc = "storing"
      /\ \A d \in SignOuts : calls'[d].pc = "storing" => memory = Empty
  BY <1>4 DEF Agreed, ScreenShows
<1> QED BY <1>1, <1>2, <1>6, <1>7, <1>8, <1>9, TokensStay

LEMMA RefreshEndsAgrees == ASSUME Smooth, Next, Refreshed \/ RefreshFails PROVE Agreed'
<1>1. calls["boot"].pc # "restoring"
  BY DEF Refreshed, RefreshFails, Smooth, Agreeing, Careful, Starting
<1>2. UNCHANGED <<memory, screen, disk, writes>> /\ \E ok \in BOOLEAN : Settle(ok)
  BY DEF Refreshed, RefreshFails, store
<1>3. Follows'
  BY <1>1, <1>2, SmoothFacts, FollowsStay DEF Agreed
<1> QED BY <1>1, <1>2, <1>3, SettleAgrees

\* The new pair is of the session of the old one.
LEMMA KeepRefreshedAgrees == ASSUME Smooth, KeepRefreshed PROVE Agreed'
<1> USE SmoothFacts, Constants
<1> DEFINE t == refreshing.got
<1>1. /\ refreshing.pc = "answered" /\ t # None /\ Keep(Held(t), "refresh")
      /\ UNCHANGED <<server, calls, screen>> /\ refreshing'.pc = "storing"
  BY DEF KeepRefreshed, ClientTyped, Refresh
<1>2. Whole(memory) /\ Same(t)
  BY <1>1 DEF Agreed, RefreshHolds
<1>3. Held(t) \in Pair /\ Held(t).access = t /\ Held(t).refresh = t
  BY Records DEF ClientTyped, Refresh, Held
<1>4. Follows' /\ memory' = Held(t)
  BY <1>1, <1>3, KeepFollows
<1>5. Whole(memory)' /\ sessionOf'[memory'.access] = sessionOf[memory.access]
  BY <1>1, <1>2, <1>3, <1>4 DEF Same, Whole, WholeIn, server
<1>6. \A u : Same(u) => Same(u)'
  BY <1>1, <1>5 DEF Same, server
<1>7. memory # Empty
  BY <1>2 DEF Whole, WholeIn, Empty, None
<1>8. calls["boot"].pc \notin {"restoring", "storing"} /\ \A d \in SignOuts : calls[d].pc # "storing"
  BY <1>1, <1>7 DEF Agreed, BootHolds, ScreenShows, Smooth, Agreeing, Careful, Starting
<1>9. BootHolds'
  BY <1>1, <1>5, <1>6, <1>8 DEF Agreed, BootHolds, Answered
<1>10. LoginHolds'
  BY <1>1, <1>6 DEF Agreed, LoginHolds, Busy
<1>11. ScreenShows'
  BY <1>1, <1>5, <1>7, <1>8 DEF Agreed, ScreenShows
<1> QED BY <1>1, <1>4, <1>9, <1>10, <1>11 DEF Agreed, RefreshHolds

\* Everything else that keeps tokens does so while no refresh is under way.
LEMMA ClearAgrees ==
  ASSUME Smooth, NEW c \in Callers, (c = "boot" /\ BootFails) \/ (c \in SignOuts /\ SignOutClears(c))
  PROVE  Agreed'
<1> USE SmoothFacts, Constants
<1>1. /\ Keep(Empty, c) /\ UNCHANGED <<server, refreshing, screen>>
      /\ calls[c].pc = "answered" /\ calls'[c].pc = "storing"
      /\ \A d \in Callers : d # c => calls'[d] = calls[d]
  BY ToTyped DEF BootFails, SignOutClears, Answered
<1>2. Follows' /\ memory' = Empty
  BY <1>1, Records, KeepFollows
<1>3. refreshing'.pc = "idle"
  <2>1. CASE c = "boot"
    BY <1>1, <2>1 DEF Phases, Busy
  <2>2. CASE c \in SignOuts
    BY <1>1, <2>2, SessionConstants DEF SignOutClears, Crosses, Smooth, BootFails
  <2> QED BY <2>1, <2>2
<1>4. calls'["boot"].pc \in {"idle", "storing"}
  BY <1>1 DEF Phases, Busy
<1>5. calls'["login"].pc # "storing"
  <2>1. c # "login"
    BY SessionConstants
  <2>2. calls["login"].pc # "storing"
    BY <1>1 DEF Agreed, LoginHolds, Phases, Busy
  <2> QED BY <1>1, <2>1, <2>2
<1>6. screen.user # None => c \in SignOuts
  BY <1>1 DEF Phases, Busy
<1>7. BootHolds' /\ LoginHolds'
  BY <1>2, <1>4, <1>5 DEF BootHolds, LoginHolds, Answered
<1>8. ScreenShows' /\ RefreshHolds'
  BY <1>1, <1>2, <1>3, <1>6 DEF ScreenShows, RefreshHolds
<1> QED BY <1>2, <1>7, <1>8 DEF Agreed

LEMMA SignInAgrees == ASSUME Smooth, SignInSucceeds PROVE Agreed'
<1> USE SmoothFacts, Constants
<1> DEFINE t == calls["login"].token
<1>1. /\ Keep(Held(t), "login") /\ UNCHANGED <<server, refreshing, screen>>
      /\ calls["login"].pc = "answered" /\ calls["login"].answer = "ok"
      /\ calls'["login"].pc = "storing" /\ calls'["login"].token = t
      /\ \A d \in Callers : d # "login" => calls'[d] = calls[d]
  BY ToTyped DEF SignInSucceeds, Answered
<1>2. refreshing'.pc = "idle" /\ \A d \in SignOuts : ~Busy(d)
  BY <1>1 DEF SignInSucceeds, Crosses, Smooth
<1>3. t \in 1..issued /\ t \in Tokens
  BY <1>1 DEF Smooth, Agreeing, Careful, Unused, Safe, Issued, ClientTyped, Call
<1>4. Held(t) \in Pair /\ Held(t).access = t /\ Held(t).refresh = t
  BY <1>3, Records DEF Held
<1>5. Follows' /\ memory' = Held(t)
  BY <1>1, <1>4, KeepFollows
<1>6. Whole(memory)' /\ Same(t)'
  BY <1>1, <1>3, <1>4, <1>5 DEF Same, Whole, WholeIn, server
<1>7. screen.user = None /\ calls'["boot"].pc = "idle"
  BY <1>1 DEF Phases, Busy
<1>8. BootHolds'
  BY <1>7 DEF BootHolds, Answered
<1>9. LoginHolds'
  <2>1. \A d \in SignOuts : ~Busy(d)'
    BY <1>1, <1>2, SessionConstants DEF Busy
  <2> QED BY <1>1, <1>6, <2>1 DEF LoginHolds, Same
<1>10. ScreenShows' /\ RefreshHolds'
  <2>1. \A d \in SignOuts : calls'[d].pc # "storing"
    BY <1>1, <1>2, SessionConstants DEF Busy
  <2> QED BY <1>1, <1>2, <1>6, <1>7, <2>1 DEF ScreenShows, RefreshHolds
<1> QED BY <1>5, <1>8, <1>9, <1>10 DEF Agreed

\* The start finds nothing, or takes what is stored.
LEMMA RestoreAgrees == ASSUME Smooth, RestoreNothing \/ RestoreTokens PROVE Agreed'
<1> USE SmoothFacts, Constants
<1>1. /\ calls["boot"].pc = "restoring" /\ UNCHANGED <<server, refreshing, disk, writes>>
      /\ memory = Empty /\ writes = <<>> /\ (Restorable => Whole(disk))
      /\ refreshing.pc = "idle" /\ \A d \in Callers : d # "boot" => calls[d].pc = "idle"
  BY DEF RestoreNothing, RestoreTokens, Agreed, BootHolds, store, Smooth, Agreeing, Careful, Starting
<1>2. Len(writes') = 0
  BY <1>1
<1>3. CASE RestoreNothing
  <2>1. /\ memory' = Empty /\ ~Restorable /\ screen'.user = None
        /\ calls'["boot"].pc = "idle" /\ \A d \in Callers : d # "boot" => calls'[d] = calls[d]
    BY <1>1, <1>3, EndTyped DEF RestoreNothing, SignedOut
  <2>2. Follows'
    BY <1>1, <1>2, <2>1 DEF Follows, Restorable
  <2>3. \A d \in SignOuts : calls'[d].pc = "idle"
    BY <1>1, <2>1, SessionConstants
  <2> QED BY <1>1, <2>1, <2>2, <2>3
          DEF Agreed, BootHolds, LoginHolds, ScreenShows, RefreshHolds, Answered
<1>4. CASE RestoreTokens
  <2>1. /\ memory' = disk /\ Whole(disk) /\ screen' = screen
        /\ calls'["boot"].pc = "sent" /\ calls'["boot"].token = disk.access
        /\ \A d \in Callers : d # "boot" => calls'[d] = calls[d]
    BY <1>1, <1>4 DEF RestoreTokens, ClientTyped, Sent
  <2>2. Follows'
    BY <1>1, <1>2, <2>1 DEF Follows
  <2>3. Whole(memory)' /\ Same(disk.access)'
    BY <1>1, <2>1 DEF Whole, WholeIn, Same, server
  <2>4. \A d \in SignOuts : calls'[d].pc = "idle"
    BY <1>1, <2>1, SessionConstants
  <2>5. screen.booting /\ screen.user = None
    BY <1>1 DEF Phases, Busy
  <2>6. BootHolds'
    BY <1>1, <2>1, <2>3 DEF BootHolds, Same
  <2>7. LoginHolds' /\ ScreenShows' /\ RefreshHolds'
    BY <1>1, <2>1, <2>3, <2>4, <2>5 DEF LoginHolds, ScreenShows, RefreshHolds
  <2> QED BY <2>2, <2>6, <2>7 DEF Agreed
<1> QED BY <1>3, <1>4

\* The storage: the last writes decide.
LEMMA StorageAgrees == ASSUME Smooth, Write \/ WriteFails PROVE Agreed'
<1> USE SmoothFacts, Constants
<1>1. Ages
  BY SmoothAges DEF Next, Works, Goes
<1>2. writes # <<>> /\ writes' = Tail(writes) /\ memory' = memory
  BY DEF Write, WriteFails, client
<1>3. calls["boot"].pc # "restoring"
  BY <1>2 DEF Agreed, BootHolds
<1>4. \/ disk' = [disk EXCEPT ![Head(writes).key] = Head(writes).value]
      \/ /\ disk' = disk /\ Head(writes).value = None
         /\ ~(Head(writes).key = "refresh" /\ disk.access # None)
  BY DEF Write, WriteFails, Smooth
<1>5. Follows'
  BY <1>2, <1>3, <1>4, TailFollows DEF Agreed, ScreenShows, ClientTyped
<1>6. CASE UNCHANGED <<calls, screen, refreshing>>
  <2>1. Asking' => Asking /\ calls'["boot"].token = calls["boot"].token
    BY <1>6 DEF Asking, Answered
  <2>2. calls'["login"].pc = "storing" =>
          calls'["login"] = calls["login"] /\ \A d \in SignOuts : Busy(d)' => Busy(d)
    BY <1>6 DEF Busy
  <2>3. /\ ~screen'.booting /\ screen'.user = None /\ calls'["login"].pc # "storing" => memory = Empty
        /\ screen'.user # None =>
             \/ Whole(memory) /\ sessionOf[memory.access] = screen'.user
             \/ memory = Empty /\ \E d \in SignOuts : calls'[d].pc = "storing"
        /\ \A d \in SignOuts : calls'[d].pc = "storing" => memory = Empty
    BY <1>6 DEF Agreed, ScreenShows
  <2>4. refreshing'.pc \in {"sent", "answered"} =>
          /\ Whole(memory) /\ memory.refresh = refreshing'.spends
          /\ refreshing'.got # None => Same(refreshing.got)'
    BY <1>1, <1>2, <1>6, AgesSame DEF Agreed, RefreshHolds
  <2> QED BY <1>1, <1>2, <1>3, <1>5, <1>6, <2>1, <2>2, <2>3, <2>4, TokensStay
<1>7. CASE Settle(FALSE) /\ UNCHANGED screen
  BY <1>2, <1>3, <1>5, <1>7, SettleAgrees DEF Next, Works, Goes
<1>8. CASE WriteFails /\ Head(writes).by = "login"
  <2>1. 1 \in DOMAIN writes /\ writes[1] = Head(writes)
    BY <1>2, TailWrites
  <2>2. Head(writes).value # None
    BY <1>8, <2>1 DEF Numbered
  <2> QED BY <1>8, <2>2 DEF WriteFails, Smooth
<1> QED BY <1>6, <1>7, <1>8 DEF Write, WriteFails, client

LEMMA KillAgrees == ASSUME Agreeing, Kill, ~crossed' PROVE Agreed'
<1>1. Typed /\ Issued /\ ServerTyped /\ StoreTyped /\ Numbered
  BY TypeParts DEF Agreeing, Careful, Safe, Typed
<1>2. /\ UNCHANGED <<server, disk>> /\ memory' = Empty /\ refreshing' = NoRefresh /\ writes' = <<>>
      /\ screen' = AtBoot /\ ~Halves
      /\ calls'["boot"].pc = "restoring" /\ \A d \in Callers : d # "boot" => calls'[d].pc = "idle"
  BY Constants DEF Kill, Idle
<1>3. Restorable => Whole(disk)'
  BY <1>1, <1>2, Constants DEF Halves, Restorable, Whole, WholeIn, Issued, Numbered, StoreTyped, Pair, Tokens,
     None, server, ServerTyped
<1>4. BootHolds'
  BY <1>2, <1>3 DEF BootHolds, Restorable, Answered
<1>5. \A d \in SignOuts : calls'[d].pc = "idle"
  BY <1>2, SessionConstants, Constants
<1>6. LoginHolds' /\ ScreenShows' /\ RefreshHolds'
  BY <1>2, <1>5, Constants DEF LoginHolds, ScreenShows, RefreshHolds, AtBoot, NoRefresh
<1> QED BY <1>2, <1>4, <1>6 DEF Agreed
LEMMA CrossedStays == ASSUME Next PROVE crossed => crossed'
<1>1. ASSUME NEW c \in Callers, Step(c) \/ AnswerLost(c) PROVE crossed => crossed'
  <2>1. CASE Accept(c) \/ Refuse(c) \/ CallFails(c) \/ AnswerLost(c) \/ Join(c) \/ Receive(c) \/ Stored(c)
    BY <2>1 DEF Accept, Refuse, CallFails, AnswerLost, Join, Receive, Stored, past
  <2>2. CASE RestoreNothing \/ RestoreTokens \/ BootSucceeds \/ BootFindsNobody \/ BootFails
    BY <2>2 DEF RestoreNothing, RestoreTokens, BootSucceeds, BootFindsNobody, BootFails, past
  <2>3. CASE SignInSucceeds \/ SignInFails \/ SignOutClears(c)
    BY <2>3 DEF SignInSucceeds, SignInFails, SignOutClears, Crosses, past
  <2> QED BY <1>1, <2>1, <2>2, <2>3 DEF Step
<1>2. Asks \/ Write \/ WriteFails \/ Kill => (crossed => crossed')
  BY DEF Asks, SignIn, Fetch, SignOut, Write, WriteFails, Kill, past
<1>3. Refreshes \/ Rotate(FALSE) => (crossed => crossed')
  BY DEF Refreshes, Rotate, RefuseRefresh, RefreshCallFails, KeepRefreshed, Refreshed, RefreshFails, past
<1> QED BY <1>1, <1>2, <1>3 DEF Next, Works, Goes
LEMMA AgreedKept == ASSUME Agreeing, Next, ~crossed' PROVE Agreed'
<1>1. CASE Kill
  BY <1>1, KillAgrees
<1>2. CASE ~Kill
  <2>1. crossed => crossed'
    BY <1>2, CrossedStays
  <2>2. Smooth
    BY <2>1 DEF Smooth
  <2>3. ASSUME NEW c \in Callers, Step(c) PROVE Agreed'
    <3>1. CASE Accept(c) \/ Refuse(c) \/ CallFails(c)
      BY <2>2, <2>3, <3>1, AnswersAgree
    <3>2. CASE Join(c)
      BY <2>2, <2>3, <3>2, JoinAgrees
    <3>3. CASE c \in Requests /\ Receive(c)
      BY <2>2, <2>3, <3>3, ReceiveAgrees
    <3>4. CASE RestoreNothing \/ RestoreTokens
      BY <2>2, <3>4, RestoreAgrees
    <3>5. CASE BootSucceeds \/ SignInFails \/ SignInSucceeds
      BY <2>2, <3>5, BootSucceedsAgrees, SignInFailsAgrees, SignInAgrees
    <3>8. ~BootFindsNobody
      BY <2>2 DEF Smooth, BootFindsNobody
    <3>6. CASE (c = "boot" /\ BootFails) \/ (c \in SignOuts /\ SignOutClears(c))
      BY <2>2, <3>6, ClearAgrees
    <3>7. CASE c \notin Requests /\ Stored(c)
      BY <2>2, <3>7, StoredAgrees
    <3> QED BY <2>3, <3>1, <3>2, <3>3, <3>4, <3>5, <3>6, <3>7, <3>8 DEF Step
  <2>4. CASE Asks
    BY <2>2, <2>4, AsksAgree
  <2>5. ASSUME NEW c \in Callers, AnswerLost(c) PROVE Agreed'
    BY <2>2, <2>5, AnswersAgree
  <2>6. CASE Write \/ WriteFails
    BY <2>2, <2>6, StorageAgrees
  <2>7. CASE Refreshes \/ Rotate(FALSE)
    BY <2>2, <2>7, RotateAgrees, NoRotationAgrees, KeepRefreshedAgrees, RefreshEndsAgrees DEF Refreshes
  <2> QED BY <1>2, <2>3, <2>4, <2>5, <2>6, <2>7 DEF Next, Works, Goes
<1> QED BY <1>1, <1>2

LEMMA InitAgreeing == Init => Agreeing
<1> SUFFICES ASSUME Init PROVE Agreeing
  OBVIOUS
<1>1. Careful
  BY InitCareful
<1>2. calls["boot"].pc = "restoring" /\ \A c \in Callers : c # "boot" => calls[c].pc = "idle"
  BY Constants DEF Init, Idle
<1>3. Numbered
  BY DEF Init, NothingIssued, Numbered, Empty, None
<1>4. Phases
  BY <1>2 DEF Init, Phases, Busy, AtBoot, NoRefresh
<1>5. BootHolds
  BY <1>2 DEF Init, BootHolds, Restorable, Empty, Answered
<1>6. LoginHolds /\ ScreenShows /\ RefreshHolds
  <2>1. \A c \in SignOuts : calls[c].pc = "idle"
    BY <1>2, Constants, SessionConstants
  <2> QED BY <1>2, <2>1, Constants DEF Init, LoginHolds, ScreenShows, RefreshHolds, AtBoot, NoRefresh
<1> QED BY <1>1, <1>2, <1>3, <1>4, <1>5, <1>6 DEF Agreeing, Agreed

LEMMA AgreeingKept == ASSUME Agreeing, [Next]_vars PROVE Agreeing'
<1>1. Careful'
  BY CarefulKept DEF Agreeing
<1>2. CASE Next
  BY <1>1, <1>2, NumberedKept, PhasesKept, AgreedKept DEF Agreeing, Careful
<1>3. CASE UNCHANGED vars
  <2>1. Numbered' /\ Phases'
    BY <1>3 DEF Agreeing, Numbered, Phases, Busy, vars, server, client, store
  <2>2. BootHolds => BootHolds'
    BY <1>3 DEF BootHolds, Restorable, Answered, Whole, Same, vars, server, client, store
  <2>3. Follows => Follows'
    BY <1>3, FollowsStay DEF vars, client, store
  <2>4. (LoginHolds => LoginHolds') /\ (ScreenShows => ScreenShows') /\ (RefreshHolds => RefreshHolds')
    BY <1>3 DEF LoginHolds, ScreenShows, RefreshHolds, Same, Whole, Busy, vars, server, client
  <2>5. Agreed => Agreed'
    BY <1>3, <2>2, <2>3, <2>4 DEF Agreed, vars, client
  <2> QED BY <1>1, <1>3, <2>1, <2>5 DEF Agreeing, vars, past
<1> QED BY <1>2, <1>3

\* Once everything is settled a signed-out application holds no token and its
\* next start finds none (client.ts:191-199), for any number of requests,
\* presses of sign-out, kills and other faults, but for the cases named with it.
THEOREM SignedOutHoldsNothing == Spec => []SignOutIsFinal
<1>1. Agreeing => SignOutIsFinal
  <2> SUFFICES ASSUME Agreeing, AtRest, screen.user = None, ~crossed
               PROVE  memory = Empty /\ ~Restorable
    BY DEF SignOutIsFinal
  <2>1. \A c \in Callers : calls[c].pc = "idle"
    BY DEF AtRest, Busy
  <2>2. ~screen.booting /\ memory = Empty
    BY <2>1, Constants DEF Agreeing, Phases, Busy, Agreed, ScreenShows
  <2>3. Len(writes) = 0
    BY DEF AtRest
  <2> QED BY <2>1, <2>2, <2>3, Constants DEF Agreeing, Agreed, Follows, Restorable, Empty
<1> QED BY <1>1, InitAgreeing, AgreeingKept, PTL DEF Spec

\* Once everything is settled the screen of a signed-in application shows the
\* session whose tokens it holds, and those are the tokens stored
\* (authStore.ts:37-68), for as many requests, sign-outs and faults.
THEOREM ShownSessionIsHeld == Spec => []ShownIsHeld
<1>1. Agreeing => ShownIsHeld
  <2> SUFFICES ASSUME Agreeing, AtRest, screen.user # None, ~crossed
               PROVE  /\ memory.access # None /\ memory.refresh # None /\ disk = memory
                      /\ sessionOf[memory.access] = screen.user
                      /\ sessionOf[memory.refresh] = screen.user
    BY DEF ShownIsHeld
  <2>1. \A c \in Callers : calls[c].pc = "idle"
    BY DEF AtRest, Busy
  <2>2. Whole(memory) /\ sessionOf[memory.access] = screen.user
    BY <2>1, Constants DEF Agreeing, Agreed, ScreenShows
  <2>3. memory.access # None /\ memory.refresh # None /\ sessionOf[memory.refresh] = screen.user
    BY <2>2 DEF Whole, WholeIn, None
  <2>4. Len(writes) = 0
    BY DEF AtRest
  <2>5. disk = memory
    BY <2>1, <2>3, <2>4, Constants DEF Agreeing, Agreed, Follows, Empty
  <2> QED BY <2>2, <2>3, <2>5
<1> QED BY <1>1, InitAgreeing, AgreeingKept, PTL DEF Spec

-----------------------------------------------------------------------------
(* Work is bounded, and until rest some of it is ready.                    *)

\* How far a call is from its end, at most, in steps of its own and answers.
Rank(call) ==
  CASE call.pc = "idle"      -> 0
    [] call.pc = "storing"   -> 1
    [] call.pc = "answered"  -> IF call.answer = "refused" /\ ~call.retried THEN 5 ELSE 2
    [] call.pc = "waiting"   -> 4
    [] call.pc = "sent"      -> IF call.retried THEN 3 ELSE 6
    [] call.pc = "restoring" -> 7

\* The same of the refresh.
Stage(refresh) ==
  CASE refresh.pc = "idle"     -> 0
    [] refresh.pc = "storing"  -> 1
    [] refresh.pc = "answered" -> 2
    [] refresh.pc = "sent"     -> 3

\* Call c takes a step, and no other call does.
Moves(c) ==
  /\ Busy(c) /\ Rank(calls'[c]) < Rank(calls[c])
  /\ \A d \in Callers : d # c => calls'[d] = calls[d]

LEMMA RankType == ASSUME NEW call \in Call PROVE Rank(call) \in 0..7
BY DEF Rank, Call

LEMMA AnswerMoves ==
  ASSUME ClientTyped, NEW c \in Callers, NEW a \in {"ok", "refused", "failed"}, NEW u \in Tokens,
         Answer(c, a, u), calls[c].pc = "sent"
  PROVE  Moves(c)
<1>1. /\ calls'[c].pc = "answered" /\ calls'[c].answer = a /\ calls'[c].retried = calls[c].retried
      /\ \A d \in Callers : d # c => calls'[d] = calls[d]
  BY DEF ClientTyped, Call, Answer
<1>2. Rank(calls[c]) = IF calls[c].retried THEN 3 ELSE 6
  BY DEF Rank
<1>3. calls'[c].retried => Rank(calls'[c]) = 2
  BY <1>1 DEF Rank
<1>4. Rank(calls'[c]) \in {2, 5}
  BY <1>1 DEF Rank
<1> QED BY <1>1, <1>2, <1>3, <1>4 DEF Moves, Busy

LEMMA EndMoves ==
  ASSUME ClientTyped, NEW c \in Callers, End(c), calls[c].pc \in {"restoring", "sent", "answered", "storing"}
  PROVE  Moves(c)
<1>1. calls'[c] = Idle /\ \A d \in Callers : d # c => calls'[d] = calls[d]
  BY DEF ClientTyped, End
<1>2. Rank(calls'[c]) = 0
  BY <1>1 DEF Idle, Rank
<1>3. Rank(calls[c]) \in {1, 2, 3, 5, 6, 7}
  BY DEF Rank
<1> QED BY <1>1, <1>2, <1>3 DEF Moves, Busy

LEMMA ToMoves ==
  ASSUME ClientTyped, NEW c \in Callers, Answered(c),
         To(c, "storing") \/ (To(c, "waiting") /\ Retries(c))
  PROVE  Moves(c)
<1>1. /\ calls'[c].pc \in {"storing", "waiting"}
      /\ \A d \in Callers : d # c => calls'[d] = calls[d]
      /\ calls'[c].pc = "waiting" => Retries(c)
  BY DEF ClientTyped, Call, To
<1>2. Rank(calls[c]) \in {2, 5} /\ (Retries(c) => Rank(calls[c]) = 5)
  BY DEF Rank, Retries, Answered
<1>3. /\ calls'[c].pc = "storing" => Rank(calls'[c]) = 1
      /\ calls'[c].pc = "waiting" => Rank(calls'[c]) = 4
  BY DEF Rank
<1> QED BY <1>1, <1>2, <1>3 DEF Moves, Busy, Answered

LEMMA StepMoves ==
  ASSUME Typed, NEW c \in Callers, Step(c) \/ AnswerLost(c)
  PROVE  /\ Moves(c)
         /\ refreshing' = refreshing \/ (calls'[c].pc = "waiting" /\ refreshing'.pc = "sent")
<1>1. ClientTyped /\ calls[c].token \in Tokens /\ None \in Tokens
  BY TypeParts, Constants DEF Typed, ClientTyped, Call
<1>2. CASE Accept(c) \/ AnswerLost(c)
  <2>1. calls[c].pc = "sent" /\ Effect(c) /\ refreshing' = refreshing
    BY <1>2 DEF Accept, AnswerLost
  <2>2. c = "login" => issued + 1 \in Tokens
    BY <2>1, EffectTyped, TypeParts DEF Typed
  <2> DEFINE u == IF c = "login" THEN issued + 1 ELSE calls[c].token
  <2>3. u \in Tokens
    BY <1>1, <2>2
  <2>4. End(c) \/ Answer(c, "ok", u) \/ Answer(c, "failed", None)
    BY <1>2 DEF Accept, AnswerLost
  <2> HIDE DEF u
  <2> QED BY <1>1, <2>1, <2>3, <2>4, AnswerMoves, EndMoves
<1>3. CASE Refuse(c) \/ CallFails(c)
  BY <1>1, <1>3, AnswerMoves, EndMoves DEF Refuse, CallFails
<1>4. CASE c \in Requests \cup {"boot"} /\ Join(c)
  <2>1. Moves(c)
    BY <1>1, <1>4, ToMoves DEF Join, Retries
  <2>2. calls'[c].pc = "waiting"
    BY <1>1, <1>4 DEF Join, To, ClientTyped, Call
  <2>3. refreshing' = refreshing \/ refreshing'.pc = "sent"
    BY <1>4 DEF Join, NoRefresh
  <2> QED BY <2>1, <2>2, <2>3
<1>5. CASE c \in Requests /\ Receive(c)
  BY <1>1, <1>5, EndMoves DEF Receive, Answered
<1>6. CASE c = "boot" /\ (RestoreNothing \/ BootSucceeds \/ BootFindsNobody)
  BY <1>1, <1>6, EndMoves DEF RestoreNothing, BootSucceeds, BootFindsNobody, Answered
<1>7. CASE c = "boot" /\ RestoreTokens
  <2>1. /\ calls'[c] = Sent(disk.access, FALSE) /\ refreshing' = refreshing
        /\ \A d \in Callers : d # c => calls'[d] = calls[d]
    BY <1>1, <1>7 DEF RestoreTokens, ClientTyped
  <2>2. Rank(calls'[c]) = 6
    BY <2>1 DEF Rank, Sent
  <2>3. Rank(calls[c]) = 7 /\ Busy(c)
    BY <1>7 DEF RestoreTokens, Rank, Busy
  <2>4. Rank(calls'[c]) < Rank(calls[c])
    BY <2>2, <2>3
  <2>5. Moves(c)
    BY <2>1, <2>3, <2>4 DEF Moves
  <2> QED BY <2>1, <2>5
<1>8. CASE \/ c = "boot" /\ BootFails
           \/ c = "login" /\ SignInSucceeds
           \/ c \in SignOuts /\ SignOutClears(c)
  BY <1>1, <1>8, ToMoves DEF BootFails, SignInSucceeds, SignOutClears
<1>9. CASE c = "login" /\ SignInFails
  BY <1>1, <1>9, EndMoves DEF SignInFails, Answered
<1>10. CASE c \notin Requests /\ Stored(c)
  BY <1>1, <1>10, EndMoves DEF Stored
<1>11. Step(c) =>
         \/ Accept(c) \/ Refuse(c) \/ CallFails(c)
         \/ c \in Requests \cup {"boot"} /\ Join(c)
         \/ c \in Requests /\ Receive(c)
         \/ c = "boot" /\ (RestoreNothing \/ BootSucceeds \/ BootFindsNobody)
         \/ c = "boot" /\ RestoreTokens
         \/ c = "boot" /\ BootFails
         \/ c = "login" /\ (SignInSucceeds \/ SignInFails)
         \/ c \in SignOuts /\ SignOutClears(c)
         \/ c \notin Requests /\ Stored(c)
  BY DEF Step
<1> QED BY <1>2, <1>3, <1>4, <1>5, <1>6, <1>7, <1>8, <1>9, <1>10, <1>11

\* The end of a refresh moves everybody on who waited for it, and nobody else.
LEMMA SettleMoves ==
  ASSUME ClientTyped, NEW ok \in BOOLEAN, Settle(ok)
  PROVE  /\ refreshing' = NoRefresh
         /\ \A c \in Callers :
              IF calls[c].pc = "waiting" THEN calls'[c].pc # "waiting" /\ Rank(calls'[c]) < Rank(calls[c])
              ELSE calls'[c] = calls[c]
<1>1. refreshing' = NoRefresh
  BY DEF Settle
<1> SUFFICES ASSUME NEW c \in Callers
             PROVE  IF calls[c].pc = "waiting"
                    THEN calls'[c].pc # "waiting" /\ Rank(calls'[c]) < Rank(calls[c])
                    ELSE calls'[c] = calls[c]
  BY <1>1
<1>2. CASE calls[c].pc # "waiting"
  BY <1>2 DEF Settle
<1>3. CASE calls[c].pc = "waiting"
  <2>1. Rank(calls[c]) = 4
    BY <1>3 DEF Rank
  <2>2. \/ calls'[c] = Sent(memory.access, TRUE) \/ calls'[c] = Idle
        \/ calls'[c] = [calls[c] EXCEPT !.pc = "answered", !.answer = "failed"]
    BY <1>3 DEF Settle
  <2>3. CASE calls'[c] = Sent(memory.access, TRUE)
    <3>1. Rank(calls'[c]) = 3 /\ calls'[c].pc = "sent"
      BY <2>3 DEF Rank, Sent
    <3> QED BY <1>3, <2>1, <3>1
  <2>4. CASE calls'[c] = Idle
    <3>1. Rank(calls'[c]) = 0 /\ calls'[c].pc = "idle"
      BY <2>4 DEF Rank, Idle
    <3> QED BY <1>3, <2>1, <3>1
  <2>5. CASE calls'[c] = [calls[c] EXCEPT !.pc = "answered", !.answer = "failed"]
    <3>1. calls'[c].pc = "answered" /\ calls'[c].answer = "failed"
      BY <2>5 DEF ClientTyped, Call
    <3>2. Rank(calls'[c]) = 2
      BY <3>1 DEF Rank
    <3> QED BY <1>3, <2>1, <3>1, <3>2
  <2> QED BY <2>2, <2>3, <2>4, <2>5
<1> QED BY <1>2, <1>3

\* What the theorem says of one step, of the calls.
CallsMoveOn ==
  \A c \in Callers :
    Busy(c) /\ calls'[c] # calls[c] => Rank(calls'[c]) < Rank(calls[c])

\* Works, but for the steps of a call.
LEMMA RefreshesMove ==
  ASSUME Typed, Refreshes \/ Rotate(FALSE)
  PROVE  /\ Stage(refreshing') < Stage(refreshing)
         /\ \/ calls' = calls
            \/ \E ok \in BOOLEAN : Settle(ok)
<1>1. ASSUME NEW answered \in BOOLEAN, Rotate(answered)
      PROVE  /\ calls' = calls /\ refreshing.pc = "sent" /\ refreshing'.pc = "answered"
  BY <1>1, TypeParts DEF Rotate, Typed, ClientTyped, Refresh
<1>2. CASE RefuseRefresh \/ RefreshCallFails
  <2>1. calls' = calls /\ refreshing.pc = "sent" /\ refreshing'.pc = "answered"
    BY <1>2, TypeParts DEF RefuseRefresh, RefreshCallFails, Typed, ClientTyped, Refresh
  <2>2. Stage(refreshing) = 3 /\ Stage(refreshing') = 2
    BY <2>1 DEF Stage
  <2> QED BY <2>1, <2>2
<1>3. CASE KeepRefreshed
  <2>1. calls' = calls /\ refreshing.pc = "answered" /\ refreshing'.pc = "storing"
    BY <1>3, TypeParts DEF KeepRefreshed, Typed, ClientTyped, Refresh
  <2>2. Stage(refreshing) = 2 /\ Stage(refreshing') = 1
    BY <2>1 DEF Stage
  <2> QED BY <2>1, <2>2
<1>4. CASE Refreshed \/ RefreshFails
  <2>1. /\ \E ok \in BOOLEAN : Settle(ok)
        /\ refreshing.pc \in {"storing", "answered"} /\ refreshing' = NoRefresh
    BY <1>4 DEF Refreshed, RefreshFails, Settle
  <2>2. Stage(refreshing) \in {1, 2} /\ Stage(refreshing') = 0
    BY <2>1 DEF Stage, NoRefresh
  <2> QED BY <2>1, <2>2
<1>5. CASE \E answered \in BOOLEAN : Rotate(answered)
  <2>1. calls' = calls /\ refreshing.pc = "sent" /\ refreshing'.pc = "answered"
    BY <1>1, <1>5
  <2>2. Stage(refreshing) = 3 /\ Stage(refreshing') = 2
    BY <2>1 DEF Stage
  <2> QED BY <2>1, <2>2
<1> QED BY <1>2, <1>3, <1>4, <1>5 DEF Refreshes

LEMMA MovesMove == ASSUME NEW c \in Callers, Moves(c) PROVE CallsMoveOn
BY DEF Moves, CallsMoveOn

LEMMA SettleMovesOn == ASSUME Typed, NEW ok \in BOOLEAN, Settle(ok) PROVE CallsMoveOn
<1>1. ClientTyped
  BY TypeParts DEF Typed
<1> QED BY <1>1, SettleMoves DEF CallsMoveOn

LEMMA AsksMoveOn == ASSUME Typed, Asks PROVE CallsMoveOn
<1>1. \A c \in Callers : Busy(c) => calls'[c] = calls[c]
  BY TypeParts DEF Asks, SignIn, Fetch, SignOut, Typed, ClientTyped
<1> QED BY <1>1 DEF CallsMoveOn

LEMMA WriteFailsMovesOn == ASSUME Typed, WriteFails PROVE CallsMoveOn
<1>1. \/ Settle(FALSE)
      \/ calls["login"].pc = "storing" /\ End("login")
      \/ UNCHANGED calls
  BY DEF WriteFails
<1>2. CASE calls["login"].pc = "storing" /\ End("login")
  BY <1>2, EndMoves, MovesMove, TypeParts, Constants DEF Typed
<1> QED BY <1>1, <1>2, SettleMovesOn DEF CallsMoveOn

\* No call goes back but by a kill, and each step of the client, the network or the
\* storage brings a call or the refresh nearer to its end, or does a write.
OnlyMovesOn ==
  /\ Kill \/ CallsMoveOn
  /\ Works => \/ \E c \in Callers : Busy(c) /\ calls'[c] # calls[c]
              \/ calls' = calls /\ Stage(refreshing') < Stage(refreshing)
              \/ UNCHANGED <<calls, refreshing>> /\ Len(writes') < Len(writes)

LEMMA NextMovesOn == ASSUME Typed, Next PROVE Kill \/ CallsMoveOn
<1>1. CASE \E c \in Callers : Step(c) \/ AnswerLost(c)
  BY <1>1, StepMoves, MovesMove
<1>2. CASE Refreshes \/ Rotate(FALSE)
  BY <1>2, RefreshesMove, SettleMovesOn DEF CallsMoveOn
<1>3. CASE Write
  BY <1>3 DEF Write, client, CallsMoveOn
<1> QED BY <1>1, <1>2, <1>3, AsksMoveOn, WriteFailsMovesOn DEF Next, Works, Goes

LEMMA WorksMoves ==
  ASSUME Typed, Works
  PROVE  \/ \E c \in Callers : Busy(c) /\ calls'[c] # calls[c]
         \/ calls' = calls /\ Stage(refreshing') < Stage(refreshing)
         \/ UNCHANGED <<calls, refreshing>> /\ Len(writes') < Len(writes)
<1>1. ASSUME NEW c \in Callers, Step(c) PROVE Busy(c) /\ calls'[c] # calls[c]
  <2>1. Moves(c) /\ calls[c] \in Call
    BY <1>1, StepMoves, TypeParts DEF Typed, ClientTyped
  <2>2. Rank(calls[c]) \in 0..7
    BY <2>1, RankType
  <2> QED BY <2>1, <2>2 DEF Moves
<1>2. CASE Refreshes
  <2>1. ASSUME NEW ok \in BOOLEAN, Settle(ok)
        PROVE  calls' = calls \/ \E c \in Callers : Busy(c) /\ calls'[c] # calls[c]
    <3>1. ClientTyped
      BY TypeParts DEF Typed
    <3>2. \A c \in Callers : calls[c].pc # "waiting" => calls'[c] = calls[c]
      BY <3>1, <2>1, SettleMoves
    <3>3. \A c \in Callers : calls[c].pc = "waiting" => Busy(c)
      BY DEF Busy
    <3>4. calls \in [Callers -> Call] /\ calls' \in [Callers -> Call]
      BY <3>1, <2>1, SettleTyped DEF ClientTyped
    <3>5. (\A c \in Callers : calls'[c] = calls[c]) => calls' = calls
      BY <3>4
    <3> QED BY <3>2, <3>3, <3>5
  <2> QED BY <1>2, <2>1, RefreshesMove
<1>3. CASE Write
  <2>1. writes \in Seq(WriteCall) /\ writes # <<>>
    BY <1>3, TypeParts DEF Typed, StoreTyped, Write
  <2>2. Len(Tail(writes)) = Len(writes) - 1 /\ Len(writes) \in Nat
    BY <2>1
  <2> QED BY <1>3, <2>2 DEF Write, client
<1> QED BY <1>1, <1>2, <1>3 DEF Works

\* What a call of each kind never is.
Staged ==
  /\ \A c \in Callers :
       /\ calls[c].pc = "waiting" => refreshing.pc # "idle" /\ c \in Requests \cup {"boot"}
       /\ calls[c].pc = "restoring" => c = "boot"
       /\ calls[c].pc = "storing" => c \notin Requests
  /\ Answered("login") => calls["login"].answer \in {"ok", "failed"}

\* Something that works is ready for its next step.
Ready ==
  \/ writes # <<>>
  \/ refreshing.pc \in {"sent", "answered"} \/ (refreshing.pc = "storing" /\ Written("refresh"))
  \/ \E c \in Callers :
       \/ calls[c].pc = "sent"
       \/ c = "boot" /\ calls[c].pc = "restoring"
       \/ Answered(c) /\ (c = "login" => calls[c].answer \in {"ok", "failed"})
       \/ c \notin Requests /\ calls[c].pc = "storing" /\ Written(c)

\* Whoever waits, waits for a refresh under way, and before rest something is ready.
NobodyStuck ==
  /\ \A c \in Callers : calls[c].pc = "waiting" => refreshing.pc # "idle"
  /\ AtRest \/ Ready

LEMMA StagedReady == ASSUME Typed, Staged PROVE NobodyStuck
<1>1. calls \in [Callers -> Call] /\ refreshing \in Refresh
  BY TypeParts DEF Typed, ClientTyped
<1>2. CASE writes # <<>>
  BY <1>2 DEF Staged, NobodyStuck, Ready
<1>3. CASE writes = <<>> /\ refreshing.pc # "idle"
  <2>1. Written("refresh")
    BY <1>3 DEF Written
  <2>2. refreshing.pc \in {"sent", "answered", "storing"}
    BY <1>1, <1>3 DEF Refresh
  <2> QED BY <2>1, <2>2 DEF Staged, NobodyStuck, Ready
<1>4. ASSUME writes = <<>>, refreshing.pc = "idle", NEW c \in Callers, Busy(c) PROVE NobodyStuck
  <2>1. Written(c)
    BY <1>4 DEF Written
  <2>2. calls[c].pc \in {"restoring", "sent", "answered", "waiting", "storing"}
    BY <1>1, <1>4 DEF Call, Busy
  <2> QED BY <1>4, <2>1, <2>2 DEF Staged, NobodyStuck, Ready, Answered
<1>5. CASE writes = <<>> /\ refreshing.pc = "idle" /\ \A c \in Callers : ~Busy(c)
  BY <1>5 DEF Staged, NobodyStuck, AtRest
<1> QED BY <1>2, <1>3, <1>4, <1>5

\* After a step call c is as before, or where its kind may be.
Lands(c) ==
  \/ calls'[c] = calls[c]
  \/ calls'[c].pc \in {"idle", "sent"}
  \/ calls'[c].pc = "answered" /\ (c = "login" => calls'[c].answer \in {"ok", "failed"})
  \/ calls'[c].pc = "storing" /\ c \notin Requests
  \/ calls'[c].pc = "waiting" /\ refreshing'.pc # "idle" /\ c \in Requests \cup {"boot"}

LEMMA StagedStays ==
  ASSUME Staged, \A c \in Callers : Lands(c),
         \/ refreshing.pc # "idle" => refreshing'.pc # "idle"
         \/ \A c \in Callers : calls'[c].pc # "waiting"
  PROVE  Staged'
<1>1. ASSUME NEW c \in Callers
      PROVE  /\ calls'[c].pc = "waiting" => refreshing'.pc # "idle" /\ c \in Requests \cup {"boot"}
             /\ calls'[c].pc = "restoring" => c = "boot"
             /\ calls'[c].pc = "storing" => c \notin Requests
  BY DEF Staged, Lands
<1>2. calls'["login"].pc = "answered" => calls'["login"].answer \in {"ok", "failed"}
  BY Constants DEF Staged, Lands, Answered
<1> QED BY <1>1, <1>2 DEF Staged, Answered

LEMMA StepStaged == ASSUME Typed, Staged, NEW c \in Callers, Step(c) \/ AnswerLost(c) PROVE Staged'
<1>1. ClientTyped /\ calls[c].token \in Tokens /\ None \in Tokens
  BY TypeParts, Constants DEF Typed, ClientTyped, Call
<1>2. /\ \A d \in Callers : d # c => calls'[d] = calls[d]
      /\ refreshing.pc # "idle" => refreshing'.pc # "idle"
  BY StepMoves DEF Moves
<1>10. \A d \in Callers : d # c => Lands(d)
  BY <1>2 DEF Lands
<1>3. SUFFICES Lands(c)
  BY <1>2, <1>10, StagedStays
<1>4. CASE Accept(c) \/ AnswerLost(c)
  <2>1. Effect(c) /\ (c = "login" => issued + 1 \in Tokens)
    BY <1>4, EffectTyped, TypeParts DEF Typed, Accept, AnswerLost
  <2> DEFINE u == IF c = "login" THEN issued + 1 ELSE calls[c].token
  <2>2. u \in Tokens
    BY <1>1, <2>1
  <2>3. End(c) \/ Answer(c, "ok", u) \/ Answer(c, "failed", None)
    BY <1>4 DEF Accept, AnswerLost
  <2> HIDE DEF u
  <2> QED BY <1>1, <2>2, <2>3, AnswerTyped, EndTyped DEF Lands
<1>5. CASE Refuse(c) \/ CallFails(c)
  BY <1>1, <1>5, AnswerTyped, EndTyped DEF Refuse, CallFails, Lands
<1>6. CASE c \in Requests \cup {"boot"} /\ Join(c)
  <2>1. calls'[c].pc = "waiting"
    BY <1>1, <1>6, ToTyped DEF Join
  <2>2. refreshing'.pc # "idle"
    BY <1>6 DEF Join, NoRefresh
  <2> QED BY <1>6, <2>1, <2>2 DEF Lands
<1>7. CASE \/ c \in Requests /\ Receive(c)
           \/ c = "boot" /\ (RestoreNothing \/ BootSucceeds \/ BootFindsNobody)
           \/ c = "login" /\ SignInFails
           \/ c \notin Requests /\ Stored(c)
  BY <1>1, <1>7, EndTyped DEF Receive, RestoreNothing, BootSucceeds, BootFindsNobody, SignInFails, Stored, Lands
<1>8. CASE c = "boot" /\ RestoreTokens
  BY <1>1, <1>8 DEF RestoreTokens, ClientTyped, Sent, Lands
<1>9. CASE \/ c = "boot" /\ BootFails
           \/ c = "login" /\ SignInSucceeds
           \/ c \in SignOuts /\ SignOutClears(c)
  <2>1. c \notin Requests
    BY <1>9, SessionConstants
  <2> QED BY <1>1, <1>9, <2>1, ToTyped DEF BootFails, SignInSucceeds, SignOutClears, Lands
<1>11. Step(c) =>
         \/ Accept(c) \/ Refuse(c) \/ CallFails(c)
         \/ c \in Requests \cup {"boot"} /\ Join(c)
         \/ c \in Requests /\ Receive(c)
         \/ c = "boot" /\ (RestoreNothing \/ BootSucceeds \/ BootFindsNobody)
         \/ c = "boot" /\ RestoreTokens
         \/ c = "boot" /\ BootFails
         \/ c = "login" /\ (SignInSucceeds \/ SignInFails)
         \/ c \in SignOuts /\ SignOutClears(c)
         \/ c \notin Requests /\ Stored(c)
  BY DEF Step
<1> QED BY <1>4, <1>5, <1>6, <1>7, <1>8, <1>9, <1>11

LEMMA SettleStaged == ASSUME Typed, Staged, NEW ok \in BOOLEAN, Settle(ok) PROVE Staged'
<1>1. ClientTyped
  BY TypeParts DEF Typed
<1>2. \A c \in Callers :
        \/ calls'[c] = calls[c] /\ calls[c].pc # "waiting"
        \/ calls'[c].pc \in {"sent", "idle"}
        \/ calls'[c].pc = "answered" /\ calls'[c].answer = "failed"
  BY <1>1, SettleTyped
<1>3. \A c \in Callers : Lands(c) /\ calls'[c].pc # "waiting"
  BY <1>2 DEF Lands
<1> QED BY <1>3, StagedStays

LEMMA StagedKept == ASSUME Typed, Staged, [Next]_vars PROVE Staged'
<1>1. ClientTyped
  BY TypeParts DEF Typed
<1>2. ASSUME calls' = calls, refreshing.pc # "idle" => refreshing'.pc # "idle" PROVE Staged'
  BY <1>2 DEF Staged, Answered
<1>3. CASE Refreshes \/ Rotate(FALSE)
  <2>1. refreshing'.pc # "idle" \/ \E ok \in BOOLEAN : Settle(ok)
    BY <1>1, <1>3 DEF ClientTyped, Refresh, Refreshes, Rotate, RefuseRefresh, RefreshCallFails,
                      KeepRefreshed, Refreshed, RefreshFails
  <2> QED BY <1>2, <1>3, <2>1, RefreshesMove, SettleStaged
<1>4. CASE Asks
  <2>1. \A c \in Callers : calls'[c] = calls[c] \/ calls'[c].pc = "sent"
    BY <1>1, <1>4 DEF Asks, SignIn, Fetch, SignOut, ClientTyped, Sent
  <2>2. refreshing' = refreshing
    BY <1>4 DEF Asks, SignIn, Fetch, SignOut
  <2>3. \A c \in Callers : Lands(c)
    BY <2>1 DEF Lands
  <2> QED BY <2>2, <2>3, StagedStays
<1>5. CASE WriteFails
  <2>1. CASE calls["login"].pc = "storing" /\ End("login") /\ UNCHANGED refreshing
    <3>1. \A c \in Callers : Lands(c)
      BY <1>1, <2>1, EndTyped, Constants DEF Lands
    <3> QED BY <2>1, <3>1, StagedStays
  <2>2. \/ Settle(FALSE)
        \/ calls["login"].pc = "storing" /\ End("login") /\ UNCHANGED refreshing
        \/ UNCHANGED <<calls, refreshing>>
    BY <1>5 DEF WriteFails
  <2> QED BY <1>2, <2>1, <2>2, SettleStaged
<1>6. CASE Kill
  <2>1. \A c \in Callers : calls'[c].pc = IF c = "boot" THEN "restoring" ELSE "idle"
    BY <1>6 DEF Kill, Idle
  <2> QED BY <2>1, Constants DEF Staged, Answered
<1>7. CASE Write \/ UNCHANGED vars
  <2>1. calls' = calls /\ refreshing' = refreshing
    BY <1>7 DEF Write, vars, client
  <2> QED BY <1>2, <2>1
<1> QED BY <1>3, <1>4, <1>5, <1>6, <1>7, StepStaged DEF Next, Works, Goes

LEMMA InitStaged == Init => Staged
<1> SUFFICES ASSUME Init PROVE Staged
  OBVIOUS
<1>1. \A c \in Callers : calls[c].pc = IF c = "boot" THEN "restoring" ELSE "idle"
  BY DEF Init, Idle
<1> QED BY <1>1, Constants DEF Staged, Answered

\* Nothing under way goes round in a circle (client.ts:123-163): a call that is refused
\* is sent again once, and each step of work leaves fewer steps of its call, of the
\* refresh, or writes to be done.
THEOREM WorkIsBounded == Spec => [][OnlyMovesOn]_vars
<1>1. Typed /\ [Next]_vars => [OnlyMovesOn]_vars
  BY NextMovesOn, WorksMoves DEF OnlyMovesOn
<1> QED BY <1>1, InitTyped, NextTyped, PTL DEF Spec

\* No call waits for a refresh that is over (client.ts:144-163), and until everything is
\* at rest some call, the refresh or the storage is ready for its next step.
THEOREM SomeWorkIsReady == Spec => []NobodyStuck
<1>1. Typed /\ Staged => NobodyStuck
  BY StagedReady
<1>2. Typed /\ Staged /\ [Next]_vars => (Typed /\ Staged)'
  BY NextTyped, StagedKept
<1> QED BY <1>1, <1>2, InitTyped, InitStaged, PTL DEF Spec

=============================================================================
