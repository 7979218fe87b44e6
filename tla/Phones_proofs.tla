--------------------------- MODULE Phones_proofs ---------------------------
(***************************************************************************)
(* The Flutter application, and a phone that runs it or the Swift one,     *)
(* present a spent refresh token only after a rotation they could not      *)
(* keep, and come to rest with one session in memory, storage and screen:  *)
(* for any requests, forms and presses of the sign-out button, any number  *)
(* of tokens, and any kinds and number of faults.                          *)
(*                                                                         *)
(* The argument: a refresh token is good when it is still to be spent or   *)
(* its session is over anyway.  What is stored is good, or it is the token *)
(* a refresh has just spent and will replace.  The token of a sign-in that *)
(* is still being stored is in one place only, so nobody spends it before. *)
(*                                                                         *)
(* As long as no changes of the tokens overlapped, whoever changes the     *)
(* storage brings it to what memory holds, and whoever changes memory      *)
(* brings it to the session of the screen, or the screen to it.            *)
(*                                                                         *)
(* Work is bounded and, until rest, some of it is ready: what coming to    *)
(* rest needs but for fairness.                                            *)
(*                                                                         *)
(* The theorems about a phone are at the end.  What the Swift application  *)
(* contributes is proved in SwiftSession_proofs and cited from there.      *)
(***************************************************************************)
EXTENDS MCPhones, TLAPS

-----------------------------------------------------------------------------
(* Types.                                                                  *)

Tokens == 0..MaxTokens
Pair == [access : Tokens, refresh : Tokens]
Call == [pc : {"idle", "restoring", "sent", "answered", "waiting", "access", "refresh"},
         token : Tokens, answer : {"none", "ok", "refused", "failed"}, retried : BOOLEAN]
Refresh == [pc : {"idle", "reading", "sent", "answered", "access", "refresh"},
            spends : Tokens, got : Tokens]

ClientTyped ==
  /\ token \in Tokens /\ stored \in Pair /\ refreshing \in Refresh
  /\ calls \in [Callers -> Call] /\ user \in Tokens /\ loading \in BOOLEAN
PastTyped == faults \in Nat /\ {reused, lost, crossed, broken} \subseteq BOOLEAN

LEMMA TypeParts ==
  /\ TypeOK <=> ServiceTyped /\ ClientTyped /\ PastTyped
  /\ TypeOK' <=> ServiceTyped' /\ ClientTyped' /\ PastTyped'
BY DEF TypeOK, ClientTyped, PastTyped, Tokens, Pair, Call, Refresh

LEMMA Constants ==
  /\ MaxTokens \in Nat /\ None = 0 /\ None \in Tokens
  /\ Pairs \subseteq Tokens /\ Tokens \subseteq Nat /\ Tokens \ {None} = Pairs
  /\ "boot" \in Callers /\ "boot" \notin SignIns \cup Requests \cup SignOuts
  /\ Requests \subseteq Callers /\ SignOuts \subseteq Callers /\ SignIns \subseteq Callers
  /\ SignIns \cap Requests = {} /\ SignIns \cap SignOuts = {} /\ SignOuts \cap Requests = {}
<1>1. /\ MaxTokens \in Nat /\ None = 0 /\ None \in Tokens
      /\ Pairs \subseteq Tokens /\ Tokens \subseteq Nat /\ Tokens \ {None} = Pairs
  BY FlutterConstants DEF None, Tokens, Pairs
<1>2. /\ "boot" \in Callers
      /\ Requests \subseteq Callers /\ SignOuts \subseteq Callers /\ SignIns \subseteq Callers
  BY DEF Callers
<1>3. /\ "boot" \notin SignIns \cup Requests \cup SignOuts
      /\ SignIns \cap Requests = {} /\ SignIns \cap SignOuts = {} /\ SignOuts \cap Requests = {}
  BY FlutterConstants
<1> QED BY <1>1, <1>2, <1>3

\* Records built by the client.
LEMMA Records ==
  /\ Idle \in Call /\ NoRefresh \in Refresh /\ Empty \in Pair
  /\ \A t \in Tokens : Storing(t) \in Call
  /\ \A t \in Tokens, b \in BOOLEAN : Sent(t, b) \in Call
  /\ Starting \in [Callers -> Call]
BY Constants DEF Idle, Call, NoRefresh, Refresh, Empty, Pair, Storing, Sent, Starting

\* What the backend keeps, and which pair it issues.
LEMMA IssueTyped ==
  ASSUME ServiceTyped, NEW t \in Tokens, Issue(t)
  PROVE  /\ issued \in Nat /\ issued' = issued + 1 /\ issued' \in Pairs
         /\ issued' \in Tokens /\ sessionOf' \in [Pairs -> Tokens]
         /\ \A u \in Pairs : u <= issued => sessionOf'[u] = sessionOf[u]
BY Constants DEF ServiceTyped, Issue, Tokens, Pairs

LEMMA GrantTyped ==
  ASSUME ServiceTyped, Grant
  PROVE  ServiceTyped' /\ issued + 1 \in Pairs
<1>1. Issue(None) /\ unspent' = unspent \cup {issued + 1} /\ UNCHANGED <<expired, ended>>
  BY DEF Grant
<1> QED BY <1>1, IssueTyped, Constants DEF ServiceTyped, Tokens

LEMMA EffectTyped ==
  ASSUME ServiceTyped, ClientTyped, NEW c \in Callers, Effect(c)
  PROVE  /\ ServiceTyped'
         /\ c \in SignIns => Grant /\ issued + 1 \in Pairs
         /\ c \notin SignIns => UNCHANGED <<issued, sessionOf, unspent>> /\ ended \subseteq ended'
         /\ c = "boot" => calls[c].token \in Pairs
<1>0. calls[c].token \in Tokens
  BY DEF ClientTyped, Call
<1>1. CASE c \in SignIns
  <2>1. Grant
    BY <1>1, Constants DEF Effect
  <2> QED BY <1>1, <2>1, GrantTyped, Constants
<1>2. CASE c \in SignOuts
  <2>1. Revoke(calls[c].token)
    BY <1>2, Constants DEF Effect
  <2>2. sessionOf[calls[c].token] \in Tokens
    BY <1>0, <2>1, Constants DEF Revoke, Accepts, ServiceTyped, Tokens
  <2> QED BY <1>2, <2>1, <2>2, Constants DEF Revoke, ServiceTyped, Tokens
<1>3. CASE c \in Requests \cup {"boot"}
  <2>1. Accepts(calls[c].token) /\ UNCHANGED server
    BY <1>3, Constants DEF Effect
  <2> QED BY <1>0, <1>3, <2>1, Constants DEF Accepts, ServiceTyped, server
<1> QED BY <1>1, <1>2, <1>3 DEF Callers

\* A token whose session is asked for was issued, and only requests wait.
Named ==
  /\ refreshing.pc = "sent" => refreshing.spends \in Pairs
  /\ calls["boot"].pc = "answered" /\ calls["boot"].answer = "ok" => calls["boot"].token \in Pairs
  /\ \A c \in SignIns : calls[c].pc # "waiting"

-----------------------------------------------------------------------------
(* The inductive invariant.                                                *)

GoodIn(t, open, session, over) == t = None \/ t \in open \/ session[t] \in over
Good(t) == GoodIn(t, unspent, sessionOf, ended)

\* Every token that is held has been issued.
Issued ==
  /\ unspent \subseteq 1..issued
  /\ stored.refresh <= issued /\ refreshing.spends <= issued /\ refreshing.got <= issued

\* A call that stores a token, or a sign-in that is about to.
FreshIn(call) == call.pc \in {"access", "refresh"} \/ (call.pc = "answered" /\ call.answer = "ok")
Fresh(c) == FreshIn(calls[c])

\* The token of a sign-in that is not yet stored is nowhere else.
FreshApart ==
  \A c \in SignIns : Fresh(c) =>
    /\ calls[c].token \in unspent
    /\ calls[c].token \notin {stored.refresh, refreshing.spends, refreshing.got}
    /\ \A d \in SignIns : d # c /\ Fresh(d) => calls[d].token # calls[c].token

\* Everybody else who touches the storage empties it.
Cleared == \A c \in Callers \ SignIns : Stores(c) => calls[c].token = None

Kept ==
  /\ Good(stored.refresh) \/ (refreshing.got # None /\ stored.refresh = refreshing.spends)
  /\ refreshing.pc = "sent" => Good(refreshing.spends) /\ refreshing.got = None
  /\ refreshing.got # None =>
       Good(refreshing.got) /\ refreshing.pc \in {"answered", "access", "refresh"}
  /\ refreshing.pc \in {"access", "refresh"} => refreshing.got # None

\* The inductive strengthening of ReuseNeedsALoss.
Careful ==
  /\ TypeOK /\ Named /\ Issued /\ FreshApart /\ Cleared
  /\ ~lost => Kept /\ ~reused

LEMMA Parts ==
  ASSUME Careful
  PROVE  /\ ServiceTyped /\ ClientTyped /\ PastTyped /\ Named /\ Issued /\ FreshApart /\ Cleared
         /\ issued \in Nat /\ issued + 1 \in Nat
         /\ {stored.refresh, refreshing.spends, refreshing.got} \subseteq Tokens
         /\ {stored.refresh, refreshing.spends, refreshing.got} \subseteq 0..issued
<1>1. ServiceTyped /\ ClientTyped /\ PastTyped /\ Named /\ Issued /\ FreshApart /\ Cleared
  BY TypeParts DEF Careful
<1>2. issued \in Nat /\ {stored.refresh, refreshing.spends, refreshing.got} \subseteq Tokens
  BY <1>1, Constants DEF ServiceTyped, ClientTyped, Pair, Refresh
<1> QED BY <1>1, <1>2, Constants DEF Issued, Tokens

LEMMA Whole ==
  ASSUME ServiceTyped', ClientTyped', PastTyped', Named', Issued', FreshApart', Cleared',
         ~lost' => Kept' /\ ~reused'
  PROVE  Careful'
BY TypeParts DEF Careful

\* What a step may do to the tokens of the backend, but for a rotation.
Grows ==
  /\ issued' \in Nat /\ issued <= issued' /\ unspent' \subseteq 1..issued'
  /\ unspent \subseteq unspent' /\ ended \subseteq ended'
  /\ \A u \in Pairs : u <= issued => sessionOf'[u] = sessionOf[u]

LEMMA GoodStays ==
  ASSUME Grows, NEW t \in Tokens, t <= issued, GoodIn(t, unspent, sessionOf, ended)
  PROVE  GoodIn(t, unspent', sessionOf', ended')
<1>1. t # None => t \in Pairs
  BY Constants
<1> QED BY <1>1 DEF Grows, GoodIn

LEMMA SameGrows ==
  ASSUME Careful, UNCHANGED <<issued, sessionOf, unspent>>, ended \subseteq ended'
  PROVE  Grows
BY Parts DEF Grows, Issued

LEMMA EffectGrows ==
  ASSUME Careful, NEW c \in Callers, Effect(c)
  PROVE  Grows
<1>1. ServiceTyped /\ ClientTyped /\ Issued /\ issued \in Nat
  BY Parts
<1>2. CASE c \in SignIns
  <2>1. Issue(None) /\ unspent' = unspent \cup {issued + 1} /\ UNCHANGED <<expired, ended>>
    BY <1>1, <1>2, EffectTyped DEF Grant
  <2> QED BY <1>1, <2>1, IssueTyped, Constants DEF Grows, Issued
<1>3. CASE c \notin SignIns
  BY <1>1, <1>3, EffectTyped, SameGrows
<1> QED BY <1>2, <1>3

\* The tokens in hand.
held == {stored.refresh, refreshing.spends, refreshing.got}

\* No sign-in is answered: what is in hand afterwards was so before, is new, or
\* comes from a sign-in that has now been stored.
LEMMA ApartOld ==
  ASSUME Careful, \A t \in unspent : t = refreshing.spends \/ t \in unspent',
         \A d \in SignIns : Fresh(d)' => Fresh(d) /\ calls'[d].token = calls[d].token,
         \A t \in held' : \/ t \in held \cup {None, issued + 1}
                          \/ \E c \in SignIns : Fresh(c) /\ ~Fresh(c)' /\ t = calls[c].token
  PROVE  FreshApart'
<1>1. SUFFICES ASSUME NEW c \in SignIns, Fresh(c)'
               PROVE  /\ calls'[c].token \in unspent'
                      /\ calls'[c].token \notin held'
                      /\ \A d \in SignIns : d # c /\ Fresh(d)' => calls'[d].token # calls'[c].token
  BY DEF FreshApart, held
<1> DEFINE t == calls[c].token
<1>2. Fresh(c) /\ calls'[c].token = t
  BY <1>1
<1>3. t \in unspent /\ t \notin held /\ t # None /\ t # issued + 1
      /\ \A d \in SignIns : d # c /\ Fresh(d) => calls[d].token # t
  <2>1. t \in unspent /\ t \notin held /\ \A d \in SignIns : d # c /\ Fresh(d) => calls[d].token # t
    BY <1>2, Parts DEF FreshApart, held
  <2>2. t \in 1..issued /\ issued \in Nat
    BY <2>1, Parts DEF Issued
  <2> QED BY <2>1, <2>2, Constants
<1>4. t \in unspent'
  BY <1>3 DEF held
<1>5. t \notin held'
  <2>1. SUFFICES ASSUME NEW c2 \in SignIns, Fresh(c2), ~Fresh(c2)', t = calls[c2].token PROVE FALSE
    BY <1>3
  <2>2. c2 # c
    BY <1>1, <2>1
  <2> QED BY <1>3, <2>1, <2>2
<1> QED BY <1>2, <1>3, <1>4, <1>5

\* A sign-in is answered with a new pair.
LEMMA ApartNew ==
  ASSUME Careful, NEW c \in SignIns, unspent \subseteq unspent', held' = held,
         \A d \in SignIns : d # c => calls'[d] = calls[d],
         calls'[c].token = issued + 1, issued + 1 \in unspent'
  PROVE  FreshApart'
<1>1. \A d \in SignIns : Fresh(d) =>
        /\ calls[d].token \in unspent /\ calls[d].token \notin held
        /\ \A e \in SignIns : e # d /\ Fresh(e) => calls[e].token # calls[d].token
  BY Parts DEF FreshApart, held
<1>2. \A t \in unspent : t # issued + 1
  BY Parts DEF Issued
<1>3. issued + 1 \notin held
  BY Parts DEF held
<1> QED BY <1>1, <1>2, <1>3 DEF FreshApart, held, Fresh

\* Who touches the storage and is no sign-in empties it.
LEMMA ClearedKept ==
  ASSUME Careful,
         \A d \in Callers \ SignIns :
           \/ calls'[d] = calls[d]
           \/ calls'[d].pc \in {"access", "refresh"} => calls'[d].token = None
  PROVE  Cleared'
BY Parts DEF Cleared, Stores

LEMMA NamedKept ==
  ASSUME Careful, refreshing'.pc = "sent" => refreshing'.spends \in Pairs,
         \A d \in SignIns \cup {"boot"} :
           \/ calls'[d] = calls[d]
           \/ /\ calls'[d].pc # "waiting"
              /\ d = "boot" /\ calls'[d].pc = "answered" /\ calls'[d].answer = "ok" =>
                   calls'[d].token \in Pairs
  PROVE  Named'
<1>1. Named /\ "boot" \notin SignIns
  BY Parts, Constants
<1> QED BY <1>1 DEF Named

\* A step that spends nothing and leaves the refresh and the stored refresh
\* token as they are keeps what was kept.
LEMMA KeptByGrowth ==
  ASSUME Careful, Kept, Grows, refreshing' = refreshing, stored'.refresh = stored.refresh
  PROVE  Kept'
<1>1. \A t \in held : Good(t) => GoodIn(t, unspent', sessionOf', ended')
  BY Parts, GoodStays DEF held, Good
<1> QED BY <1>1 DEF Kept, Good, held

-----------------------------------------------------------------------------
(* The initial states.                                                     *)

LEMMA InitCareful == Init => Careful
<1> SUFFICES ASSUME Init PROVE Careful
  OBVIOUS
<1>1. \A c \in Callers : calls[c].pc \in {"idle", "restoring"}
  BY DEF Init, Starting, Idle
<1>2. /\ issued = 0 /\ unspent = {} /\ ended = {} /\ expired = {}
      /\ sessionOf = [t \in Pairs |-> None]
      /\ stored = Empty /\ stored.refresh = None
      /\ refreshing = NoRefresh /\ refreshing.pc = "idle"
      /\ refreshing.spends = None /\ refreshing.got = None
  BY DEF Init, NothingIssued, NoRefresh, Empty
<1>3. ServiceTyped
  BY <1>2, Constants DEF ServiceTyped, Tokens
<1>4. ClientTyped /\ PastTyped
  BY Records, Constants DEF Init, ClientTyped, PastTyped
<1>5. Named /\ FreshApart /\ Cleared
  BY <1>1, <1>2, Constants DEF Named, FreshApart, Fresh, FreshIn, Cleared, Stores
<1>6. Issued /\ Kept /\ ~reused
  BY <1>2, Constants DEF Init, Issued, Kept, Good, GoodIn
<1> QED BY <1>3, <1>4, <1>5, <1>6, TypeParts DEF Careful

-----------------------------------------------------------------------------
(* Steps of one call.                                                      *)

\* The refresh is as it was, or it has just been begun.
Begun == refreshing.pc = "idle" /\ refreshing' = [NoRefresh EXCEPT !.pc = "reading"]

LEMMA PutTyped ==
  ASSUME ClientTyped, NEW c \in Callers, NEW rec \in Call, Put(c, rec)
  PROVE  /\ calls' \in [Callers -> Call] /\ calls'[c] = rec
         /\ \A d \in Callers : d # c => calls'[d] = calls[d]
BY DEF ClientTyped, Put

LEMMA CallStep ==
  ASSUME Careful, NEW c \in Callers, NEW rec \in Call, Put(c, rec),
         ServiceTyped', PastTyped', Grows, reused' = reused, lost => lost',
         refreshing' = refreshing \/ Begun,
         stored' \in Pair, stored'.refresh = stored.refresh,
         token' \in Tokens, user' \in Tokens, loading' \in BOOLEAN,
         c = "boot" /\ rec.pc = "answered" /\ rec.answer = "ok" => rec.token \in Pairs,
         c \notin SignIns /\ rec.pc \in {"access", "refresh"} => rec.token = None,
         c \in SignIns \cup {"boot"} => rec.pc # "waiting",
         c \in SignIns /\ FreshIn(rec) =>
           \/ Fresh(c) /\ rec.token = calls[c].token
           \/ rec.token = issued + 1 /\ issued + 1 \in unspent'
              /\ refreshing' = refreshing
  PROVE  Careful'
<1>1. /\ ClientTyped /\ Named /\ Issued /\ FreshApart
      /\ \A t \in held : t \in Nat /\ t <= issued
  BY Parts DEF held
<1>2. /\ calls' \in [Callers -> Call] /\ calls'[c] = rec
      /\ \A d \in Callers : d # c => calls'[d] = calls[d]
  BY <1>1, PutTyped
<1>3. /\ refreshing' \in Refresh
      /\ Begun => refreshing'.pc = "reading" /\ refreshing'.spends = None /\ refreshing'.got = None
  BY <1>1, Records DEF Begun, Refresh, ClientTyped, NoRefresh
<1>4. ClientTyped'
  BY <1>2, <1>3 DEF ClientTyped
<1>5. held' \subseteq held \cup {None}
  BY <1>3 DEF held
<1>6. Named'
  BY <1>1, <1>2, <1>3, NamedKept, Constants DEF Named
<1>7. Issued'
  <2>1. \A t \in held' : t <= issued'
    BY <1>1, <1>5, Constants, Parts DEF Grows
  <2> QED BY <2>1 DEF Issued, held, Grows
<1>8. FreshApart'
  <2>1. CASE c \in SignIns /\ FreshIn(rec) /\ ~(Fresh(c) /\ rec.token = calls[c].token)
    BY <1>2, <2>1, ApartNew, Constants DEF held, Grows
  <2>2. CASE ~(c \in SignIns /\ FreshIn(rec) /\ ~(Fresh(c) /\ rec.token = calls[c].token))
    <3>1. \A d \in SignIns : Fresh(d)' => Fresh(d) /\ calls'[d].token = calls[d].token
      BY <1>2, <2>2, Constants DEF Fresh
    <3> QED BY <1>5, <3>1, ApartOld DEF Grows
  <2> QED BY <2>1, <2>2
<1>9. Cleared'
  BY <1>2, ClearedKept
<1>10. ~lost' => Kept' /\ ~reused'
  <2>1. CASE refreshing' = refreshing
    BY <2>1, KeptByGrowth DEF Careful
  <2>2. CASE Begun
    <3>1. SUFFICES ASSUME Kept PROVE Kept'
      BY DEF Careful
    <3>2. Good(stored.refresh)
      BY <2>2, <3>1 DEF Kept, Begun
    <3>3. GoodIn(stored.refresh, unspent', sessionOf', ended')
      BY <3>2, GoodStays, Parts DEF Good
    <3> QED BY <1>3, <2>2, <3>3, Constants DEF Kept, Good
  <2> QED BY <2>1, <2>2
<1> QED BY <1>4, <1>6, <1>7, <1>8, <1>9, <1>10, Whole

\* Steps of one call that leave all but calls and screen alone.
LEMMA QuietStep ==
  ASSUME Careful, NEW c \in Callers, NEW rec \in Call, Put(c, rec),
         UNCHANGED <<server, refreshing, stored, past>>, token' \in Tokens,
         user' \in Tokens, loading' \in BOOLEAN,
         ~FreshIn(rec), c \in SignIns \cup {"boot"} => rec.pc # "waiting"
  PROVE  Careful'
<1>1. ServiceTyped' /\ PastTyped' /\ stored' \in Pair
  BY Parts DEF ServiceTyped, PastTyped, ClientTyped, server, past
<1>2. Grows
  BY SameGrows DEF server
<1> QED BY <1>1, <1>2, CallStep DEF past, FreshIn

LEMMA ScreenTyped ==
  ASSUME Careful
  PROVE  token \in Tokens /\ user \in Tokens /\ loading \in BOOLEAN /\ calls \in [Callers -> Call]
         /\ stored.access \in Tokens /\ \A c \in Callers : calls[c].token \in Tokens
BY Parts DEF ClientTyped, Pair, Call

LEMMA AsksCareful == ASSUME Careful, Asks PROVE Careful'
<1> USE ScreenTyped, Constants, Records
<1>1. ASSUME NEW c \in Requests, Fetch(c) PROVE Careful'
  BY <1>1, QuietStep DEF Fetch, screen, Sent, FreshIn
<1>2. ASSUME NEW c \in SignIns, SignIn(c) PROVE Careful'
  BY <1>2, QuietStep DEF SignIn, screen, Sent, FreshIn
<1>3. ASSUME NEW c \in SignOuts, SignOut(c) PROVE Careful'
  <2> DEFINE failed == [Idle EXCEPT !.pc = "answered", !.answer = "failed"]
  <2>1. failed \in Call /\ failed.pc = "answered" /\ failed.answer = "failed"
    BY DEF Idle, Call
  <2>2. Sent(token, FALSE).pc = "sent"
    BY DEF Sent
  <2> HIDE DEF failed
  <2>3. PICK rec \in Call : Put(c, rec) /\ ~FreshIn(rec)
    BY <1>3, <2>1, <2>2 DEF SignOut, FreshIn, failed
  <2> QED BY <1>3, <2>3, QuietStep DEF SignOut, screen
<1> QED BY <1>1, <1>2, <1>3 DEF Asks

\* An answer of the backend, or none, is put on record.
LEMMA AnswerRec ==
  ASSUME Careful, NEW c \in Callers, NEW a \in {"none", "ok", "refused", "failed"},
         NEW t \in Tokens, Answer(c, a, t)
  PROVE  \E rec \in Call : /\ Put(c, rec)
                           /\ rec.pc = "answered" /\ rec.answer = a /\ rec.token = t
<1> DEFINE rec == [calls[c] EXCEPT !.pc = "answered", !.answer = a, !.token = t]
<1>1. calls[c] \in Call
  BY ScreenTyped
<1>2. rec \in Call /\ rec.pc = "answered" /\ rec.answer = a /\ rec.token = t
  BY <1>1 DEF Call
<1> QED BY <1>2 DEF Answer

\* The backend accepts a call, and the answer arrives or is lost.
LEMMA EffectCareful ==
  ASSUME Careful, NEW c \in Callers, Effect(c), UNCHANGED <<token, refreshing, stored, screen>>,
         PastTyped', reused' = reused, lost' = lost,
         \/ c \in Requests /\ End(c)
         \/ c \notin Requests
            /\ Answer(c, "ok", IF c \in SignIns THEN issued + 1 ELSE calls[c].token)
         \/ Answer(c, "failed", None)
  PROVE  Careful'
<1> USE ScreenTyped, Constants, Records
<1>1. /\ ServiceTyped' /\ Grows
      /\ c \in SignIns => issued + 1 \in Pairs /\ issued + 1 \in unspent'
      /\ c = "boot" => calls[c].token \in Pairs
  BY EffectTyped, EffectGrows, Parts DEF Grant
<1>2. stored' \in Pair /\ token' \in Tokens /\ user' \in Tokens /\ loading' \in BOOLEAN
  BY Parts DEF ClientTyped, screen
<1>3. PICK rec \in Call :
        /\ Put(c, rec)
        /\ \/ rec.pc = "idle"
           \/ rec.pc = "answered" /\ rec.answer = "failed"
           \/ rec.pc = "answered" /\ rec.token = IF c \in SignIns THEN issued + 1 ELSE calls[c].token
  <2>1. CASE End(c)
    BY <2>1 DEF End, Idle
  <2>2. CASE Answer(c, "failed", None)
    BY <2>2, AnswerRec
  <2>3. CASE Answer(c, "ok", IF c \in SignIns THEN issued + 1 ELSE calls[c].token)
    <3> DEFINE t == IF c \in SignIns THEN issued + 1 ELSE calls[c].token
    <3>1. t \in Tokens /\ Answer(c, "ok", t)
      BY <1>1, <2>3
    <3> HIDE DEF t
    <3>2. PICK rec \in Call : Put(c, rec) /\ rec.pc = "answered" /\ rec.token = t
      BY ONLY Careful, c \in Callers, <3>1, AnswerRec
    <3> QED BY <3>2 DEF t
  <2> QED BY <2>1, <2>2, <2>3
<1> QED BY <1>1, <1>2, <1>3, CallStep DEF FreshIn

LEMMA AcceptCareful == ASSUME Careful, NEW c \in Callers, Accept(c) PROVE Careful'
<1>1. PastTyped'
  BY Parts DEF Accept, past, PastTyped
<1> QED BY <1>1, EffectCareful DEF Accept, past

LEMMA FaultTyped == ASSUME Careful, NEW f, Fault(f) PROVE faults' \in Nat
BY Parts, FlutterConstants DEF PastTyped, Fault

LEMMA AnswerLostCareful == ASSUME Careful, NEW c \in Callers, AnswerLost(c) PROVE Careful'
<1>1. PastTyped'
  BY Parts, FaultTyped DEF AnswerLost, PastTyped
<1> QED BY <1>1, EffectCareful DEF AnswerLost

LEMMA RefuseCareful == ASSUME Careful, NEW c \in Callers, Refuse(c) PROVE Careful'
<1> USE ScreenTyped, Constants, Records
<1>1. ServiceTyped' /\ PastTyped' /\ Grows
  <2>1. expired' \subseteq Pairs
    BY Parts DEF Refuse, Expire, ServiceTyped
  <2>2. UNCHANGED <<issued, sessionOf, unspent, ended, past>>
    BY DEF Refuse, Expire
  <2> QED BY <2>1, <2>2, SameGrows, Parts DEF ServiceTyped, PastTyped, past
<1>2. stored' \in Pair /\ token' \in Tokens /\ user' \in Tokens /\ loading' \in BOOLEAN
  BY Parts DEF Refuse, ClientTyped, screen
<1>3. PICK rec \in Call : Put(c, rec) /\ ~FreshIn(rec) /\ rec.pc # "waiting"
  <2>1. CASE End(c)
    BY <2>1 DEF End, Idle, FreshIn
  <2>2. CASE Answer(c, "refused", calls[c].token)
    <3> DEFINE t == calls[c].token
    <3>1. t \in Tokens /\ Answer(c, "refused", t)
      BY <2>2
    <3> HIDE DEF t
    <3>2. PICK rec \in Call : Put(c, rec) /\ rec.pc = "answered" /\ rec.answer = "refused"
      BY ONLY Careful, c \in Callers, <3>1, AnswerRec
    <3> QED BY <3>2 DEF FreshIn
  <2> QED BY <2>1, <2>2 DEF Refuse
<1> QED BY <1>1, <1>2, <1>3, CallStep DEF Refuse, past, FreshIn

LEMMA CallFailsCareful == ASSUME Careful, NEW c \in Callers, CallFails(c) PROVE Careful'
<1> USE ScreenTyped, Constants, Records
<1>1. PICK rec \in Call : Put(c, rec) /\ ~FreshIn(rec) /\ rec.pc # "waiting"
  <2>1. CASE End(c)
    BY <2>1 DEF End, Idle, FreshIn
  <2>2. CASE Answer(c, "failed", None)
    <3>1. PICK rec \in Call : Put(c, rec) /\ rec.pc = "answered" /\ rec.answer = "failed"
      BY <2>2, AnswerRec
    <3> QED BY <3>1 DEF FreshIn
  <2> QED BY <2>1, <2>2 DEF CallFails
<1> QED BY <1>1, QuietStep DEF CallFails, screen

LEMMA JoinCareful == ASSUME Careful, NEW c \in Requests, Join(c) PROVE Careful'
<1> USE ScreenTyped, Constants, Records
<1> DEFINE rec == [calls[c] EXCEPT !.pc = "waiting"]
<1>1. rec \in Call /\ rec.pc = "waiting" /\ Put(c, rec)
  BY DEF Join, Call
<1>2. ServiceTyped' /\ PastTyped' /\ stored' \in Pair /\ Grows
  <2>1. UNCHANGED <<server, stored, faults, reused, lost, broken>> /\ crossed' \in BOOLEAN
    BY Parts DEF Join, PastTyped
  <2> QED BY <2>1, SameGrows, Parts DEF ServiceTyped, PastTyped, ClientTyped, server
<1>3. refreshing' = refreshing \/ Begun
  BY DEF Join, Begun
<1> HIDE DEF rec
<1> QED BY <1>1, <1>2, <1>3, CallStep DEF Join, screen, FreshIn

\* Whoever stores or empties the storage.
LEMMA StoringRec ==
  ASSUME NEW t \in Tokens
  PROVE  Storing(t) \in Call /\ Storing(t).pc = "access" /\ Storing(t).token = t
BY Records DEF Storing, Idle

LEMMA StoringStep ==
  ASSUME Careful, NEW c \in Callers, NEW t \in Tokens, Put(c, Storing(t)),
         c \in SignIns => Fresh(c) /\ t = calls[c].token, c \notin SignIns => t = None,
         UNCHANGED <<server, refreshing, stored, screen, faults, reused, lost, broken>>,
         token' \in Tokens, crossed' \in BOOLEAN
  PROVE  Careful'
<1>1. ServiceTyped' /\ PastTyped' /\ stored' \in Pair /\ Grows
  BY SameGrows, Parts DEF ServiceTyped, PastTyped, ClientTyped, server
<1> QED BY <1>1, StoringRec, ScreenTyped, Constants, CallStep DEF screen

LEMMA BootCareful ==
  ASSUME Careful, RestoreNothing \/ RestoreToken \/ BootSucceeds \/ BootFails
  PROVE  Careful'
<1> USE ScreenTyped, Constants, Records
<1>1. Idle.pc = "idle" /\ ~FreshIn(Idle)
  BY DEF Idle, FreshIn
<1>2. CASE RestoreNothing
  BY <1>1, <1>2, QuietStep DEF RestoreNothing, End
<1>3. CASE RestoreToken
  BY <1>3, QuietStep DEF RestoreToken, Sent, FreshIn, screen
<1>4. CASE BootSucceeds
  <2>1. calls["boot"].token \in Pairs
    BY <1>4, Parts DEF BootSucceeds, Answered, Named
  <2>2. sessionOf[calls["boot"].token] \in Tokens
    BY <2>1, Parts DEF ServiceTyped, Tokens
  <2> QED BY <1>1, <1>4, <2>1, <2>2, QuietStep DEF BootSucceeds, End
<1>5. CASE BootFails
  <2>1. crossed' \in BOOLEAN
    BY <1>5, Parts DEF BootFails, past, PastTyped
  <2> QED BY <1>5, <2>1, StoringStep DEF BootFails, past, screen
<1> QED BY <1>2, <1>3, <1>4, <1>5

LEMMA SignInCareful ==
  ASSUME Careful, NEW c \in SignIns, SignInSucceeds(c) \/ SignInFails(c)
  PROVE  Careful'
<1> USE ScreenTyped, Constants, Records
<1>1. CASE SignInSucceeds(c)
  <2>1. Fresh(c)
    BY <1>1 DEF SignInSucceeds, Answered, Fresh, FreshIn
  <2>2. crossed' \in BOOLEAN
    BY <1>1, Parts DEF SignInSucceeds, Crosses, PastTyped
  <2> QED BY <1>1, <2>1, <2>2, StoringStep DEF SignInSucceeds, screen
<1>2. CASE SignInFails(c)
  <2>1. Idle.pc = "idle" /\ ~FreshIn(Idle)
    BY DEF Idle, FreshIn
  <2> QED BY <1>2, <2>1, QuietStep DEF SignInFails, End, screen
<1> QED BY <1>1, <1>2

LEMMA SignOutCareful ==
  ASSUME Careful, NEW c \in SignOuts, SignOutClears(c) PROVE Careful'
<1>1. crossed' \in BOOLEAN
  BY Parts DEF SignOutClears, Crosses, PastTyped
<1> QED BY <1>1, StoringStep, Constants DEF SignOutClears, screen

LEMMA StoreAccessCareful ==
  ASSUME Careful, NEW c \in Callers, StoreAccess(c) PROVE Careful'
<1> USE ScreenTyped, Constants
<1> DEFINE rec == [calls[c] EXCEPT !.pc = "refresh"]
<1>1. rec \in Call /\ rec.pc = "refresh" /\ rec.token = calls[c].token /\ Put(c, rec)
  BY DEF StoreAccess, Call
<1>2. Fresh(c) /\ (c \notin SignIns => calls[c].token = None)
  BY Parts DEF StoreAccess, Fresh, FreshIn, Cleared, Stores
<1>3. ServiceTyped' /\ PastTyped' /\ Grows
  BY SameGrows, Parts DEF StoreAccess, ServiceTyped, PastTyped, server, past
<1>4. stored' \in Pair /\ stored'.refresh = stored.refresh
  BY Parts DEF StoreAccess, ClientTyped, Pair
<1> HIDE DEF rec
<1> QED BY <1>1, <1>2, <1>3, <1>4, CallStep DEF StoreAccess, screen, past

LEMMA StoreFailsCareful ==
  ASSUME Careful, NEW c \in Callers, StoreFails(c) PROVE Careful'
<1> USE ScreenTyped, Constants, Records
<1>1. ServiceTyped' /\ PastTyped' /\ Grows /\ stored' \in Pair
  BY SameGrows, FaultTyped, Parts DEF StoreFails, ServiceTyped, PastTyped, server, ClientTyped
<1>2. Idle.pc = "idle" /\ ~FreshIn(Idle)
  BY DEF Idle, FreshIn
<1> QED BY <1>1, <1>2, CallStep DEF StoreFails, End, FreshIn

\* The second key: the token of a sign-in is now the one stored.
LEMMA StoreRefreshCareful ==
  ASSUME Careful, NEW c \in Callers, StoreRefresh(c) PROVE Careful'
<1> USE ScreenTyped, Constants, Records
<1>1. /\ Fresh(c) /\ (c \notin SignIns => calls[c].token = None)
      /\ c \in SignIns => calls[c].token \in unspent /\ calls[c].token \in Pairs
                          /\ calls[c].token <= issued
  <2>1. Fresh(c) /\ (c \notin SignIns => calls[c].token = None)
    BY Parts DEF StoreRefresh, Fresh, FreshIn, Cleared, Stores
  <2>2. c \in SignIns => calls[c].token \in unspent
    BY <2>1, Parts DEF FreshApart
  <2> QED BY <2>1, <2>2, Parts DEF Issued, ServiceTyped
<1>2. /\ calls' \in [Callers -> Call] /\ calls'[c] = Idle
      /\ \A d \in Callers : d # c => calls'[d] = calls[d]
  BY PutTyped, Parts DEF StoreRefresh, End
<1>3. stored' \in Pair /\ stored'.refresh = calls[c].token
  BY Parts DEF StoreRefresh, ClientTyped, Pair
<1>4. UNCHANGED <<server, token, refreshing, past>>
  BY DEF StoreRefresh
<1>5. ServiceTyped' /\ PastTyped'
  BY <1>4, Parts DEF ServiceTyped, PastTyped, server, past
<1>6. ClientTyped'
  <2>1. user' \in Tokens
    BY <1>1, Parts DEF StoreRefresh, ServiceTyped, Tokens
  <2> QED BY <1>2, <1>3, <1>4, <2>1, Parts DEF ClientTyped, StoreRefresh
<1>7. Idle.pc = "idle" /\ ~FreshIn(Idle)
  BY DEF Idle, FreshIn
<1>8. Named'
  BY <1>2, <1>4, <1>7, NamedKept, Parts DEF Named
<1>9. Issued'
  <2>1. calls[c].token <= issued
    BY <1>1, Parts
  <2> QED BY <1>3, <1>4, <2>1, Parts DEF Issued, server
<1>10. FreshApart'
  <2>1. ~Fresh(c)'
    BY <1>2, <1>7 DEF Fresh
  <2>2. \A d \in SignIns : Fresh(d)' => Fresh(d) /\ calls'[d].token = calls[d].token
    BY <1>2, <2>1 DEF Fresh
  <2>3. held' \subseteq held \cup {calls[c].token}
    BY <1>3, <1>4 DEF held
  <2> QED BY <1>1, <1>4, <2>1, <2>2, <2>3, ApartOld DEF server
<1>11. Cleared'
  BY <1>2, <1>7, ClearedKept
<1>12. ~lost' => Kept' /\ ~reused'
  <2>1. GoodIn(stored'.refresh, unspent', sessionOf', ended')
    BY <1>1, <1>3, <1>4 DEF GoodIn, server
  <2>2. Kept => Kept'
    BY <1>4, <2>1 DEF Kept, Good, server
  <2> QED BY <1>4, <2>2 DEF Careful, past
<1> QED BY <1>5, <1>6, <1>8, <1>9, <1>10, <1>11, <1>12, Whole

LEMMA StepCareful == ASSUME Careful, NEW c \in Callers, Step(c) PROVE Careful'
<1>1. CASE Accept(c) \/ Refuse(c) \/ CallFails(c)
  BY <1>1, AcceptCareful, RefuseCareful, CallFailsCareful
<1>2. CASE StoreAccess(c) \/ StoreRefresh(c)
  BY <1>2, StoreAccessCareful, StoreRefreshCareful
<1>3. CASE c \in Requests /\ Join(c)
  BY <1>3, JoinCareful
<1>4. CASE c = "boot" /\ (RestoreNothing \/ RestoreToken \/ BootSucceeds \/ BootFails)
  BY <1>4, BootCareful
<1>5. CASE c \in SignIns /\ (SignInSucceeds(c) \/ SignInFails(c))
  BY <1>5, SignInCareful
<1>6. CASE c \in SignOuts /\ SignOutClears(c)
  BY <1>6, SignOutCareful
<1> QED BY <1>1, <1>2, <1>3, <1>4, <1>5, <1>6 DEF Step

-----------------------------------------------------------------------------
(* Steps of the refresh.                                                   *)

\* The end of a refresh: those who waited get other calls, none of them fresh
\* of a sign-in.
LEMMA Awakened ==
  ASSUME Careful, NEW rec \in Call, ~FreshIn(rec) \/ rec = Storing(None), rec.pc # "waiting",
         calls' = [c \in Callers |-> IF calls[c].pc = "waiting" THEN rec ELSE calls[c]]
  PROVE  /\ calls' \in [Callers -> Call]
         /\ \A d \in SignIns : calls'[d] = calls[d]
         /\ calls'["boot"] = calls["boot"] \/ calls'["boot"] = rec
         /\ Cleared'
<1> USE ScreenTyped, Constants
<1>1. calls' \in [Callers -> Call]
  OBVIOUS
<1>2. \A d \in SignIns : calls'[d] = calls[d]
  BY Parts DEF Named
<1>3. rec.pc \in {"access", "refresh"} => rec.token = None
  BY StoringRec DEF FreshIn
<1>4. Cleared'
  BY <1>3, ClearedKept
<1> QED BY <1>1, <1>2, <1>4

LEMMA TearDownCareful ==
  ASSUME Careful, TearDown, UNCHANGED <<server, stored, screen, reused>>, PastTyped',
         ~lost' => ~lost /\ refreshing.got = None
  PROVE  Careful'
<1> USE ScreenTyped, Constants, Records
<1>1. /\ calls' \in [Callers -> Call]
      /\ \A d \in SignIns : calls'[d] = calls[d]
      /\ calls'["boot"] = calls["boot"] \/ calls'["boot"] = Storing(None)
      /\ Cleared'
  <2>1. Storing(None) \in Call /\ Storing(None).pc = "access"
    BY StoringRec
  <2> QED BY <2>1, Awakened DEF TearDown
<1>2. /\ refreshing' = NoRefresh /\ token' = None
      /\ refreshing'.pc = "idle" /\ refreshing'.spends = None /\ refreshing'.got = None
  BY DEF TearDown, NoRefresh
<1>3. ServiceTyped' /\ ClientTyped'
  BY <1>1, <1>2, Parts DEF ServiceTyped, ClientTyped, server, screen
<1>4. Named'
  <2>1. Storing(None).pc = "access"
    BY StoringRec
  <2> QED BY <1>1, <1>2, <2>1, NamedKept
<1>5. Issued'
  BY <1>2, Parts DEF Issued, server
<1>6. FreshApart'
  <2>1. held' \subseteq held \cup {None}
    BY <1>2 DEF held
  <2> QED BY <1>1, <2>1, ApartOld DEF server, Fresh
<1>7. ~lost' => Kept' /\ ~reused'
  BY <1>2 DEF Careful, Kept, Good, server
<1> QED BY <1>1, <1>3, <1>4, <1>5, <1>6, <1>7, Whole

\* A step of the refresh that leaves the calls alone.
LEMMA RefreshStep ==
  ASSUME Careful, UNCHANGED <<calls, screen>>, ServiceTyped', PastTyped',
         token' \in Tokens, stored' \in Pair, refreshing' \in Refresh,
         refreshing'.pc = "sent" => refreshing'.spends \in Pairs,
         issued <= issued', unspent' \subseteq 1..issued',
         \A t \in unspent : t = refreshing.spends \/ t \in unspent',
         \A t \in held' : t <= issued' /\ t \in held \cup {None, issued + 1},
         ~lost' => Kept' /\ ~reused'
  PROVE  Careful'
<1>1. ClientTyped'
  BY Parts DEF ClientTyped, screen
<1>2. Named'
  BY NamedKept
<1>3. Issued'
  BY DEF Issued, held
<1>4. FreshApart'
  BY ApartOld DEF Fresh
<1>5. Cleared'
  BY ClearedKept
<1> QED BY <1>1, <1>2, <1>3, <1>4, <1>5, Whole

LEMMA ReadCareful == ASSUME Careful, ReadNothing \/ ReadRefreshToken PROVE Careful'
<1>1. CASE ReadNothing
  <2>1. PastTyped'
    BY <1>1, Parts DEF ReadNothing, TearDown, PastTyped
  <2>2. ~lost => refreshing.got = None
    BY <1>1 DEF ReadNothing, Careful, Kept
  <2> QED BY <1>1, <2>1, <2>2, TearDownCareful DEF ReadNothing, screen
<1>2. CASE ReadRefreshToken
  <2>1. UNCHANGED <<server, token, stored, calls, screen, past>>
    BY <1>2 DEF ReadRefreshToken
  <2>2. /\ refreshing' \in Refresh /\ refreshing'.pc = "sent"
        /\ refreshing'.spends = stored.refresh /\ refreshing'.got = refreshing.got
    BY <1>2, Parts DEF ReadRefreshToken, ClientTyped, Refresh
  <2>3. stored.refresh \in Pairs
    BY <1>2, Parts, Constants DEF ReadRefreshToken
  <2>4. ServiceTyped' /\ PastTyped' /\ token' \in Tokens /\ stored' \in Pair
    BY <2>1, Parts DEF ServiceTyped, PastTyped, ClientTyped, server, past
  <2>5. held' \subseteq held /\ \A t \in held : t <= issued
    BY <2>1, <2>2, Parts DEF held, Issued
  <2>6. ~lost' => Kept' /\ ~reused'
    <3>1. SUFFICES ASSUME Kept PROVE Kept'
      BY <2>1 DEF Careful, past
    <3>2. Good(stored.refresh) /\ refreshing.got = None
      BY <1>2, <3>1 DEF ReadRefreshToken, Kept
    <3> QED BY <2>1, <2>2, <3>2 DEF Kept, Good, server
  <2>7. issued <= issued' /\ unspent' \subseteq 1..issued' /\ unspent' = unspent
    BY <2>1, Parts DEF server, Issued
  <2>8. \A t \in held' : t <= issued' /\ t \in held \cup {None, issued + 1}
    BY <2>1, <2>5 DEF server
  <2> QED BY <2>1, <2>2, <2>3, <2>4, <2>6, <2>7, <2>8, RefreshStep
<1> QED BY <1>1, <1>2

\* The backend rotates the token.  What is stored may be the one just spent; if
\* the answer arrives its successor is in hand.
LEMMA RotateCareful ==
  ASSUME Careful, NEW answered \in BOOLEAN, Rotate(answered) PROVE Careful'
<1> USE Constants
<1> DEFINE s == refreshing.spends
<1>1. /\ s \in Pairs /\ s <= issued /\ s \in unspent /\ sessionOf[s] \in Tokens
      /\ refreshing.pc = "sent"
  BY Parts DEF Rotate, Spend, Rotates, Named, Issued, ServiceTyped, Tokens
<1>2. /\ ServiceTyped /\ issued \in Nat /\ issued' = issued + 1 /\ issued + 1 \in Pairs
      /\ sessionOf' \in [Pairs -> Tokens]
      /\ \A u \in Pairs : u <= issued => sessionOf'[u] = sessionOf[u]
      /\ unspent' = (unspent \ {s}) \cup {issued + 1} /\ UNCHANGED <<expired, ended>>
  BY <1>1, IssueTyped, Parts DEF Rotate, Spend
<1>3. ServiceTyped'
  BY <1>2 DEF ServiceTyped, Tokens
<1>4. UNCHANGED <<token, stored, calls, screen, reused>> /\ PastTyped' /\ (~answered => lost')
      /\ (lost => lost')
  BY FaultTyped, Parts DEF Rotate, past, PastTyped
<1>5. /\ refreshing' \in Refresh /\ refreshing'.pc = "answered" /\ refreshing'.spends = s
      /\ refreshing'.got = IF answered THEN issued + 1 ELSE None
  BY <1>2, Parts DEF Rotate, ClientTyped, Refresh
<1>6. issued <= issued' /\ unspent' \subseteq 1..issued'
      /\ \A t \in unspent : t = s \/ t \in unspent'
  BY <1>2, Parts DEF Issued
<1>7. ASSUME NEW t \in held' PROVE t <= issued' /\ t \in held \cup {None, issued + 1}
  <2>1. t \in held \cup {None, issued + 1}
    BY <1>4, <1>5 DEF held
  <2> QED BY <1>2, <2>1, Parts DEF held, Issued
<1>8. ~lost' => Kept' /\ ~reused'
  <2>1. SUFFICES ASSUME Kept, answered PROVE Kept'
    BY <1>4 DEF Careful
  <2>2. Good(stored.refresh) /\ stored.refresh <= issued /\ stored.refresh \in Tokens
    BY <1>1, <2>1, Parts DEF Kept, Issued
  <2>3. stored.refresh = s \/ GoodIn(stored.refresh, unspent', sessionOf', ended')
    BY <1>2, <2>2 DEF Good, GoodIn
  <2>4. GoodIn(issued + 1, unspent', sessionOf', ended') /\ issued + 1 # None
    BY <1>2 DEF GoodIn
  <2> QED BY <1>4, <1>5, <2>1, <2>3, <2>4 DEF Kept, Good
<1>9. token' \in Tokens /\ stored' \in Pair
  BY <1>4, Parts DEF ClientTyped
<1> HIDE DEF s
<1> QED BY <1>3, <1>4, <1>5, <1>6, <1>7, <1>8, <1>9, RefreshStep DEF s

\* A token that is good is refused only when its session is over: no reuse.
LEMMA RefusedCareful == ASSUME Careful, RefuseRefresh \/ RefreshCallFails PROVE Careful'
<1> USE Constants
<1>1. /\ UNCHANGED <<issued, sessionOf, unspent, token, stored, calls, screen, lost>>
      /\ ended \subseteq ended' /\ ServiceTyped'
  <2>1. CASE RefuseRefresh
    <3>1. refreshing.spends \in Pairs
      BY <2>1, Parts DEF RefuseRefresh, Named
    <3>2. sessionOf[refreshing.spends] \in Tokens
      BY <3>1, Parts DEF ServiceTyped, Tokens
    <3> QED BY <2>1, <3>2, Parts DEF RefuseRefresh, Punish, ServiceTyped, Tokens
  <2>2. CASE RefreshCallFails
    BY <2>2, Parts DEF RefreshCallFails, ServiceTyped, server, past
  <2> QED BY <2>1, <2>2
<1>2. /\ refreshing.pc = "sent" /\ refreshing' \in Refresh /\ refreshing'.pc = "answered"
      /\ refreshing'.spends = refreshing.spends /\ refreshing'.got = refreshing.got
  BY Parts DEF RefuseRefresh, RefreshCallFails, ClientTyped, Refresh
<1>3. PastTyped'
  BY Parts DEF RefuseRefresh, RefreshCallFails, PastTyped, past
<1>4. held' = held /\ \A t \in held : t <= issued
  BY <1>1, <1>2, Parts DEF held, Issued
<1>5. ~lost' => Kept' /\ ~reused'
  <2>1. SUFFICES ASSUME Kept, ~reused PROVE Kept' /\ ~reused'
    BY <1>1 DEF Careful
  <2>2. \A t \in held : Good(t) => GoodIn(t, unspent', sessionOf', ended')
    BY <1>1, <1>4, SameGrows, GoodStays, Parts DEF Good, held
  <2>3. Kept'
    BY <1>1, <1>2, <2>1, <2>2 DEF Kept, Good, held
  <2>4. ~reused'
    <3>1. CASE RefuseRefresh
      <4>1. Good(refreshing.spends) /\ refreshing.spends # None
        BY <1>2, <2>1, Parts DEF Kept, Named
      <4>2. sessionOf[refreshing.spends] \in ended
        BY <3>1, <4>1 DEF Good, GoodIn, RefuseRefresh, Punish, Rotates
      <4> QED BY <2>1, <3>1, <4>2 DEF RefuseRefresh
    <3>2. CASE RefreshCallFails
      BY <2>1, <3>2 DEF RefreshCallFails, past
    <3> QED BY <3>1, <3>2
  <2> QED BY <2>3, <2>4
<1>6. token' \in Tokens /\ stored' \in Pair /\ issued <= issued' /\ unspent' \subseteq 1..issued'
  BY <1>1, Parts DEF ClientTyped, Issued
<1> QED BY <1>1, <1>2, <1>3, <1>4, <1>5, <1>6, RefreshStep

LEMMA RefreshFailsCareful == ASSUME Careful, RefreshFails PROVE Careful'
<1>1. PastTyped'
  BY Parts DEF RefreshFails, TearDown, PastTyped
<1> QED BY <1>1, TearDownCareful DEF RefreshFails, screen

LEMMA KeepCareful == ASSUME Careful, KeepRefreshed \/ SaveAccess PROVE Careful'
<1> USE Constants
<1>1. /\ UNCHANGED <<server, calls, screen, past>>
      /\ refreshing.pc \in {"answered", "access"}
      /\ KeepRefreshed => refreshing.got # None
  BY DEF KeepRefreshed, SaveAccess
<1>2. /\ refreshing' \in Refresh /\ refreshing'.pc \in {"access", "refresh"}
      /\ refreshing'.spends = refreshing.spends /\ refreshing'.got = refreshing.got
      /\ refreshing.got \in Tokens
      /\ SaveAccess => refreshing.pc = "access"
  BY Parts DEF KeepRefreshed, SaveAccess, ClientTyped, Refresh
<1>3. token' \in Tokens /\ stored' \in Pair /\ stored'.refresh = stored.refresh
  BY <1>2, Parts DEF KeepRefreshed, SaveAccess, ClientTyped, Pair
<1>4. ServiceTyped' /\ PastTyped' /\ UNCHANGED <<issued, unspent, lost, reused>>
  BY <1>1, Parts DEF ServiceTyped, PastTyped, server, past
<1>5. held' = held /\ \A t \in held : t <= issued
  BY <1>2, <1>3, Parts DEF held, Issued
<1>6. ~lost' => Kept' /\ ~reused'
  <2>1. SUFFICES ASSUME Kept PROVE Kept'
    BY <1>4 DEF Careful
  <2>2. refreshing.got # None
    BY <1>1, <1>2, <2>1 DEF Kept, KeepRefreshed, SaveAccess
  <2> QED BY <1>1, <1>2, <1>3, <2>1, <2>2 DEF Kept, Good, server
<1>7. issued <= issued' /\ unspent' \subseteq 1..issued'
  BY <1>4, Parts DEF Issued
<1> QED BY <1>1, <1>2, <1>3, <1>4, <1>5, <1>6, <1>7, RefreshStep

\* The successor replaces the token that was spent.
LEMMA SaveRefreshCareful == ASSUME Careful, SaveRefresh PROVE Careful'
<1> USE ScreenTyped, Constants, Records
<1>1. refreshing.got \in Tokens /\ UNCHANGED <<server, token, screen, past>>
  BY Parts DEF SaveRefresh
<1>2. /\ calls' \in [Callers -> Call]
      /\ \A d \in SignIns : calls'[d] = calls[d]
      /\ calls'["boot"] = calls["boot"] \/ calls'["boot"] = Sent(refreshing.got, TRUE)
      /\ Cleared'
  <2>1. Sent(refreshing.got, TRUE) \in Call
    BY <1>1
  <2>2. ~FreshIn(Sent(refreshing.got, TRUE)) /\ Sent(refreshing.got, TRUE).pc # "waiting"
    BY DEF Sent, FreshIn
  <2> QED BY <2>1, <2>2, Awakened DEF SaveRefresh
<1>3. /\ refreshing' = NoRefresh /\ refreshing'.pc = "idle"
      /\ refreshing'.spends = None /\ refreshing'.got = None
      /\ stored' \in Pair /\ stored'.refresh = refreshing.got
  BY <1>1, Parts DEF SaveRefresh, NoRefresh, ClientTyped, Pair
<1>4. ServiceTyped' /\ ClientTyped' /\ PastTyped'
  BY <1>1, <1>2, <1>3, Parts DEF ServiceTyped, ClientTyped, PastTyped, server, screen, past
<1>5. Named'
  <2>1. Sent(refreshing.got, TRUE).pc = "sent"
    BY DEF Sent
  <2> QED BY <1>2, <1>3, <2>1, NamedKept
<1>6. Issued'
  BY <1>1, <1>3, Parts DEF Issued, server
<1>7. FreshApart'
  <2>1. held' \subseteq held \cup {None}
    BY <1>3 DEF held
  <2> QED BY <1>1, <1>2, <2>1, ApartOld DEF server, Fresh
<1>8. ~lost' => Kept' /\ ~reused'
  <2>1. SUFFICES ASSUME Kept PROVE Kept'
    BY <1>1 DEF Careful, past
  <2>2. Good(refreshing.got)
    BY <2>1 DEF Kept, SaveRefresh
  <2> QED BY <1>1, <1>3, <2>2 DEF Kept, Good, server
<1> QED BY <1>2, <1>4, <1>5, <1>6, <1>7, <1>8, Whole

LEMMA SaveFailsCareful == ASSUME Careful, SaveFails PROVE Careful'
<1>1. PastTyped' /\ lost'
  BY FaultTyped, Parts DEF SaveFails, TearDown, PastTyped
<1> QED BY <1>1, TearDownCareful DEF SaveFails, screen

\* A rotation that is under way when the application is killed may be lost.
LEMMA KillCareful == ASSUME Careful, Kill PROVE Careful'
<1> USE ScreenTyped, Constants, Records
<1>1. calls' \in [Callers -> Call] /\ \A c \in Callers : calls'[c].pc \in {"idle", "restoring"}
  BY DEF Kill, Starting, Idle
<1>2. /\ refreshing' = NoRefresh /\ refreshing'.pc = "idle"
      /\ refreshing'.spends = None /\ refreshing'.got = None
      /\ UNCHANGED <<server, stored, reused>>
  BY DEF Kill, NoRefresh
<1>3. ServiceTyped' /\ ClientTyped'
  BY <1>1, <1>2, Parts DEF Kill, ServiceTyped, ClientTyped, server
<1>4. PastTyped'
  BY FaultTyped, Parts DEF Kill, PastTyped
<1>5. Named' /\ FreshApart' /\ Cleared'
  BY <1>1, <1>2 DEF Named, FreshApart, Fresh, FreshIn, Cleared, Stores
<1>6. Issued'
  BY <1>2, Parts DEF Issued, server
<1>7. ~lost' => Kept' /\ ~reused'
  <2>0. ~lost' => ~lost /\ refreshing.pc \in {"idle", "reading"}
    BY DEF Kill
  <2>1. SUFFICES ASSUME Kept, refreshing.pc \in {"idle", "reading"} PROVE Kept'
    BY <1>2, <2>0 DEF Careful
  <2>2. Good(stored.refresh)
    BY <2>1 DEF Kept
  <2> QED BY <1>2, <2>2 DEF Kept, Good, server
<1> QED BY <1>3, <1>4, <1>5, <1>6, <1>7, Whole

-----------------------------------------------------------------------------
(* The theorems.                                                           *)

LEMMA NextCareful == ASSUME Careful, [Next]_vars PROVE Careful'
<1>1. CASE UNCHANGED vars
  <2>1. ServiceTyped' /\ ClientTyped' /\ PastTyped'
    BY <1>1, Parts DEF vars, screen, past, server, ServiceTyped, ClientTyped, PastTyped
  <2>2. Named' /\ Issued' /\ FreshApart' /\ Cleared'
    BY <1>1, Parts DEF vars, server, Named, Issued, FreshApart, Fresh, Cleared, Stores
  <2>3. ~lost' => Kept' /\ ~reused'
    BY <1>1 DEF vars, server, past, Careful, Kept, Good
  <2> QED BY <2>1, <2>2, <2>3, Whole
<1>2. CASE Refreshes
  BY <1>2, ReadCareful, RotateCareful, RefusedCareful, RefreshFailsCareful, KeepCareful,
     SaveRefreshCareful DEF Refreshes
<1>3. CASE Goes
  BY <1>3, AnswerLostCareful, StoreFailsCareful, RotateCareful, SaveFailsCareful, KillCareful DEF Goes
<1>4. CASE Asks
  BY <1>4, AsksCareful
<1>5. CASE \E c \in Callers : Step(c)
  BY <1>5, StepCareful
<1> QED BY <1>1, <1>2, <1>3, <1>4, <1>5 DEF Next, Works

LEMMA AlwaysCareful == Spec => []Careful
BY InitCareful, NextCareful, PTL DEF Spec

\* Every variable of the Flutter session keeps its type, whatever requests,
\* forms, sign-outs and faults there are.
THEOREM FlutterTypes == Spec => []TypeOK
<1>1. Careful => TypeOK
  BY DEF Careful
<1> QED BY <1>1, AlwaysCareful, PTL

\* The shared refresh of the Flutter client (auth_controller.dart:27-32, 97-123)
\* presents a spent refresh token only after a rotation that could not be kept,
\* although it takes its token from a storage that others are writing.
THEOREM FlutterRotationIsSafe == Spec => []ReuseNeedsALoss
<1>1. Careful => ReuseNeedsALoss
  BY DEF Careful, ReuseNeedsALoss
<1> QED BY <1>1, AlwaysCareful, PTL

-----------------------------------------------------------------------------
(* Memory, storage and screen agree.                                       *)

Quiet == ~crossed /\ ~broken

Shown(t) == IF t = None THEN None ELSE sessionOf[t]

\* Every pair issued is of some session.
Rooted == \A t \in Pairs : t <= issued => sessionOf[t] # None

\* A start runs alone, and a refresh is waited for.
Orderly ==
  /\ Rooted
  /\ Busy("boot") =>
       /\ token = None /\ user = None /\ loading /\ refreshing.pc = "idle"
       /\ \A c \in Callers \ {"boot"} : ~Busy(c)
  /\ refreshing.pc # "idle" => \E c \in Callers : calls[c].pc = "waiting"

\* Who is changing the storage brings it to what memory holds, and no refresh is
\* under way meanwhile.
Follows ==
  \A c \in Callers : Stores(c) =>
    /\ refreshing.pc = "idle" /\ calls[c].token = token
    /\ calls[c].pc = "refresh" => stored.access = token

\* When nobody is, the screen shows the session of the token in memory, and
\* that token is the one stored, unless a refresh is about to store it.
Settled ==
  (\A c \in Callers : ~Stores(c)) /\ ~Busy("boot") =>
    /\ user = Shown(token)
    /\ refreshing.pc \notin {"access", "refresh"} => stored = Held(token)

\* A start finds both keys of one pair, and asks with what it finds.
Restores ==
  /\ calls["boot"].pc \in {"restoring", "sent", "answered"} => stored.access = stored.refresh
  /\ \/ calls["boot"].pc = "sent"
     \/ calls["boot"].pc = "answered" /\ calls["boot"].answer = "ok"
     => calls["boot"].token = stored.access

\* A refresh spends the token in memory for one of the session shown.
Renews ==
  /\ refreshing.pc = "sent" => refreshing.spends = token
  /\ refreshing.pc \in {"idle", "reading", "sent"} => refreshing.got = None
  /\ refreshing.got # None => sessionOf[refreshing.got] = user
  /\ refreshing.pc \in {"access", "refresh"} => refreshing.got = token /\ token # None
  /\ refreshing.pc = "refresh" => stored.access = token

Agreed == Follows /\ Settled /\ Restores /\ Renews /\ token <= issued /\ stored.access <= issued

\* The inductive strengthening of OneSession.
Consistent == Careful /\ Orderly /\ (Quiet => Agreed)

\* A pair whose keys are both t.
LEMMA HeldPair ==
  ASSUME NEW p \in Pair, NEW t, p.access = t, p.refresh = t
  PROVE  p = Held(t)
BY DEF Pair, Held

\* The sessions that were there stay what they were.
SameSessions == /\ issued' \in Nat /\ issued <= issued' /\ Rooted'
                /\ \A t \in Pairs : t <= issued => sessionOf'[t] = sessionOf[t]

LEMMA UnchangedSessions ==
  ASSUME Careful, Orderly, UNCHANGED <<issued, sessionOf>> PROVE SameSessions
BY Parts DEF SameSessions, Orderly, Rooted

LEMMA ServerSessions ==
  ASSUME Careful, Orderly, Grant \/ (\E t \in Pairs : t <= issued /\ Spend(t))
  PROVE  SameSessions
<1> USE Constants
<1>1. ServiceTyped /\ issued \in Nat
  BY Parts
<1>2. PICK t \in Tokens : Issue(t) /\ (t = None \/ \E u \in Pairs : u <= issued /\ t = sessionOf[u])
  BY <1>1 DEF Grant, Spend, ServiceTyped, Tokens
<1>3. /\ issued' = issued + 1 /\ issued + 1 \in Pairs
      /\ \A u \in Pairs : u <= issued => sessionOf'[u] = sessionOf[u]
      /\ sessionOf'[issued + 1] = IF t = None THEN issued + 1 ELSE t
  BY <1>1, <1>2, IssueTyped DEF Issue, ServiceTyped
<1>4. sessionOf'[issued + 1] # None
  BY <1>1, <1>2, <1>3
<1>5. \A u \in Pairs : u <= issued \/ u = issued + 1 \/ u > issued'
  BY <1>1, <1>3
<1>6. Rooted'
  <2>1. ASSUME NEW u \in Pairs, u <= issued' PROVE sessionOf'[u] # None
    BY <1>1, <1>3, <1>4, <2>1 DEF Orderly, Rooted
  <2> QED BY <2>1 DEF Rooted
<1> QED BY <1>1, <1>3, <1>6 DEF SameSessions

LEMMA EffectSessions ==
  ASSUME Careful, Orderly, NEW c \in Callers, Effect(c) PROVE SameSessions
<1>1. CASE c \in SignIns
  BY <1>1, EffectTyped, ServerSessions, Parts
<1>2. CASE c \notin SignIns
  BY <1>2, EffectTyped, UnchangedSessions, Parts
<1> QED BY <1>1, <1>2

\* A token in hand belongs to the session it belonged to.
LEMMA SameShown ==
  ASSUME Careful, SameSessions, NEW t \in Tokens, t <= issued
  PROVE  /\ t <= issued' /\ (t # None => sessionOf'[t] = sessionOf[t])
         /\ (IF t = None THEN None ELSE sessionOf'[t]) = Shown(t)
<1>1. t # None => t \in Pairs
  BY Constants
<1> QED BY <1>1, Parts, Constants DEF SameSessions, Shown

\* A step of one call that is not waiting leaves a start alone, and the refresh
\* waited for.
LEMMA OrderlyCall ==
  ASSUME Careful, Orderly, NEW c \in Callers, NEW rec \in Call, Put(c, rec),
         calls[c].pc # "waiting", SameSessions,
         refreshing' = refreshing \/ rec.pc = "waiting",
         IF c = "boot" THEN Busy("boot") /\ (rec.pc = "idle" \/ UNCHANGED <<token, screen, refreshing>>)
         ELSE ~Busy("boot")
  PROVE  Orderly'
<1>1. /\ calls'[c] = rec /\ \A d \in Callers : d # c => calls'[d] = calls[d]
  BY PutTyped, Parts
<1>2. ASSUME Busy("boot")'
      PROVE  /\ token' = None /\ user' = None /\ loading' /\ refreshing'.pc = "idle"
             /\ \A d \in Callers \ {"boot"} : ~Busy(d)'
  <2>1. c = "boot" /\ rec.pc # "idle"
    BY <1>1, <1>2, Constants DEF Busy
  <2>2. Busy("boot") /\ UNCHANGED <<token, screen, refreshing>>
    BY <1>1, <2>1
  <2> QED BY <1>1, <2>1, <2>2 DEF Orderly, Busy, screen
<1>3. refreshing'.pc # "idle" => \E d \in Callers : calls'[d].pc = "waiting"
  BY <1>1 DEF Orderly
<1> QED BY <1>2, <1>3 DEF Orderly, SameSessions

\* A step of one call that stores nothing, before or after.
LEMMA AgreedCall ==
  ASSUME Careful, Orderly, Agreed, NEW c \in Callers, NEW rec \in Call, Put(c, rec),
         SameSessions, UNCHANGED <<token, refreshing, stored, user>>,
         ~Stores(c), rec.pc \notin {"access", "refresh"},
         c = "boot" =>
           /\ rec.pc \in {"sent", "answered"} /\ Busy("boot")
           /\ rec.pc = "sent" \/ rec.answer = "ok" => rec.token = stored.access
           /\ stored.access = stored.refresh
  PROVE  Agreed'
<1> USE Constants, ScreenTyped
<1>1. /\ calls'[c] = rec /\ \A d \in Callers : d # c => calls'[d] = calls[d]
  BY PutTyped, Parts
<1>2. /\ token <= issued' /\ stored.access <= issued'
      /\ (IF token = None THEN None ELSE sessionOf'[token]) = Shown(token)
      /\ refreshing.got # None => sessionOf'[refreshing.got] = sessionOf[refreshing.got]
  <2>1. refreshing.got \in Tokens /\ refreshing.got <= issued
    BY Parts DEF Issued
  <2> QED BY <2>1, SameShown DEF Agreed
<1>3. \A d \in Callers : Stores(d)' => Stores(d) /\ calls'[d] = calls[d]
  BY <1>1 DEF Stores
<1>4. \A d \in Callers : Stores(d) => Stores(d)'
  BY <1>1 DEF Stores
<1>5. Busy("boot") => Busy("boot")'
  <2>1. c = "boot" => calls'["boot"].pc # "idle"
    BY <1>1
  <2>2. c # "boot" => calls'["boot"] = calls["boot"]
    BY <1>1
  <2> QED BY <2>1, <2>2 DEF Busy
<1>6. Follows'
  BY <1>3 DEF Agreed, Follows
<1>7. Settled'
  BY <1>2, <1>4, <1>5 DEF Agreed, Settled, Shown
<1>8. Restores'
  BY <1>1 DEF Agreed, Restores
<1>9. Renews'
  BY <1>2 DEF Agreed, Renews
<1> QED BY <1>2, <1>6, <1>7, <1>8, <1>9 DEF Agreed

-----------------------------------------------------------------------------
(* The steps of one call.                                                  *)

\* What crossed or broke is remembered, so a quiet step was quiet before.
LEMMA QuietBefore ==
  ASSUME Consistent, crossed => crossed', broken => broken', Orderly', Careful',
         Agreed /\ Quiet' => Agreed'
  PROVE  Consistent'
BY DEF Consistent, Quiet

LEMMA AsksConsistent == ASSUME Consistent, Asks PROVE Consistent'
<1> USE ScreenTyped, Constants, Records
<1>0. Careful /\ Orderly /\ Careful'
  BY AsksCareful DEF Consistent
<1>1. PICK c \in Callers \ {"boot"} :
        \E rec \in Call : Put(c, rec) /\ rec.pc \in {"sent", "answered"} /\ ~Busy(c)
                        /\ (user # None \/ ~loading)
                        /\ UNCHANGED <<server, token, refreshing, stored, screen, past>>
  <2>1. ASSUME NEW t \in Tokens, NEW b \in BOOLEAN
        PROVE  Sent(t, b) \in Call /\ Sent(t, b).pc = "sent"
    BY <1>0 DEF Sent
  <2>2. [Idle EXCEPT !.pc = "answered", !.answer = "failed"] \in Call
    BY DEF Idle, Call
  <2>3. [Idle EXCEPT !.pc = "answered", !.answer = "failed"].pc = "answered"
    BY DEF Idle
  <2>4. ASSUME NEW c \in Requests, Fetch(c)
        PROVE  Put(c, Sent(token, FALSE)) /\ ~Busy(c) /\ user # None
    BY <2>4 DEF Fetch
  <2>5. ASSUME NEW c \in SignIns, SignIn(c)
        PROVE  Put(c, Sent(None, FALSE)) /\ ~Busy(c) /\ ~loading
    BY <2>5 DEF SignIn
  <2>6. ASSUME NEW c \in SignOuts, SignOut(c)
        PROVE  /\ \/ Put(c, Sent(token, FALSE))
                  \/ Put(c, [Idle EXCEPT !.pc = "answered", !.answer = "failed"])
               /\ ~Busy(c) /\ user # None
    BY <2>6 DEF SignOut
  <2>7. UNCHANGED <<server, token, refreshing, stored, screen, past>>
    BY DEF Asks, Fetch, SignIn, SignOut
  <2> QED BY <1>0, <2>1, <2>2, <2>3, <2>4, <2>5, <2>6, <2>7 DEF Asks
<1>2. PICK rec \in Call : Put(c, rec) /\ rec.pc \in {"sent", "answered"}
  BY <1>1
<1>3. SameSessions
  BY <1>0, <1>1, UnchangedSessions DEF server
<1>4. ~Busy("boot") /\ calls[c].pc = "idle" /\ ~Stores(c)
  BY <1>0, <1>1 DEF Orderly, Busy, Stores
<1>5. Orderly'
  BY <1>0, <1>1, <1>2, <1>3, <1>4, OrderlyCall
<1>6. Agreed => Agreed'
  BY <1>0, <1>1, <1>2, <1>3, <1>4, AgreedCall DEF screen
<1> QED BY <1>0, <1>1, <1>5, <1>6, QuietBefore DEF past

\* The backend answers a call, or does not.
LEMMA AnswerConsistent ==
  ASSUME Consistent, Careful', NEW c \in Callers, NEW rec \in Call, Put(c, rec),
         calls[c].pc = "sent", SameSessions,
         UNCHANGED <<token, refreshing, stored, screen, crossed, broken>>,
         (rec.pc = "idle" /\ c \in Requests)
           \/ (rec.pc = "answered" /\ (rec.answer = "ok" /\ c \notin SignIns => rec.token = calls[c].token))
  PROVE  Consistent'
<1> USE Constants
<1>0. Careful /\ Orderly
  BY DEF Consistent
<1>1. Busy(c) /\ ~Stores(c)
  BY DEF Busy, Stores
<1>2. c # "boot" => ~Busy("boot")
  BY <1>0, <1>1 DEF Orderly
<1>3. Orderly'
  BY <1>0, <1>1, <1>2, OrderlyCall
<1>4. Agreed => Agreed'
  <2>1. SUFFICES ASSUME Agreed PROVE Agreed'
    OBVIOUS
  <2>2. ASSUME c = "boot"
        PROVE  /\ rec.pc \in {"sent", "answered"} /\ Busy("boot")
               /\ rec.pc = "sent" \/ rec.answer = "ok" => rec.token = stored.access
               /\ stored.access = stored.refresh
    BY <1>1, <2>1, <2>2 DEF Agreed, Restores
  <2> QED BY <1>0, <1>1, <2>1, <2>2, AgreedCall DEF screen
<1> QED BY <1>0, <1>3, <1>4, QuietBefore

LEMMA AnswersConsistent ==
  ASSUME Consistent, NEW c \in Callers, Accept(c) \/ Refuse(c) \/ CallFails(c) \/ AnswerLost(c)
  PROVE  Consistent'
<1> USE ScreenTyped, Constants, Records
<1>0. Careful /\ Orderly /\ Careful'
  BY AcceptCareful, RefuseCareful, CallFailsCareful, AnswerLostCareful DEF Consistent
<1>1. /\ calls[c].pc = "sent"
      /\ UNCHANGED <<token, refreshing, stored, screen, crossed, broken>>
  BY DEF Accept, Refuse, CallFails, AnswerLost, past
<1>2. SameSessions
  <2>1. CASE Accept(c) \/ AnswerLost(c)
    BY <1>0, <2>1, EffectSessions DEF Accept, AnswerLost
  <2>2. CASE Refuse(c) \/ CallFails(c)
    BY <1>0, <2>2, UnchangedSessions DEF Refuse, CallFails, Expire, server
  <2> QED BY <2>1, <2>2
<1>3. \/ c \in Requests /\ End(c)
      \/ Answer(c, "failed", None)
      \/ c \notin SignIns /\ Answer(c, "refused", calls[c].token)
      \/ c \notin SignIns /\ Answer(c, "ok", calls[c].token)
      \/ c \in SignIns /\ Answer(c, "ok", issued + 1) /\ Accept(c)
  BY DEF Accept, Refuse, CallFails, AnswerLost
<1>4. PICK rec \in Call :
        /\ Put(c, rec)
        /\ \/ rec.pc = "idle" /\ c \in Requests
           \/ rec.pc = "answered" /\ (c \notin SignIns /\ rec.answer = "ok" => rec.token = calls[c].token)
  <2>1. CASE c \in Requests /\ End(c)
    BY <2>1 DEF End, Idle
  <2>2. CASE Answer(c, "failed", None)
    <3>1. PICK rec \in Call : Put(c, rec) /\ rec.pc = "answered" /\ rec.answer = "failed"
      BY <1>0, <2>2, AnswerRec
    <3> QED BY <3>1
  <2>3. ASSUME NEW a \in {"refused", "ok"}, c \notin SignIns, Answer(c, a, calls[c].token)
        PROVE  \E rec \in Call : Put(c, rec) /\ rec.pc = "answered" /\ rec.token = calls[c].token
    <3> DEFINE t == calls[c].token
    <3>1. t \in Tokens /\ Answer(c, a, t)
      BY <1>0, <2>3
    <3> HIDE DEF t
    <3>2. PICK rec \in Call : Put(c, rec) /\ rec.pc = "answered" /\ rec.token = t
      BY ONLY <1>0, c \in Callers, a \in {"refused", "ok"}, <3>1, AnswerRec
    <3> QED BY <3>2 DEF t
  <2>4. CASE c \in SignIns /\ Answer(c, "ok", issued + 1) /\ Accept(c)
    <3> DEFINE t == issued + 1
    <3>1. t \in Tokens /\ Answer(c, "ok", t)
      BY <1>0, <2>4, EffectTyped, Parts DEF Accept
    <3> HIDE DEF t
    <3>2. PICK rec \in Call : Put(c, rec) /\ rec.pc = "answered"
      BY ONLY <1>0, c \in Callers, <3>1, AnswerRec
    <3> QED BY <2>4, <3>2
  <2> QED BY <1>3, <2>1, <2>2, <2>3, <2>4
<1> QED BY <1>0, <1>1, <1>2, <1>4, AnswerConsistent

LEMMA JoinConsistent == ASSUME Consistent, NEW c \in Requests, Join(c) PROVE Consistent'
<1> USE ScreenTyped, Constants, Records
<1> DEFINE rec == [calls[c] EXCEPT !.pc = "waiting"]
<1>0. Careful /\ Orderly /\ Careful'
  BY JoinCareful DEF Consistent
<1>1. /\ rec \in Call /\ rec.pc = "waiting" /\ Put(c, rec) /\ Busy(c) /\ ~Stores(c)
      /\ calls[c].pc = "answered" /\ c # "boot"
      /\ UNCHANGED <<server, token, stored, screen, broken>> /\ (crossed => crossed')
  <2>1. rec \in Call /\ rec.pc = "waiting"
    BY <1>0 DEF Call
  <2>2. Put(c, rec) /\ calls[c].pc = "answered" /\ Busy(c) /\ ~Stores(c)
    BY DEF Join, Answered, Busy, Stores
  <2>3. UNCHANGED <<server, token, stored, screen, broken>> /\ (crossed => crossed')
    BY DEF Join
  <2> QED BY <2>1, <2>2, <2>3
<1>2. SameSessions
  BY <1>0, <1>1, UnchangedSessions DEF server
<1> HIDE DEF rec
<1>3. Orderly'
  <2>1. ~Busy("boot")
    BY <1>0, <1>1 DEF Orderly
  <2> QED BY <1>0, <1>1, <1>2, <2>1, OrderlyCall
<1>4. CASE refreshing' = refreshing
  <2>1. Agreed => Agreed'
    BY <1>0, <1>1, <1>2, <1>4, AgreedCall DEF screen
  <2> QED BY <1>0, <1>1, <1>3, <2>1, QuietBefore
<1>5. CASE refreshing' # refreshing
  <2>1. /\ refreshing.pc = "idle" /\ refreshing'.pc = "reading" /\ refreshing'.got = None
        /\ crossed' = (crossed \/ \E d \in Callers : Stores(d))
    BY <1>5 DEF Join, NoRefresh
  <2>2. SUFFICES ASSUME Agreed, Quiet' PROVE Agreed'
    BY <1>0, <1>1, <1>3, QuietBefore
  <2>3. \A d \in Callers : ~Stores(d)
    BY <2>1, <2>2 DEF Quiet
  <2>4. /\ calls'[c] = rec /\ \A d \in Callers : d # c => calls'[d] = calls[d]
    BY <1>0, <1>1, PutTyped, Parts
  <2>5. (\A d \in Callers : ~Stores(d)') /\ calls'["boot"] = calls["boot"]
    BY <1>1, <2>3, <2>4 DEF Stores
  <2>6. Follows'
    BY <2>5 DEF Follows
  <2>7. Settled'
    BY <1>1, <2>1, <2>2, <2>3, <2>5 DEF Agreed, Settled, Shown, Busy, server, screen
  <2>8. Restores' /\ Renews' /\ token' <= issued' /\ stored'.access <= issued'
    BY <1>1, <2>1, <2>2, <2>5 DEF Agreed, Restores, Renews, server
  <2> QED BY <2>6, <2>7, <2>8 DEF Agreed
<1> QED BY <1>4, <1>5

LEMMA BootConsistent ==
  ASSUME Consistent, RestoreNothing \/ RestoreToken \/ BootSucceeds \/ BootFails
  PROVE  Consistent'
<1> USE ScreenTyped, Constants, Records
<1>0. Careful /\ Orderly /\ Careful'
  BY BootCareful DEF Consistent
<1>1. /\ UNCHANGED <<server, refreshing, stored, crossed, broken>> /\ stored \in Pair
      /\ Busy("boot") /\ calls["boot"].pc \in {"restoring", "answered"}
  BY <1>0, Parts DEF RestoreNothing, RestoreToken, BootSucceeds, BootFails, past, Busy, Answered, ClientTyped
<1>2. SameSessions
  BY <1>0, <1>1, UnchangedSessions DEF server
<1>3. PICK rec \in Call :
        /\ Put("boot", rec)
        /\ RestoreNothing \/ BootSucceeds => rec.pc = "idle"
        /\ RestoreToken => rec.pc = "sent" /\ rec.token = stored.access
        /\ BootFails => rec.pc = "access" /\ rec.token = None
  <2>1. CASE RestoreNothing \/ BootSucceeds
    <3>1. Put("boot", Idle) /\ Idle.pc = "idle" /\ ~RestoreToken /\ ~BootFails
      BY <2>1 DEF RestoreNothing, RestoreToken, BootSucceeds, BootFails, End, Idle, Answered
    <3> QED BY <3>1
  <2>2. CASE RestoreToken
    <3>1. Sent(stored.access, FALSE) \in Call /\ Put("boot", Sent(stored.access, FALSE))
      BY <1>0, <2>2 DEF RestoreToken
    <3>2. Sent(stored.access, FALSE).pc = "sent" /\ Sent(stored.access, FALSE).token = stored.access
      BY DEF Sent
    <3>3. ~RestoreNothing /\ ~BootSucceeds /\ ~BootFails
      BY <2>2 DEF RestoreNothing, RestoreToken, BootSucceeds, BootFails, Answered
    <3> QED BY <3>1, <3>2, <3>3
  <2>3. CASE BootFails
    <3>1. ~RestoreNothing /\ ~BootSucceeds /\ ~RestoreToken
      BY <2>3 DEF RestoreNothing, RestoreToken, BootSucceeds, BootFails, Answered
    <3> QED BY <2>3, <3>1, StoringRec DEF BootFails
  <2> QED BY <2>1, <2>2, <2>3
<1>4. /\ calls'["boot"] = rec /\ \A d \in Callers : d # "boot" => calls'[d] = calls[d]
  BY <1>0, <1>3, PutTyped, Parts
<1>5. Orderly'
  <2>1. rec.pc = "idle" \/ UNCHANGED <<token, screen, refreshing>>
    BY <1>1, <1>3 DEF RestoreToken, BootFails
  <2> QED BY <1>0, <1>1, <1>2, <1>3, <2>1, OrderlyCall
<1>6. Agreed => Agreed'
  <2>1. SUFFICES ASSUME Agreed PROVE Agreed'
    OBVIOUS
  <2>2. /\ token = None /\ user = None /\ refreshing.pc = "idle" /\ refreshing.got = None
        /\ stored.access = stored.refresh /\ stored.access <= issued
        /\ \A d \in Callers \ {"boot"} : calls'[d].pc = "idle"
    BY <1>0, <1>1, <1>4, <2>1 DEF Orderly, Agreed, Restores, Renews, Busy
  <2>3. Renews' /\ stored'.access <= issued'
    BY <1>1, <2>2 DEF Renews, server
  <2>4. CASE RestoreNothing
    <3>1. stored' = Held(None) /\ user' = None /\ token' = None /\ token' <= issued'
      BY <1>0, <1>1, <2>2, <2>4, HeldPair, Parts DEF RestoreNothing, server
    <3>2. \A d \in Callers : calls'[d].pc = "idle"
      BY <1>3, <1>4, <2>2, <2>4
    <3> QED BY <2>3, <3>1, <3>2 DEF Agreed, Follows, Stores, Settled, Shown, Restores
  <2>5. CASE RestoreToken
    <3>1. Put("boot", rec) /\ rec.pc = "sent" /\ rec.token = stored.access /\ ~Stores("boot")
      BY <1>1, <1>3, <2>5 DEF Stores
    <3>2. UNCHANGED <<token, refreshing, stored, user>>
      BY <2>5 DEF RestoreToken, screen
    <3>3. rec.pc \in {"sent", "answered"} /\ rec.pc \notin {"access", "refresh"}
      BY <3>1
    <3>4. rec.pc = "sent" \/ rec.answer = "ok" => rec.token = stored.access
      BY <3>1
    <3>5. "boot" \in Callers /\ Busy("boot") /\ stored.access = stored.refresh
      BY <1>1, <2>2
    <3> QED BY ONLY <1>0, <1>2, <2>1, <3>1, <3>2, <3>3, <3>4, <3>5, AgreedCall
  <2>6. CASE BootSucceeds
    <3>1. calls["boot"].token = stored.access /\ calls["boot"].token \in Pairs
      BY <1>0, <2>1, <2>6, Parts DEF BootSucceeds, Answered, Agreed, Restores, Named
    <3>2. /\ stored' = Held(token') /\ token' = stored.access /\ token' # None
          /\ user' = sessionOf'[token'] /\ token' <= issued'
      BY <1>1, <2>2, <2>6, <3>1, HeldPair DEF BootSucceeds, server
    <3> QED BY <1>3, <1>4, <2>2, <2>3, <2>6, <3>2
         DEF Agreed, Follows, Stores, Settled, Shown, Restores, Busy
  <2>7. CASE BootFails
    <3>1. token' = None /\ token' <= issued'
      BY <1>0, <1>1, <2>2, <2>7, Parts DEF BootFails, server
    <3>2. Stores("boot")'
      BY <1>3, <1>4, <2>7 DEF Stores
    <3> QED BY <1>1, <1>3, <1>4, <2>2, <2>3, <2>7, <3>1, <3>2
         DEF Agreed, Follows, Stores, Settled, Restores
  <2> QED BY <2>4, <2>5, <2>6, <2>7
<1> QED BY <1>0, <1>1, <1>5, <1>6, QuietBefore

LEMMA SignInFailsConsistent ==
  ASSUME Consistent, NEW c \in SignIns, SignInFails(c) PROVE Consistent'
<1> USE ScreenTyped, Constants, Records
<1>0. Careful /\ Orderly /\ Careful'
  BY SignInCareful DEF Consistent
<1>1. /\ Idle \in Call /\ Idle.pc = "idle" /\ Put(c, Idle) /\ c # "boot"
      /\ calls[c].pc = "answered" /\ Busy(c) /\ ~Stores(c)
      /\ UNCHANGED <<server, token, refreshing, stored, screen, past>>
  BY DEF SignInFails, End, Idle, Answered, Busy, Stores
<1>2. SameSessions
  BY <1>0, <1>1, UnchangedSessions DEF server
<1>3. Orderly'
  <2>1. ~Busy("boot")
    BY <1>0, <1>1 DEF Orderly
  <2> QED BY <1>0, <1>1, <1>2, <2>1, OrderlyCall
<1>4. Agreed => Agreed'
  BY <1>0, <1>1, <1>2, AgreedCall DEF screen
<1> QED BY <1>0, <1>1, <1>3, <1>4, QuietBefore DEF past

\* A sign-in or a sign-out takes the memory, and the storage follows.
LEMMA TakesConsistent ==
  ASSUME Consistent, NEW c \in Callers, (c \in SignIns /\ SignInSucceeds(c)) \/ (c \in SignOuts /\ SignOutClears(c))
  PROVE  Consistent'
<1> USE ScreenTyped, Constants, Records
<1>0. Careful /\ Orderly /\ Careful' /\ c # "boot"
  BY SignInCareful, SignOutCareful DEF Consistent
<1>1. /\ calls[c].pc = "answered" /\ Busy(c) /\ ~Busy("boot") /\ Crosses(c)
      /\ UNCHANGED <<server, refreshing, stored, screen, broken>>
  BY <1>0 DEF SignInSucceeds, SignOutClears, Answered, Busy, Orderly
<1>2. SameSessions
  BY <1>0, <1>1, UnchangedSessions DEF server
<1>3. token' \in Tokens /\ token' <= issued /\ Put(c, Storing(token'))
  <2>1. CASE c \in SignIns
    <3>1. Fresh(c) /\ token' = calls[c].token /\ Put(c, Storing(token'))
      BY <2>1 DEF SignInSucceeds, SignOutClears, Answered, Fresh, FreshIn
    <3>2. calls[c].token \in unspent
      BY <1>0, <2>1, <3>1, Parts DEF FreshApart
    <3> QED BY <1>0, <3>1, <3>2, Parts DEF Issued
  <2>2. CASE c \notin SignIns
    BY <1>0, <2>2, Parts DEF SignOutClears
  <2> QED BY <2>1, <2>2
<1>4. /\ Storing(token').pc = "access" /\ Storing(token').token = token' /\ Storing(token') \in Call
  BY <1>3, StoringRec
<1>5. /\ calls'[c] = Storing(token') /\ \A d \in Callers : d # c => calls'[d] = calls[d]
  BY <1>0, <1>3, <1>4, PutTyped, Parts
<1>6. Orderly'
  BY <1>0, <1>1, <1>2, <1>3, <1>4, OrderlyCall
<1>7. ASSUME Agreed, Quiet' PROVE Agreed'
  <2>1. refreshing.pc = "idle" /\ \A d \in Callers \ {c} : ~Stores(d)
    BY <1>1, <1>7 DEF Quiet, Crosses, Others
  <2>2. /\ Stores(c)' /\ calls'[c].pc = "access" /\ calls'[c].token = token'
        /\ \A d \in Callers \ {c} : ~Stores(d)'
    BY <1>4, <1>5, <2>1 DEF Stores
  <2>3. Follows' /\ Settled'
    BY <1>1, <2>1, <2>2 DEF Follows, Settled
  <2>4. Restores'
    BY <1>0, <1>1, <1>5 DEF Restores, Busy
  <2>5. Renews' /\ token' <= issued' /\ stored'.access <= issued'
    BY <1>1, <1>3, <1>7, <2>1 DEF Agreed, Renews, server
  <2> QED BY <2>3, <2>4, <2>5 DEF Agreed
<1> QED BY <1>0, <1>1, <1>6, <1>7, QuietBefore DEF Crosses

\* The storage follows, one key after the other, or it fails.
LEMMA StoreAccessConsistent ==
  ASSUME Consistent, NEW c \in Callers, StoreAccess(c) PROVE Consistent'
<1> USE ScreenTyped, Constants, Records
<1> DEFINE rec == [calls[c] EXCEPT !.pc = "refresh"]
<1>0. Careful /\ Orderly /\ Careful'
  BY StoreAccessCareful DEF Consistent
<1>1. rec \in Call /\ rec.pc = "refresh" /\ rec.token = calls[c].token
  BY <1>0 DEF Call
<1>2. /\ Put(c, rec) /\ calls[c].pc = "access" /\ Busy(c) /\ Stores(c)
      /\ stored' = [stored EXCEPT !.access = calls[c].token]
      /\ UNCHANGED <<server, token, refreshing, screen, past>>
  BY DEF StoreAccess, Busy, Stores
<1> HIDE DEF rec
<1>3. SameSessions
  BY <1>0, <1>2, UnchangedSessions DEF server
<1>4. /\ calls'[c] = rec /\ \A d \in Callers : d # c => calls'[d] = calls[d]
  BY <1>0, <1>1, <1>2, PutTyped, Parts
<1>5. Orderly'
  <2>1. c # "boot" => ~Busy("boot")
    BY <1>0, <1>2 DEF Orderly
  <2> QED BY <1>0, <1>1, <1>2, <1>3, <2>1, OrderlyCall
<1>6. ASSUME Agreed PROVE Agreed'
  <2>1. /\ refreshing.pc = "idle" /\ calls[c].token = token /\ stored'.access = token
        /\ \A d \in Callers : Stores(d) => calls[d].token = token
    BY <1>0, <1>2, <1>6, Parts DEF Agreed, Follows, ClientTyped, Pair
  <2>2. \A d \in Callers : Stores(d)' => calls'[d].token = token
    BY <1>1, <1>4, <2>1 DEF Stores
  <2>3. Follows'
    BY <1>2, <2>1, <2>2 DEF Follows
  <2>4. Stores(c)'
    BY <1>1, <1>4 DEF Stores
  <2>5. Settled'
    BY <2>4 DEF Settled
  <2>6. calls'["boot"].pc \in {"idle", "waiting", "access", "refresh"}
    <3>1. CASE c = "boot"
      BY <1>1, <1>4, <3>1
    <3>2. CASE c # "boot"
      BY <1>0, <1>2, <1>4, <3>2 DEF Orderly, Busy
    <3> QED BY <3>1, <3>2
  <2>7. Restores'
    BY <2>6 DEF Restores
  <2>8. Renews' /\ token' <= issued' /\ stored'.access <= issued'
    BY <1>2, <1>6, <2>1 DEF Agreed, Renews, server, screen
  <2> QED BY <2>3, <2>5, <2>7, <2>8 DEF Agreed
<1> QED BY <1>0, <1>2, <1>5, <1>6, QuietBefore DEF past

LEMMA StoreRefreshConsistent ==
  ASSUME Consistent, NEW c \in Callers, StoreRefresh(c) PROVE Consistent'
<1> USE ScreenTyped, Constants, Records
<1>0. Careful /\ Orderly /\ Careful'
  BY StoreRefreshCareful DEF Consistent
<1>1. Idle \in Call /\ Idle.pc = "idle"
  BY DEF Idle
<1>2. /\ Put(c, Idle) /\ calls[c].pc = "refresh" /\ Busy(c) /\ Stores(c)
      /\ stored' = [stored EXCEPT !.refresh = calls[c].token]
      /\ user' = IF c \in SignIns THEN sessionOf[calls[c].token] ELSE None
      /\ UNCHANGED <<server, token, refreshing, past>>
  BY DEF StoreRefresh, Busy, Stores, End
<1>3. SameSessions
  BY <1>0, <1>2, UnchangedSessions DEF server
<1>4. /\ calls'[c] = Idle /\ \A d \in Callers : d # c => calls'[d] = calls[d]
  BY <1>0, <1>1, <1>2, PutTyped, Parts
<1>5. Orderly'
  <2>1. c # "boot" => ~Busy("boot")
    BY <1>0, <1>2 DEF Orderly
  <2> QED BY <1>0, <1>1, <1>2, <1>3, <2>1, OrderlyCall
<1>6. ASSUME Agreed PROVE Agreed'
  <2>1. /\ refreshing.pc = "idle" /\ calls[c].token = token /\ stored.access = token
        /\ \A d \in Callers : Stores(d) => calls[d].token = token
    BY <1>2, <1>6 DEF Agreed, Follows
  <2>2. stored'.access = token /\ stored' = Held(token)
    BY <1>0, <1>2, <2>1, HeldPair, Parts DEF ClientTyped, Pair
  <2>3. user' = Shown(token)'
    <3>1. CASE c \in SignIns
      <4>1. Fresh(c)
        BY <1>2 DEF Fresh, FreshIn
      <4>2. calls[c].token \in unspent
        BY <1>0, <3>1, <4>1, Parts DEF FreshApart
      <4>3. token # None
        BY <1>0, <2>1, <4>2, Parts DEF ServiceTyped
      <4> QED BY <1>2, <2>1, <3>1, <4>3 DEF Shown, server
    <3>2. CASE c \notin SignIns
      <4>1. token = None
        BY <1>0, <1>2, <2>1, <3>2, Parts DEF Cleared
      <4> QED BY <1>2, <3>2, <4>1 DEF Shown
    <3> QED BY <3>1, <3>2
  <2>4. \A d \in Callers : Stores(d)' => calls'[d].token = token
    BY <1>1, <1>4, <2>1 DEF Stores
  <2>5. Follows'
    BY <1>2, <2>1, <2>2, <2>4 DEF Follows
  <2>6. Settled'
    BY <1>2, <2>2, <2>3 DEF Settled
  <2>7. calls'["boot"].pc = "idle"
    <3>1. CASE c = "boot"
      BY <1>1, <1>4, <3>1
    <3>2. CASE c # "boot"
      BY <1>0, <1>2, <1>4, <3>2 DEF Orderly, Busy
    <3> QED BY <3>1, <3>2
  <2>8. Restores'
    BY <2>7 DEF Restores
  <2>9. Renews' /\ token' <= issued' /\ stored'.access <= issued'
    BY <1>2, <1>6, <2>1, <2>2 DEF Agreed, Renews, server
  <2> QED BY <2>5, <2>6, <2>8, <2>9 DEF Agreed
<1> QED BY <1>0, <1>2, <1>5, <1>6, QuietBefore DEF past

LEMMA StoreFailsConsistent ==
  ASSUME Consistent, NEW c \in Callers, StoreFails(c) PROVE Consistent'
<1> USE ScreenTyped, Constants, Records
<1>0. Careful /\ Orderly /\ Careful'
  BY StoreFailsCareful DEF Consistent
<1>1. Idle \in Call /\ Idle.pc = "idle"
  BY DEF Idle
<1>2. /\ Put(c, Idle) /\ calls[c].pc \in {"access", "refresh"} /\ Busy(c) /\ broken'
      /\ UNCHANGED <<server, refreshing, crossed>>
  BY DEF StoreFails, Busy, Stores, End
<1>3. SameSessions
  BY <1>0, <1>2, UnchangedSessions DEF server
<1>4. Orderly'
  <2>1. c # "boot" => ~Busy("boot")
    BY <1>0, <1>2 DEF Orderly
  <2> QED BY <1>0, <1>1, <1>2, <1>3, <2>1, OrderlyCall
<1> QED BY <1>0, <1>2, <1>4 DEF Consistent, Quiet

-----------------------------------------------------------------------------
(* The steps of the refresh.                                               *)

\* While a refresh is under way no start is, and nobody changes the storage.
LEMMA Refreshing ==
  ASSUME Careful, Orderly, refreshing.pc # "idle"
  PROVE  /\ calls["boot"].pc = "idle"
         /\ Agreed => /\ \A c \in Callers : ~Stores(c)
                      /\ user = Shown(token)
                      /\ refreshing.pc \notin {"access", "refresh"} => stored = Held(token)
BY DEF Orderly, Agreed, Follows, Settled, Busy

\* A refresh that failed leaves those who waited to empty the storage.
LEMMA TearDownConsistent ==
  ASSUME Consistent, Careful', TearDown, refreshing.pc # "idle",
         UNCHANGED <<server, stored, screen, broken>>
  PROVE  Consistent'
<1> USE ScreenTyped, Constants, Records
<1>0. Careful /\ Orderly
  BY DEF Consistent
<1>1. /\ calls["boot"].pc = "idle" /\ SameSessions
      /\ Storing(None).pc = "access" /\ Storing(None).token = None
  BY <1>0, Refreshing, UnchangedSessions, StoringRec DEF server
<1>2. /\ refreshing'.pc = "idle" /\ refreshing'.got = None /\ token' = None
      /\ \A c \in Callers : calls'[c] = IF calls[c].pc = "waiting" THEN Storing(None) ELSE calls[c]
      /\ crossed' = (crossed \/ \E d \in Callers : Stores(d))
  BY DEF TearDown, NoRefresh
<1>3. calls'["boot"].pc = "idle"
  BY <1>1, <1>2
<1>4. Orderly'
  BY <1>1, <1>2, <1>3 DEF Orderly, SameSessions, Busy
<1>5. ASSUME Agreed, Quiet' PROVE Agreed'
  <2>1. \A c \in Callers : Stores(c)' => calls'[c].pc = "access" /\ calls'[c].token = None
    BY <1>1, <1>2, <1>5 DEF Quiet, Stores
  <2>2. \E c \in Callers : Stores(c)'
    BY <1>0, <1>1, <1>2 DEF Orderly, Stores
  <2>3. Follows' /\ Settled' /\ Restores'
    BY <1>2, <1>3, <2>1, <2>2 DEF Follows, Settled, Restores
  <2>4. Renews' /\ token' <= issued' /\ stored'.access <= issued'
    BY <1>0, <1>2, <1>5, Parts DEF Agreed, Renews, server
  <2> QED BY <2>3, <2>4 DEF Agreed
<1> QED BY <1>0, <1>2, <1>4, <1>5, QuietBefore

LEMMA FailedRefreshConsistent ==
  ASSUME Consistent, ReadNothing \/ RefreshFails \/ SaveFails PROVE Consistent'
<1>1. Careful' /\ TearDown /\ refreshing.pc # "idle" /\ UNCHANGED <<server, stored, screen, broken>>
  BY ReadCareful, RefreshFailsCareful, SaveFailsCareful
     DEF Consistent, ReadNothing, RefreshFails, SaveFails, screen
<1> QED BY <1>1, TearDownConsistent

\* A step of the refresh that leaves the calls and the screen alone.
LEMMA RefreshKeeps ==
  ASSUME Consistent, Careful', SameSessions, refreshing.pc # "idle",
         UNCHANGED <<calls, screen, crossed, broken>>,
         Agreed => /\ Renews' /\ token' <= issued' /\ stored'.access <= issued'
                   /\ user = Shown(token)'
                   /\ refreshing'.pc \notin {"access", "refresh"} => stored' = Held(token')
  PROVE  Consistent'
<1> USE ScreenTyped, Constants
<1>0. Careful /\ Orderly /\ calls["boot"].pc = "idle"
  BY Refreshing DEF Consistent
<1>1. Orderly'
  BY <1>0 DEF Orderly, SameSessions, Busy
<1>2. ASSUME Agreed PROVE Agreed'
  <2>1. \A c \in Callers : ~Stores(c)'
    BY <1>0, <1>2, Refreshing DEF Stores
  <2>2. Follows' /\ Restores'
    BY <1>0, <2>1 DEF Follows, Restores
  <2>3. Settled'
    BY <1>2 DEF Settled, screen
  <2> QED BY <1>2, <2>2, <2>3 DEF Agreed
<1> QED BY <1>0, <1>1, <1>2, QuietBefore

LEMMA ReadRefreshTokenConsistent == ASSUME Consistent, ReadRefreshToken PROVE Consistent'
<1>0. Careful /\ Orderly /\ Careful'
  BY ReadCareful DEF Consistent
<1>1. /\ refreshing.pc = "reading" /\ refreshing'.pc = "sent" /\ refreshing'.spends = stored.refresh
      /\ refreshing'.got = refreshing.got
      /\ UNCHANGED <<server, token, stored, calls, screen, past>>
  BY <1>0, Parts DEF ReadRefreshToken, ClientTyped, Refresh
<1>2. SameSessions
  BY <1>0, <1>1, UnchangedSessions DEF server
<1>3. ASSUME Agreed
      PROVE  /\ Renews' /\ token' <= issued' /\ stored'.access <= issued'
             /\ user = Shown(token)' /\ stored' = Held(token')
  <2>1. user = Shown(token) /\ stored = Held(token) /\ stored.refresh = token /\ refreshing.got = None
    BY <1>0, <1>1, <1>3, Refreshing DEF Held, Agreed, Renews
  <2> QED BY <1>1, <1>3, <2>1 DEF Agreed, Renews, Shown, server
<1> QED BY <1>0, <1>1, <1>2, <1>3, RefreshKeeps DEF past

LEMMA RotateConsistent ==
  ASSUME Consistent, NEW answered \in BOOLEAN, Rotate(answered) PROVE Consistent'
<1> USE ScreenTyped, Constants
<1>0. Careful /\ Orderly /\ Careful'
  BY RotateCareful DEF Consistent
<1>1. /\ refreshing.pc = "sent" /\ refreshing'.pc = "answered" /\ Spend(refreshing.spends)
      /\ refreshing'.got = IF answered THEN issued + 1 ELSE None
      /\ UNCHANGED <<token, stored, calls, screen, crossed, broken>>
  BY <1>0, Parts DEF Rotate, ClientTyped, Refresh, past
<1>2. refreshing.spends \in Pairs /\ refreshing.spends <= issued
  BY <1>0, <1>1, Parts DEF Named, Issued
<1>3. SameSessions
  BY <1>0, <1>1, <1>2, ServerSessions
<1>4. ASSUME Agreed
      PROVE  /\ Renews' /\ token' <= issued' /\ stored'.access <= issued'
             /\ user = Shown(token)' /\ stored' = Held(token')
  <2>1. /\ user = Shown(token) /\ stored = Held(token) /\ refreshing.spends = token
        /\ token <= issued /\ stored.access <= issued
    BY <1>0, <1>1, <1>4, Refreshing DEF Agreed, Renews
  <2>2. /\ token <= issued' /\ stored.access <= issued' /\ user = Shown(token)'
    BY <1>0, <1>1, <1>3, <2>1, SameShown DEF Shown
  <2>3. sessionOf[token] \in Tokens /\ sessionOf[token] # None /\ user = sessionOf[token]
    BY <1>0, <1>2, <2>1, Parts DEF Orderly, Rooted, ServiceTyped, Tokens, Shown
  <2>4. Issue(sessionOf[token]) /\ issued + 1 \in Pairs
    BY <1>0, <1>1, <2>1, <2>3, IssueTyped, Parts DEF Spend
  <2>5. sessionOf'[issued + 1] = user
    BY <1>0, <2>3, <2>4, Parts DEF Issue, ServiceTyped
  <2>6. Renews'
    BY <1>1, <2>5 DEF Renews, screen
  <2> QED BY <1>1, <2>1, <2>2, <2>6
<1> QED BY <1>0, <1>1, <1>3, <1>4, RefreshKeeps

LEMMA RefusedConsistent == ASSUME Consistent, RefuseRefresh \/ RefreshCallFails PROVE Consistent'
<1>0. Careful /\ Orderly /\ Careful'
  BY RefusedCareful DEF Consistent
<1>1. /\ refreshing.pc = "sent" /\ refreshing'.pc = "answered" /\ refreshing'.got = refreshing.got
      /\ UNCHANGED <<issued, sessionOf, token, stored, calls, screen, crossed, broken>>
  BY <1>0, Parts DEF RefuseRefresh, RefreshCallFails, Punish, ClientTyped, Refresh, server, past
<1>2. SameSessions
  BY <1>0, <1>1, UnchangedSessions
<1>3. ASSUME Agreed
      PROVE  /\ Renews' /\ token' <= issued' /\ stored'.access <= issued'
             /\ user = Shown(token)' /\ stored' = Held(token')
  <2>1. user = Shown(token) /\ stored = Held(token) /\ refreshing.got = None
    BY <1>0, <1>1, <1>3, Refreshing DEF Agreed, Renews
  <2> QED BY <1>1, <1>3, <2>1 DEF Agreed, Renews, Shown
<1> QED BY <1>0, <1>1, <1>2, <1>3, RefreshKeeps

LEMMA KeepConsistent == ASSUME Consistent, KeepRefreshed \/ SaveAccess PROVE Consistent'
<1> USE ScreenTyped, Constants
<1>0. Careful /\ Orderly /\ Careful'
  BY KeepCareful DEF Consistent
<1>1. UNCHANGED <<server, calls, screen, past>> /\ refreshing.got \in Tokens
  BY <1>0, Parts DEF KeepRefreshed, SaveAccess
<1>2. SameSessions
  BY <1>0, <1>1, UnchangedSessions DEF server
<1>3. ASSUME Agreed, KeepRefreshed
      PROVE  /\ Renews' /\ token' <= issued' /\ stored'.access <= issued' /\ user = Shown(token)'
             /\ refreshing'.pc = "access"
  <2>1. /\ refreshing'.pc = "access" /\ refreshing'.got = refreshing.got /\ token' = refreshing.got
        /\ refreshing.got # None /\ stored' = stored
    BY <1>0, <1>3, Parts DEF KeepRefreshed, ClientTyped, Refresh
  <2>2. sessionOf[refreshing.got] = user /\ refreshing.got <= issued
    BY <1>0, <1>3, <2>1, Parts DEF Agreed, Renews, Issued
  <2> QED BY <1>1, <1>3, <2>1, <2>2 DEF Agreed, Renews, Shown, server, screen
<1>4. ASSUME Agreed, SaveAccess
      PROVE  /\ Renews' /\ token' <= issued' /\ stored'.access <= issued' /\ user = Shown(token)'
             /\ refreshing'.pc = "refresh"
  <2>1. /\ refreshing.pc = "access" /\ refreshing'.pc = "refresh" /\ refreshing'.got = refreshing.got
        /\ stored'.access = refreshing.got /\ token' = token
    BY <1>0, <1>4, Parts DEF SaveAccess, ClientTyped, Refresh, Pair
  <2>2. refreshing.got = token /\ token # None /\ sessionOf[token] = user
    BY <1>4, <2>1 DEF Agreed, Renews
  <2> QED BY <1>1, <1>4, <2>1, <2>2 DEF Agreed, Renews, Shown, server, screen
<1>5. refreshing.pc # "idle" /\ UNCHANGED <<calls, screen, crossed, broken>>
  BY <1>1 DEF KeepRefreshed, SaveAccess, past
<1> QED BY <1>0, <1>2, <1>3, <1>4, <1>5, RefreshKeeps

LEMMA SaveRefreshConsistent == ASSUME Consistent, SaveRefresh PROVE Consistent'
<1> USE ScreenTyped, Constants, Records
<1>0. Careful /\ Orderly /\ Careful'
  BY SaveRefreshCareful DEF Consistent
<1>1. /\ refreshing.pc = "refresh" /\ refreshing'.pc = "idle" /\ refreshing'.got = None
      /\ stored' = [stored EXCEPT !.refresh = refreshing.got] /\ stored \in Pair
      /\ \A c \in Callers :
           calls'[c] = IF calls[c].pc = "waiting" THEN Sent(refreshing.got, TRUE) ELSE calls[c]
      /\ UNCHANGED <<server, token, screen, past>>
  BY <1>0, Parts DEF SaveRefresh, NoRefresh, ClientTyped
<1>2. calls["boot"].pc = "idle" /\ calls'["boot"].pc = "idle"
  BY <1>0, <1>1, Refreshing
<1>3. SameSessions
  BY <1>0, <1>1, UnchangedSessions DEF server
<1>4. Orderly'
  BY <1>1, <1>2, <1>3 DEF Orderly, SameSessions, Busy
<1>5. ASSUME Agreed PROVE Agreed'
  <2>1. /\ user = Shown(token) /\ refreshing.got = token /\ stored.access = token
        /\ \A c \in Callers : ~Stores(c)
    BY <1>0, <1>1, <1>5, Refreshing DEF Agreed, Renews
  <2>2. stored'.access = token /\ stored' = Held(token)
    BY <1>1, <2>1, HeldPair DEF Pair
  <2>3. \A c \in Callers : ~Stores(c)'
    <3>1. Sent(refreshing.got, TRUE).pc = "sent"
      BY DEF Sent
    <3> QED BY <1>1, <2>1, <3>1 DEF Stores
  <2>4. Follows' /\ Restores' /\ Renews'
    BY <1>1, <1>2, <2>3 DEF Follows, Restores, Renews
  <2>5. Settled'
    BY <1>1, <2>1, <2>2 DEF Settled, Shown, server, screen
  <2> QED BY <1>1, <1>5, <2>2, <2>4, <2>5 DEF Agreed, server
<1> QED BY <1>0, <1>1, <1>4, <1>5, QuietBefore DEF past

LEMMA KillConsistent == ASSUME Consistent, Kill PROVE Consistent'
<1> USE ScreenTyped, Constants
<1>0. Careful /\ Orderly /\ Careful'
  BY KillCareful DEF Consistent
<1>1. /\ token' = None /\ user' = None /\ loading'
      /\ refreshing'.pc = "idle" /\ refreshing'.got = None
      /\ broken' = (broken \/ stored.access # stored.refresh)
      /\ UNCHANGED <<server, stored, crossed>>
  BY DEF Kill, NoRefresh
<1>2. /\ calls'["boot"].pc = "restoring" /\ \A c \in Callers \ {"boot"} : calls'[c].pc = "idle"
  BY DEF Kill, Starting, Idle
<1>3. SameSessions
  BY <1>0, <1>1, UnchangedSessions DEF server
<1>4. Orderly'
  BY <1>1, <1>2, <1>3 DEF Orderly, SameSessions, Busy
<1>5. ASSUME Agreed, Quiet' PROVE Agreed'
  <2>1. stored'.access = stored'.refresh
    BY <1>1, <1>5 DEF Quiet
  <2>2. \A c \in Callers : ~Stores(c)'
    BY <1>2 DEF Stores
  <2>3. Follows' /\ Settled' /\ Restores' /\ Renews'
    BY <1>1, <1>2, <2>1, <2>2 DEF Follows, Settled, Restores, Renews, Busy
  <2>4. token' <= issued' /\ stored'.access <= issued'
    BY <1>0, <1>1, <1>5, Parts DEF Agreed, server
  <2> QED BY <2>3, <2>4 DEF Agreed
<1> QED BY <1>0, <1>1, <1>4, <1>5, QuietBefore

-----------------------------------------------------------------------------
(* The theorem.                                                            *)

LEMMA InitConsistent == Init => Consistent
<1> SUFFICES ASSUME Init PROVE Consistent
  OBVIOUS
<1> USE Constants
<1>1. Careful
  BY InitCareful
<1>2. /\ issued = 0 /\ token = None /\ user = None /\ loading
      /\ stored.access = None /\ stored.refresh = None
      /\ refreshing.pc = "idle" /\ refreshing.got = None
  BY DEF Init, NothingIssued, NoRefresh, Empty
<1>3. calls["boot"].pc = "restoring" /\ \A c \in Callers \ {"boot"} : calls[c].pc = "idle"
  BY DEF Init, Starting, Idle
<1>4. Orderly
  <2>1. Rooted
    BY <1>2 DEF Rooted, Pairs
  <2> QED BY <1>2, <1>3, <2>1 DEF Orderly, Busy
<1>5. \A c \in Callers : ~Stores(c)
  BY <1>3 DEF Stores
<1>6. Agreed
  BY <1>2, <1>3, <1>5 DEF Agreed, Follows, Settled, Restores, Renews, Busy
<1> QED BY <1>1, <1>4, <1>6 DEF Consistent

LEMMA NextConsistent == ASSUME Consistent, [Next]_vars PROVE Consistent'
<1>1. CASE UNCHANGED vars
  <2>1. Careful'
    BY NextCareful DEF Consistent
  <2>2. Orderly'
    BY <1>1 DEF Consistent, Orderly, Rooted, Busy, vars, server, screen
  <2>3. Agreed => Agreed'
    BY <1>1 DEF Agreed, Follows, Settled, Restores, Renews, Shown, Stores, Busy, vars, server, screen
  <2> QED BY <1>1, <2>1, <2>2, <2>3, QuietBefore DEF vars, past
<1>2. CASE Refreshes
  BY <1>2, FailedRefreshConsistent, ReadRefreshTokenConsistent, RotateConsistent, RefusedConsistent,
     KeepConsistent, SaveRefreshConsistent DEF Refreshes
<1>3. CASE Goes
  BY <1>3, AnswersConsistent, StoreFailsConsistent, RotateConsistent, FailedRefreshConsistent,
     KillConsistent DEF Goes
<1>4. CASE Asks
  BY <1>4, AsksConsistent
<1>5. ASSUME NEW c \in Callers, Step(c) PROVE Consistent'
  BY <1>5, AnswersConsistent, StoreAccessConsistent, StoreRefreshConsistent, JoinConsistent,
     BootConsistent, TakesConsistent, SignInFailsConsistent DEF Step
<1> QED BY <1>1, <1>2, <1>3, <1>4, <1>5 DEF Next, Works

\* At rest memory, storage and screen of the Flutter application agree on one
\* session, or on none (auth_controller.dart:125-195), whatever signs in and out,
\* is refreshed and is killed, unless changes of the tokens overlapped, a call of
\* the storage failed, or a kill left two different keys.
THEOREM FlutterKeepsOneSession == Spec => []OneSession
<1>1. Consistent => OneSession
  <2> USE Constants
  <2>1. SUFFICES ASSUME Consistent, AtRest, Quiet
                 PROVE  IF user = None THEN token = None /\ stored = Empty
                        ELSE stored = Held(token) /\ token # None /\ sessionOf[token] = user
    BY DEF OneSession, Quiet
  <2>2. user = Shown(token) /\ stored = Held(token) /\ token <= issued
    BY <2>1 DEF Consistent, Agreed, Settled, AtRest, Stores, Busy
  <2>3. token # None => sessionOf[token] # None
    BY <2>1, <2>2, ScreenTyped DEF Consistent, Orderly, Rooted
  <2> QED BY <2>2, <2>3 DEF Shown, Held, Empty
<1> QED BY <1>1, InitConsistent, NextConsistent, PTL DEF Spec

-----------------------------------------------------------------------------
(* Work is bounded, and until rest some of it is ready.                    *)

\* How far a call is from its end, at most, in steps of its own and answers.
Rank(call) ==
  CASE call.pc = "idle"      -> 0
    [] call.pc = "refresh"   -> 1
    [] call.pc = "access"    -> 2
    [] call.pc = "answered"  -> IF call.answer = "refused" /\ ~call.retried THEN 6 ELSE 3
    [] call.pc = "waiting"   -> 5
    [] call.pc = "sent"      -> IF call.retried THEN 4 ELSE 7
    [] call.pc = "restoring" -> 8

\* The same of the refresh.
Stage(refresh) ==
  CASE refresh.pc = "idle"     -> 0
    [] refresh.pc = "refresh"  -> 1
    [] refresh.pc = "access"   -> 2
    [] refresh.pc = "answered" -> 3
    [] refresh.pc = "sent"     -> 4
    [] refresh.pc = "reading"  -> 5

\* Where a call of each kind can be.
StagedAt(c, call) ==
  /\ call.pc = "waiting" => c \in Requests
  /\ call.pc = "restoring" => c = "boot"
  /\ call.pc = "answered" /\ c \in Requests => call.answer = "refused" /\ ~call.retried
  /\ call.pc = "answered" /\ c \in SignIns => call.answer \in {"ok", "failed"}

Staged ==
  /\ \A c \in Callers : StagedAt(c, calls[c])
  /\ \A c \in Callers : calls[c].pc = "waiting" => refreshing.pc # "idle"

\* Call c comes nearer to its end.
Nears(c, call) == Busy(c) /\ Rank(call) < Rank(calls[c]) /\ StagedAt(c, call)

LEMMA RankType == ASSUME NEW call \in Call PROVE Rank(call) \in 0..8
BY DEF Rank, Call

LEMMA AnswerNears ==
  ASSUME Careful, NEW c \in Callers, NEW a \in {"ok", "refused", "failed"}, NEW t \in Tokens,
         Answer(c, a, t), calls[c].pc = "sent",
         c \in Requests => a = "refused" /\ ~calls[c].retried, c \in SignIns => a # "refused"
  PROVE  Nears(c, calls'[c]) /\ calls'[c].pc = "answered"
<1>1. /\ calls'[c].pc = "answered" /\ calls'[c].answer = a /\ calls'[c].retried = calls[c].retried
  BY Parts DEF ClientTyped, Call, Answer, Put
<1>2. Rank(calls[c]) = IF calls[c].retried THEN 4 ELSE 7
  BY DEF Rank
<1>3. calls'[c].retried => Rank(calls'[c]) = 3
  BY <1>1 DEF Rank
<1>4. Rank(calls'[c]) \in {3, 6}
  BY <1>1 DEF Rank
<1>5. StagedAt(c, calls'[c])
  BY <1>1 DEF StagedAt
<1>6. Rank(calls'[c]) < Rank(calls[c])
  BY <1>1, <1>2, <1>3, <1>4
<1> QED BY <1>1, <1>5, <1>6 DEF Nears, Busy

LEMMA EndNears ==
  ASSUME Careful, NEW c \in Callers, End(c), Busy(c)
  PROVE  Nears(c, calls'[c]) /\ calls'[c].pc = "idle"
<1>1. calls'[c] = Idle /\ calls[c] \in Call
  BY Parts DEF ClientTyped, End, Put
<1>2. Rank(calls'[c]) = 0 /\ calls'[c].pc = "idle" /\ StagedAt(c, calls'[c])
  BY <1>1 DEF Idle, Rank, StagedAt
<1>3. Rank(calls[c]) \in {1, 2, 3, 4, 5, 6, 7, 8}
  BY <1>1 DEF Rank, Busy, Call
<1>4. Rank(calls'[c]) < Rank(calls[c])
  BY <1>2, <1>3
<1> QED BY <1>2, <1>4 DEF Nears

LEMMA StoringNears ==
  ASSUME Careful, NEW c \in Callers, NEW t \in Tokens, calls'[c] = Storing(t),
         calls[c].pc \in {"answered", "waiting"}
  PROVE  Nears(c, calls'[c]) /\ calls'[c].pc = "access"
<1>1. calls'[c].pc = "access"
  BY DEF Storing, Idle
<1>2. Rank(calls'[c]) = 2 /\ StagedAt(c, calls'[c])
  BY <1>1 DEF Rank, StagedAt
<1>3. Rank(calls[c]) \in {3, 5, 6}
  BY DEF Rank
<1>4. Rank(calls'[c]) < Rank(calls[c])
  BY <1>2, <1>3
<1> QED BY <1>1, <1>2, <1>4 DEF Nears, Busy

\* A step of a call: its own record changes, and a refresh may have been begun.
Moves(c) ==
  /\ Nears(c, calls'[c]) /\ \A d \in Callers : d # c => calls'[d] = calls[d]
  /\ \/ refreshing' = refreshing /\ calls'[c].pc # "waiting"
     \/ refreshing'.pc # "idle"

LEMMA StepMoves ==
  ASSUME Careful, Staged, NEW c \in Callers, Step(c) \/ AnswerLost(c) \/ StoreFails(c)
  PROVE  Moves(c)
<1>1. ClientTyped /\ ServiceTyped /\ calls[c].token \in Tokens /\ None \in Tokens /\ calls[c] \in Call
  BY Parts, Constants DEF ClientTyped, Call
<1>2. StagedAt(c, calls[c])
  BY DEF Staged
<1>3. \A rec : Put(c, rec) => calls'[c] = rec /\ \A d \in Callers : d # c => calls'[d] = calls[d]
  BY <1>1 DEF Put, ClientTyped
<1>4. ASSUME NEW rec, Put(c, rec), Nears(c, calls'[c]), calls'[c].pc # "waiting", refreshing' = refreshing
      PROVE  Moves(c)
  BY <1>3, <1>4 DEF Moves
<1>5. ASSUME End(c), Busy(c), refreshing' = refreshing PROVE Moves(c)
  BY <1>4, <1>5, EndNears DEF End
<1>6. ASSUME NEW a \in {"ok", "refused", "failed"}, NEW t \in Tokens, Answer(c, a, t), calls[c].pc = "sent",
             c \in Requests => a = "refused" /\ ~calls[c].retried, c \in SignIns => a # "refused",
             refreshing' = refreshing
      PROVE  Moves(c)
  BY <1>4, <1>6, AnswerNears DEF Answer
<1>7. CASE Accept(c) \/ AnswerLost(c)
  <2>1. Effect(c) /\ calls[c].pc = "sent" /\ refreshing' = refreshing /\ Busy(c)
    BY <1>7 DEF Accept, AnswerLost, Busy
  <2> DEFINE u == IF c \in SignIns THEN issued + 1 ELSE calls[c].token
  <2>2. u \in Tokens
    BY <1>1, <2>1, EffectTyped, Constants
  <2>3. \/ End(c)
        \/ c \notin Requests /\ (Answer(c, "ok", u) \/ Answer(c, "failed", None))
    BY <1>7, Constants DEF Accept, AnswerLost
  <2> HIDE DEF u
  <2> QED BY <1>1, <1>5, <1>6, <2>1, <2>2, <2>3
<1>8. CASE Refuse(c)
  <2>1. refreshing' = refreshing /\ calls[c].pc = "sent" /\ Busy(c) /\ c \notin SignIns
    BY <1>8 DEF Refuse, Busy
  <2>2. End(c) \/ (Answer(c, "refused", calls[c].token) /\ ~(c \in Requests /\ calls[c].retried))
    BY <1>8 DEF Refuse
  <2> QED BY <1>1, <1>5, <1>6, <2>1, <2>2
<1>9. CASE CallFails(c)
  <2>1. refreshing' = refreshing /\ calls[c].pc = "sent" /\ Busy(c)
    BY <1>9 DEF CallFails, Busy
  <2>2. End(c) \/ (Answer(c, "failed", None) /\ c \notin Requests)
    BY <1>9 DEF CallFails
  <2> QED BY <1>1, <1>5, <1>6, <2>1, <2>2
<1>10. CASE StoreAccess(c)
  <2> DEFINE rec == [calls[c] EXCEPT !.pc = "refresh"]
  <2>1. Put(c, rec) /\ calls[c].pc = "access" /\ refreshing' = refreshing
    BY <1>10 DEF StoreAccess
  <2>2. rec.pc = "refresh"
    BY <1>1 DEF Call
  <2> HIDE DEF rec
  <2>3. Rank(rec) = 1 /\ Rank(calls[c]) = 2 /\ StagedAt(c, rec)
    BY <2>1, <2>2 DEF Rank, StagedAt
  <2>4. Nears(c, rec)
    BY <2>1, <2>3 DEF Nears, Busy
  <2> QED BY <1>3, <1>4, <2>1, <2>2, <2>4
<1>11. CASE StoreRefresh(c) \/ StoreFails(c)
  BY <1>5, <1>11 DEF StoreRefresh, StoreFails, Stores, Busy
<1>12. CASE c \in Requests /\ Join(c)
  <2> DEFINE rec == [calls[c] EXCEPT !.pc = "waiting"]
  <2>1. Put(c, rec) /\ calls[c].pc = "answered" /\ calls[c].answer = "refused"
    BY <1>12 DEF Join, Answered
  <2>2. refreshing'.pc # "idle"
    BY <1>12 DEF Join, NoRefresh
  <2>3. rec.pc = "waiting"
    BY <1>1 DEF Call
  <2> HIDE DEF rec
  <2>4. Rank(rec) = 5 /\ StagedAt(c, rec)
    BY <1>12, <2>3 DEF Rank, StagedAt
  <2>5. Rank(calls[c]) = 6
    BY <1>2, <1>12, <2>1 DEF Rank, StagedAt
  <2>6. Nears(c, rec)
    BY <2>1, <2>4, <2>5 DEF Nears, Busy
  <2> QED BY <1>3, <2>1, <2>2, <2>6 DEF Moves
<1>13. CASE c = "boot" /\ (RestoreNothing \/ BootSucceeds)
  BY <1>5, <1>13 DEF RestoreNothing, BootSucceeds, Answered, Busy
<1>14. CASE c = "boot" /\ RestoreToken
  <2> DEFINE rec == Sent(stored.access, FALSE)
  <2>1. Put(c, rec) /\ calls[c].pc = "restoring" /\ refreshing' = refreshing
    BY <1>14 DEF RestoreToken
  <2>2. rec.pc = "sent" /\ rec.retried = FALSE
    BY DEF Sent
  <2> HIDE DEF rec
  <2>3. Rank(rec) = 7 /\ Rank(calls[c]) = 8 /\ StagedAt(c, rec)
    BY <2>1, <2>2 DEF Rank, StagedAt
  <2>4. Nears(c, rec)
    BY <2>1, <2>3 DEF Nears, Busy
  <2> QED BY <1>3, <1>4, <2>1, <2>2, <2>4
<1>15. CASE \/ c = "boot" /\ BootFails
            \/ c \in SignIns /\ SignInSucceeds(c)
            \/ c \in SignOuts /\ SignOutClears(c)
  <2>1. PICK t \in Tokens : Put(c, Storing(t))
    BY <1>1, <1>15 DEF BootFails, SignInSucceeds, SignOutClears
  <2>2. calls[c].pc = "answered" /\ refreshing' = refreshing
    BY <1>15 DEF BootFails, SignInSucceeds, SignOutClears, Answered
  <2>3. calls'[c] = Storing(t)
    BY <1>3, <2>1
  <2>4. Nears(c, calls'[c]) /\ calls'[c].pc = "access"
    BY <2>2, <2>3, StoringNears
  <2> QED BY <1>4, <2>1, <2>2, <2>4
<1>16. CASE c \in SignIns /\ SignInFails(c)
  BY <1>5, <1>16 DEF SignInFails, Answered, Busy
<1>17. Step(c) =>
         \/ Accept(c) \/ Refuse(c) \/ CallFails(c) \/ StoreAccess(c) \/ StoreRefresh(c)
         \/ c \in Requests /\ Join(c)
         \/ c = "boot" /\ (RestoreNothing \/ BootSucceeds)
         \/ c = "boot" /\ RestoreToken
         \/ c = "boot" /\ BootFails
         \/ c \in SignIns /\ (SignInSucceeds(c) \/ SignInFails(c))
         \/ c \in SignOuts /\ SignOutClears(c)
  BY DEF Step
<1> QED BY <1>7, <1>8, <1>9, <1>10, <1>11, <1>12, <1>13, <1>14, <1>15, <1>16, <1>17

\* The end of a refresh moves everybody on who waited for it, and nobody else.
Wakes ==
  /\ refreshing' = NoRefresh
  /\ \A c \in Callers :
       IF calls[c].pc = "waiting" THEN Nears(c, calls'[c]) /\ calls'[c].pc # "waiting"
       ELSE calls'[c] = calls[c]
  /\ calls' = [c \in Callers |-> calls'[c]]

LEMMA TearDownWakes == ASSUME Careful, TearDown PROVE Wakes
<1>1. calls' = [c \in Callers |-> IF calls[c].pc = "waiting" THEN Storing(None) ELSE calls[c]]
      /\ refreshing' = NoRefresh
  BY DEF TearDown
<1>2. ASSUME NEW c \in Callers, calls[c].pc = "waiting"
      PROVE  Nears(c, calls'[c]) /\ calls'[c].pc # "waiting"
  BY <1>1, <1>2, StoringNears, Constants
<1> QED BY <1>1, <1>2 DEF Wakes

LEMMA SaveRefreshWakes == ASSUME Careful, SaveRefresh PROVE Wakes
<1>1. calls' = [c \in Callers |-> IF calls[c].pc = "waiting" THEN Sent(refreshing.got, TRUE) ELSE calls[c]]
      /\ refreshing' = NoRefresh
  BY DEF SaveRefresh
<1>2. ASSUME NEW c \in Callers, calls[c].pc = "waiting"
      PROVE  Nears(c, calls'[c]) /\ calls'[c].pc # "waiting"
  <2>1. calls'[c].pc = "sent" /\ calls'[c].retried = TRUE
    BY <1>1, <1>2 DEF Sent
  <2>2. Rank(calls'[c]) = 4 /\ Rank(calls[c]) = 5 /\ StagedAt(c, calls'[c])
    BY <1>2, <2>1 DEF Rank, StagedAt
  <2> QED BY <1>2, <2>1, <2>2 DEF Nears, Busy
<1> QED BY <1>1, <1>2 DEF Wakes

LEMMA RefreshesMove ==
  ASSUME Careful, Refreshes \/ Rotate(FALSE)
  PROVE  /\ Stage(refreshing') < Stage(refreshing)
         /\ Wakes \/ (calls' = calls /\ refreshing'.pc # "idle")
<1>1. refreshing \in Refresh
  BY Parts DEF ClientTyped
<1>2. ASSUME calls' = calls, NEW old, NEW new, refreshing.pc = old, refreshing'.pc = new,
             <<old, new>> \in {<<"reading", "sent">>, <<"sent", "answered">>, <<"answered", "access">>,
                               <<"access", "refresh">>}
      PROVE  Stage(refreshing') < Stage(refreshing) /\ refreshing'.pc # "idle"
  <2>1. CASE old = "reading" /\ new = "sent"
    <3>1. Stage(refreshing) = 5 /\ Stage(refreshing') = 4
      BY <1>2, <2>1 DEF Stage
    <3> QED BY <1>2, <2>1, <3>1
  <2>2. CASE old = "sent" /\ new = "answered"
    <3>1. Stage(refreshing) = 4 /\ Stage(refreshing') = 3
      BY <1>2, <2>2 DEF Stage
    <3> QED BY <1>2, <2>2, <3>1
  <2>3. CASE old = "answered" /\ new = "access"
    <3>1. Stage(refreshing) = 3 /\ Stage(refreshing') = 2
      BY <1>2, <2>3 DEF Stage
    <3> QED BY <1>2, <2>3, <3>1
  <2>4. CASE old = "access" /\ new = "refresh"
    <3>1. Stage(refreshing) = 2 /\ Stage(refreshing') = 1
      BY <1>2, <2>4 DEF Stage
    <3> QED BY <1>2, <2>4, <3>1
  <2> QED BY <1>2, <2>1, <2>2, <2>3, <2>4
<1>3. CASE ReadRefreshToken
  <2>1. calls' = calls /\ refreshing.pc = "reading" /\ refreshing'.pc = "sent"
    BY <1>1, <1>3 DEF ReadRefreshToken, Refresh
  <2> QED BY <1>2, <2>1
<1>4. CASE (\E answered \in BOOLEAN : Rotate(answered)) \/ RefuseRefresh \/ RefreshCallFails
  <2>1. calls' = calls /\ refreshing.pc = "sent" /\ refreshing'.pc = "answered"
    BY <1>1, <1>4 DEF Rotate, RefuseRefresh, RefreshCallFails, Refresh
  <2> QED BY <1>2, <2>1
<1>5. CASE KeepRefreshed
  <2>1. calls' = calls /\ refreshing.pc = "answered" /\ refreshing'.pc = "access"
    BY <1>1, <1>5 DEF KeepRefreshed, Refresh
  <2> QED BY <1>2, <2>1
<1>6. CASE SaveAccess
  <2>1. calls' = calls /\ refreshing.pc = "access" /\ refreshing'.pc = "refresh"
    BY <1>1, <1>6 DEF SaveAccess, Refresh
  <2> QED BY <1>2, <2>1
<1>7. CASE ReadNothing \/ RefreshFails \/ SaveRefresh
  <2>1. Wakes
    BY <1>7, TearDownWakes, SaveRefreshWakes DEF ReadNothing, RefreshFails
  <2>2. refreshing.pc \in {"reading", "answered", "refresh"}
    BY <1>7 DEF ReadNothing, RefreshFails, SaveRefresh
  <2>3. Stage(refreshing) \in {5, 3, 1}
    BY <2>2 DEF Stage
  <2>4. Stage(refreshing') = 0
    BY <2>1 DEF Wakes, Stage, NoRefresh
  <2> QED BY <2>1, <2>3, <2>4
<1> QED BY <1>3, <1>4, <1>5, <1>6, <1>7 DEF Refreshes

LEMMA WakesStaged == ASSUME Staged, Wakes PROVE Staged'
<1>1. ASSUME NEW c \in Callers PROVE StagedAt(c, calls'[c]) /\ calls'[c].pc # "waiting"
  BY DEF Staged, Wakes, Nears
<1> QED BY <1>1 DEF Staged, StagedAt

LEMMA MovesStaged == ASSUME Staged, NEW c \in Callers, Moves(c) PROVE Staged'
<1>1. ASSUME NEW d \in Callers PROVE StagedAt(d, calls'[d])
  BY DEF Staged, Moves, Nears
<1>2. ASSUME NEW d \in Callers, calls'[d].pc = "waiting" PROVE refreshing'.pc # "idle"
  BY <1>2 DEF Staged, Moves
<1> QED BY <1>1, <1>2 DEF Staged, StagedAt

LEMMA AsksStaged ==
  ASSUME Careful, Staged, Asks
  PROVE  Staged' /\ \A c \in Callers : Busy(c) => calls'[c] = calls[c]
<1>1. ClientTyped
  BY Parts
<1>2. ASSUME NEW c \in Callers, NEW rec, Put(c, rec), ~Busy(c), refreshing' = refreshing,
             rec.pc = "sent" \/ (rec.pc = "answered" /\ c \in SignOuts)
      PROVE  Staged' /\ \A d \in Callers : Busy(d) => calls'[d] = calls[d]
  <2>1. calls'[c] = rec /\ \A d \in Callers : d # c => calls'[d] = calls[d]
    BY <1>1, <1>2 DEF Put, ClientTyped
  <2>2. StagedAt(c, rec)
    BY <1>2, Constants DEF StagedAt
  <2>3. \A d \in Callers : StagedAt(d, calls'[d])
    BY <2>1, <2>2 DEF Staged
  <2>4. \A d \in Callers : calls'[d].pc = "waiting" => refreshing'.pc # "idle"
    BY <1>2, <2>1 DEF Staged
  <2> QED BY <1>2, <2>1, <2>3, <2>4 DEF Staged, StagedAt
<1>3. ASSUME NEW c \in Requests, Fetch(c)
      PROVE  Staged' /\ \A d \in Callers : Busy(d) => calls'[d] = calls[d]
  BY <1>2, <1>3, Constants DEF Fetch, Sent
<1>4. ASSUME NEW c \in SignIns, SignIn(c)
      PROVE  Staged' /\ \A d \in Callers : Busy(d) => calls'[d] = calls[d]
  BY <1>2, <1>4, Constants DEF SignIn, Sent
<1>5. ASSUME NEW c \in SignOuts, SignOut(c)
      PROVE  Staged' /\ \A d \in Callers : Busy(d) => calls'[d] = calls[d]
  <2> DEFINE rec == IF token = None THEN [Idle EXCEPT !.pc = "answered", !.answer = "failed"]
                    ELSE Sent(token, FALSE)
  <2>1. rec.pc \in {"sent", "answered"}
    BY DEF Idle, Sent
  <2>2. Put(c, rec) /\ ~Busy(c) /\ refreshing' = refreshing
    BY <1>5 DEF SignOut
  <2> HIDE DEF rec
  <2> QED BY <1>2, <2>1, <2>2, Constants
<1> QED BY <1>3, <1>4, <1>5 DEF Asks

LEMMA KillStaged == ASSUME Kill PROVE Staged'
<1>1. \A c \in Callers : calls'[c].pc = IF c = "boot" THEN "restoring" ELSE "idle"
  BY DEF Kill, Starting, Idle
<1> QED BY <1>1, Constants DEF Staged, StagedAt

LEMMA StagedKept == ASSUME Careful, Staged, [Next]_vars PROVE Staged'
<1>1. CASE \E c \in Callers : Step(c) \/ AnswerLost(c) \/ StoreFails(c)
  BY <1>1, StepMoves, MovesStaged
<1>2. ASSUME calls' = calls, refreshing.pc # "idle" => refreshing'.pc # "idle" PROVE Staged'
  BY <1>2 DEF Staged, StagedAt
<1>3. CASE Refreshes \/ Rotate(FALSE)
  BY <1>2, <1>3, RefreshesMove, WakesStaged
<1>4. CASE SaveFails
  BY <1>4, TearDownWakes, WakesStaged DEF SaveFails
<1>5. CASE UNCHANGED vars
  BY <1>2, <1>5 DEF vars
<1> QED BY <1>1, <1>3, <1>4, <1>5, AsksStaged, KillStaged DEF Next, Works, Goes

LEMMA InitStaged == Init => Staged
<1> SUFFICES ASSUME Init PROVE Staged
  OBVIOUS
<1>1. \A c \in Callers : calls[c].pc = IF c = "boot" THEN "restoring" ELSE "idle"
  BY DEF Init, Starting, Idle
<1> QED BY <1>1, Constants DEF Staged, StagedAt

\* No call goes back but by a kill, and each step of the client, the network or the
\* storage brings a call or the refresh nearer to its end.
OnlyMovesOn ==
  /\ Kill \/ \A c \in Callers : Busy(c) /\ calls'[c] # calls[c] => Rank(calls'[c]) < Rank(calls[c])
  /\ Works => \/ \E c \in Callers : Busy(c) /\ calls'[c] # calls[c]
              \/ calls' = calls /\ Stage(refreshing') < Stage(refreshing)

\* Nothing under way goes round in a circle (auth_controller.dart:60-101): a call that
\* is refused is sent again once, and each step of work leaves fewer steps of its call
\* or of the refresh.
THEOREM FlutterWorkIsBounded == Spec => [][OnlyMovesOn]_vars
<1> DEFINE MovesOn == \A c \in Callers :
                        Busy(c) /\ calls'[c] # calls[c] => Rank(calls'[c]) < Rank(calls[c])
           Works1 == \/ \E c \in Callers : Busy(c) /\ calls'[c] # calls[c]
                     \/ calls' = calls /\ Stage(refreshing') < Stage(refreshing)
<1>1. ASSUME Careful, Staged, NEW c \in Callers, Step(c) \/ AnswerLost(c) \/ StoreFails(c)
      PROVE  MovesOn /\ Works1
  <2>1. Moves(c)
    BY <1>1, StepMoves
  <2>2. Rank(calls[c]) \in 0..8
    BY <1>1, RankType, Parts DEF ClientTyped
  <2> QED BY <2>1, <2>2 DEF Moves, Nears
<1>2. ASSUME Careful, Wakes PROVE MovesOn /\ (calls' = calls \/ \E c \in Callers : Busy(c) /\ calls'[c] # calls[c])
  <2>1. MovesOn
    BY <1>2 DEF Wakes, Nears
  <2>2. ASSUME \A c \in Callers : ~(Busy(c) /\ calls'[c] # calls[c]) PROVE calls' = calls
    <3>1. \A c \in Callers : calls'[c] = calls[c]
      BY <1>2, <2>2 DEF Wakes, Busy
    <3>2. calls \in [Callers -> Call] /\ calls' = [c \in Callers |-> calls'[c]]
      BY <1>2, Parts DEF Wakes, ClientTyped
    <3> QED BY <3>1, <3>2
  <2> QED BY <2>1, <2>2
<1>3. ASSUME Careful, Refreshes \/ Rotate(FALSE) PROVE MovesOn /\ Works1
  BY <1>2, <1>3, RefreshesMove
<1>4. ASSUME Careful, SaveFails PROVE MovesOn
  BY <1>2, <1>4, TearDownWakes DEF SaveFails
<1>5. ASSUME Careful, Staged, Asks PROVE MovesOn
  BY <1>5, AsksStaged
<1> HIDE DEF MovesOn, Works1
<1>6. Careful /\ Staged /\ Next => (Kill \/ MovesOn) /\ (Works => Works1)
  BY <1>1, <1>3, <1>4, <1>5 DEF Next, Works, Goes
<1>7. Careful /\ Staged /\ [Next]_vars => [OnlyMovesOn]_vars
  BY <1>6 DEF OnlyMovesOn, MovesOn, Works1
<1>8. Careful /\ Staged /\ [Next]_vars => (Careful /\ Staged)'
  BY NextCareful, StagedKept
<1> QED BY <1>7, <1>8, InitCareful, InitStaged, PTL DEF Spec

\* Something that works is ready for its next step.
Ready ==
  \/ refreshing.pc # "idle"
  \/ \E c \in Callers :
       \/ Stores(c) \/ calls[c].pc = "sent"
       \/ c = "boot" /\ calls[c].pc = "restoring"
       \/ /\ Answered(c)
          /\ c \in Requests => calls[c].answer = "refused"
          /\ c \in SignIns => calls[c].answer \in {"ok", "failed"}

\* Whoever waits, waits for a refresh under way, and before rest something is ready.
NobodyStuck ==
  /\ \A c \in Callers : calls[c].pc = "waiting" => refreshing.pc # "idle"
  /\ AtRest \/ Ready

\* No call waits for a refresh that is over (auth_controller.dart:86-101), and until
\* everything is at rest some call or the refresh is ready for its next step.
THEOREM FlutterWorkIsReady == Spec => []NobodyStuck
<1>1. Careful /\ Staged => NobodyStuck
  <2> SUFFICES ASSUME Careful, Staged, refreshing.pc = "idle", NEW c \in Callers, Busy(c)
               PROVE  Ready
    BY DEF NobodyStuck, Staged, AtRest, Ready
  <2>1. calls[c] \in Call
    BY Parts DEF ClientTyped
  <2>2. calls[c].pc \in {"restoring", "sent", "answered", "access", "refresh"}
    BY <2>1 DEF Call, Busy, Staged
  <2> QED BY <2>2 DEF Ready, Staged, StagedAt, Stores, Answered
<1>2. Careful /\ Staged /\ [Next]_vars => (Careful /\ Staged)'
  BY NextCareful, StagedKept
<1> QED BY <1>1, <1>2, InitCareful, InitStaged, PTL DEF Spec

-----------------------------------------------------------------------------
(* The phone, which runs this application or the Swift one.  Its instance of *)
(* SwiftSession and the instance with the theorems are of one module.        *)

SwiftProofs == INSTANCE SwiftSession_proofs WITH SignIns <- SwiftSignIns

LEMMA SameInit == Swift!Init => SwiftProofs!Init
BY DEF Swift!Main, Swift!Performed, Swift!Coordinator, Swift!Callers, Swift!Empty,
       Swift!Idle, Swift!NoneInFlight, Swift!Starting, Swift!Init, Swift!None,
       Swift!Pairs, Swift!NothingIssued, SwiftProofs!Main, SwiftProofs!Performed,
       SwiftProofs!Coordinator, SwiftProofs!Callers, SwiftProofs!Empty, SwiftProofs!Idle,
       SwiftProofs!NoneInFlight, SwiftProofs!Starting, SwiftProofs!Init,
       SwiftProofs!None, SwiftProofs!Pairs, SwiftProofs!NothingIssued

LEMMA SameStep == Swift!Next => SwiftProofs!Next
BY DEF Swift!Main, Swift!Performed, Swift!Coordinator, Swift!Callers, Swift!screen,
       Swift!past, Swift!Idle, Swift!Sent, Swift!Writing, Swift!Busy, Swift!Writes,
       Swift!Answered, Swift!Put, Swift!Answer, Swift!End, Swift!Free,
       Swift!NoneInFlight, Swift!Starting, Swift!Others, Swift!Crosses, Swift!Fault,
       Swift!Restorable, Swift!RestoreNothing, Swift!RestoreTokens, Swift!Fetch,
       Swift!SignIn, Swift!SignOut, Swift!Effect, Swift!Accept, Swift!Refuse,
       Swift!CallFails, Swift!AnswerLost, Swift!Refused, Swift!Await, Swift!Begin,
       Swift!BeginNothing, Swift!Rotate, Swift!RefuseRefresh, Swift!KeepRefreshed,
       Swift!Wake, Swift!Refreshed, Swift!RefreshFails, Swift!TakeTurn,
       Swift!BootSucceeds, Swift!BootUndecided, Swift!BootRefused, Swift!SignInSucceeds,
       Swift!UserArrives, Swift!SignInFails, Swift!SignOutClears, Swift!WriteAccess,
       Swift!WriteRefresh, Swift!WriteHeader, Swift!KeychainFails, Swift!Kill,
       Swift!Step, Swift!Refreshes, Swift!Asks, Swift!Goes, Swift!Works, Swift!Next,
       Swift!server, Swift!None, Swift!Accepts, Swift!Issue, Swift!Grant, Swift!Revoke,
       Swift!Expire, Swift!Rotates, Swift!Spend, Swift!Punish, SwiftProofs!Main,
       SwiftProofs!Performed, SwiftProofs!Coordinator, SwiftProofs!Callers,
       SwiftProofs!screen, SwiftProofs!past, SwiftProofs!Idle, SwiftProofs!Sent,
       SwiftProofs!Writing, SwiftProofs!Busy, SwiftProofs!Writes, SwiftProofs!Answered,
       SwiftProofs!Put, SwiftProofs!Answer, SwiftProofs!End, SwiftProofs!Free,
       SwiftProofs!NoneInFlight, SwiftProofs!Starting, SwiftProofs!Others,
       SwiftProofs!Crosses, SwiftProofs!Fault, SwiftProofs!Restorable,
       SwiftProofs!RestoreNothing, SwiftProofs!RestoreTokens, SwiftProofs!Fetch,
       SwiftProofs!SignIn, SwiftProofs!SignOut, SwiftProofs!Effect, SwiftProofs!Accept,
       SwiftProofs!Refuse, SwiftProofs!CallFails, SwiftProofs!AnswerLost,
       SwiftProofs!Refused, SwiftProofs!Await, SwiftProofs!Begin,
       SwiftProofs!BeginNothing, SwiftProofs!Rotate, SwiftProofs!RefuseRefresh,
       SwiftProofs!KeepRefreshed, SwiftProofs!Wake, SwiftProofs!Refreshed,
       SwiftProofs!RefreshFails, SwiftProofs!TakeTurn, SwiftProofs!BootSucceeds,
       SwiftProofs!BootUndecided, SwiftProofs!BootRefused, SwiftProofs!SignInSucceeds,
       SwiftProofs!UserArrives, SwiftProofs!SignInFails, SwiftProofs!SignOutClears,
       SwiftProofs!WriteAccess, SwiftProofs!WriteRefresh, SwiftProofs!WriteHeader,
       SwiftProofs!KeychainFails, SwiftProofs!Kill, SwiftProofs!Step,
       SwiftProofs!Refreshes, SwiftProofs!Asks, SwiftProofs!Goes, SwiftProofs!Works,
       SwiftProofs!Next, SwiftProofs!server, SwiftProofs!None, SwiftProofs!Accepts,
       SwiftProofs!Issue, SwiftProofs!Grant, SwiftProofs!Revoke, SwiftProofs!Expire,
       SwiftProofs!Rotates, SwiftProofs!Spend, SwiftProofs!Punish

LEMMA SameSafety ==
  /\ SwiftProofs!ReuseNeedsALoss => ReuseNeedsALoss
  /\ SwiftProofs!OneSession => Swift!OneSession
BY DEF ReuseNeedsALoss, SwiftProofs!ReuseNeedsALoss, Swift!Main, Swift!Performed,
       Swift!Coordinator, Swift!Callers, Swift!Held, Swift!Busy, Swift!NoneInFlight, Swift!AtRest, Swift!OneSession, Swift!None,
       SwiftProofs!Main, SwiftProofs!Performed, SwiftProofs!Coordinator,
       SwiftProofs!Callers, SwiftProofs!Held, SwiftProofs!Busy, SwiftProofs!NoneInFlight,
       SwiftProofs!AtRest, SwiftProofs!OneSession, SwiftProofs!None

\* A phone that runs one of the two goes on running it, and takes its steps.
LEMMA FlutterPhone == PhoneSpec /\ phone = "flutter" => Spec /\ [](phone = "flutter")
<1>1. PhoneInit /\ phone = "flutter" => Init
  BY DEF PhoneInit
<1>2. phone = "flutter" /\ [PhoneNext]_phoneVars => [Next]_vars /\ (phone = "flutter")'
  BY DEF PhoneNext, OnFlutter, OnSwift, phoneVars
<1> QED BY <1>1, <1>2, PTL DEF PhoneSpec, Spec

LEMMA SwiftPhone == PhoneSpec /\ phone = "swift" => SwiftProofs!Spec /\ [](phone = "swift")
<1>1. PhoneInit /\ phone = "swift" => SwiftProofs!Init
  BY SameInit DEF PhoneInit
<1>2. phone = "swift" /\ [PhoneNext]_phoneVars => [SwiftProofs!Next]_(SwiftProofs!vars) /\ (phone = "swift")'
  <2>1. UNCHANGED phoneVars => UNCHANGED SwiftProofs!vars
    BY DEF phoneVars, ofSwift, vars, server, screen, past,
           SwiftProofs!vars, SwiftProofs!server, SwiftProofs!screen, SwiftProofs!past
  <2> QED BY <2>1, SameStep DEF PhoneNext, OnFlutter, OnSwift, phoneVars
<1> QED BY <1>1, <1>2, PTL DEF PhoneSpec, SwiftProofs!Spec

LEMMA OneOfTwo == PhoneSpec => phone = "flutter" \/ phone = "swift"
<1>1. PhoneInit => phone = "flutter" \/ phone = "swift"
  BY DEF PhoneInit
<1> QED BY <1>1, PTL DEF PhoneSpec

\* Whichever of the two applications a phone runs, it presents a spent refresh
\* token only after a rotation that could not be kept.
THEOREM PhoneRotationIsSafe == PhoneSpec => []ReuseNeedsALoss
<1>1. SwiftProofs!SwiftConstants
  BY SwiftInstance DEF Swift!SwiftConstants, SwiftProofs!SwiftConstants
<1>2. SwiftProofs!Spec => []SwiftProofs!ReuseNeedsALoss
  BY <1>1, SwiftProofs!SwiftRotationIsSafe
<1>3. SwiftProofs!ReuseNeedsALoss => ReuseNeedsALoss
  BY SameSafety
<1> QED BY <1>2, <1>3, FlutterPhone, SwiftPhone, OneOfTwo, FlutterRotationIsSafe, PTL

\* Whichever of the two applications a phone runs, at rest all copies of its
\* tokens are of one session, the one of the screen, with the exceptions each of
\* them states.
THEOREM PhoneKeepsOneSession == PhoneSpec => []OneSessionOnPhone
<1>1. SwiftProofs!SwiftConstants
  BY SwiftInstance DEF Swift!SwiftConstants, SwiftProofs!SwiftConstants
<1>2. SwiftProofs!Spec => []SwiftProofs!OneSession
  BY <1>1, SwiftProofs!SwiftKeepsOneSession
<1>3. /\ phone = "flutter" /\ OneSession => OneSessionOnPhone
      /\ phone = "swift" /\ SwiftProofs!OneSession => OneSessionOnPhone
  BY SameSafety DEF OneSessionOnPhone
<1> QED BY <1>2, <1>3, FlutterPhone, SwiftPhone, OneOfTwo, FlutterKeepsOneSession, PTL

=============================================================================
