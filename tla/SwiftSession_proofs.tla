------------------------- MODULE SwiftSession_proofs -------------------------
(***************************************************************************)
(* The Swift application presents a spent refresh token only after a       *)
(* rotation it could not keep, and comes to rest with one session in       *)
(* header, Keychain and screen: for any requests, forms and presses of the *)
(* sign-out button, any number of tokens, and any kinds and number of      *)
(* faults, however the jobs of its two actors interleave.                  *)
(*                                                                         *)
(* The argument: a refresh token is good when it is still to be spent or   *)
(* its session is over anyway.  What the Keychain holds is good, or it is  *)
(* the token the refresh task has just spent and will replace.  The token  *)
(* of a sign-in that is still being stored is in one place only, and no    *)
(* refresh begins before the task of the last one is over.                 *)
(*                                                                         *)
(* As long as no changes of the tokens overlapped, the coordinator and the *)
(* main actor do not write at the same time, whoever writes brings both    *)
(* keys of the Keychain and then the header to one token, and the screen   *)
(* shows the session of that token or is about to.                         *)
(*                                                                         *)
(* The last part is what coming to rest needs but for fairness: work is    *)
(* bounded, and some of it is always ready.                                *)
(***************************************************************************)
EXTENDS SwiftSession, TLAPS

-----------------------------------------------------------------------------
(* Types.                                                                  *)

Tokens == 0..MaxTokens
Pair == [access : Tokens, refresh : Tokens]
Call == [pc : {"idle", "loading", "sent", "answered", "waiting", "turn",
               "access", "refresh", "header", "done"},
         token : Tokens, answer : {"none", "ok", "pair", "refused", "failed"}, retried : BOOLEAN]
Flight == [by : Performed \cup {"none"}, spends : Tokens, end : {"none", "ok", "failed"}]

ClientTyped ==
  /\ header \in Tokens /\ stored \in Pair /\ inFlight \in Flight
  /\ calls \in [Callers -> Call] /\ user \in Tokens /\ isBootstrapping \in BOOLEAN
PastTyped == faults \in Nat /\ {reused, lost, crossed, broken, kept} \subseteq BOOLEAN

LEMMA TypeParts ==
  /\ TypeOK <=> ServiceTyped /\ ClientTyped /\ PastTyped
  /\ TypeOK' <=> ServiceTyped' /\ ClientTyped' /\ PastTyped'
BY DEF TypeOK, ClientTyped, PastTyped, Tokens, Pair, Call, Flight

LEMMA Numbers ==
  ASSUME SwiftConstants
  PROVE  /\ MaxTokens \in Nat /\ None = 0 /\ None \in Tokens
         /\ Pairs \subseteq Tokens /\ Tokens \subseteq Nat /\ Tokens \ {None} = Pairs
BY DEF SwiftConstants, None, Tokens, Pairs

LEMMA Names ==
  ASSUME SwiftConstants
  PROVE  /\ "boot" \in Performed /\ "refresh" \in Coordinator /\ Requests \subseteq Performed
         /\ Performed \subseteq Callers /\ Coordinator \subseteq Callers /\ Main \subseteq Callers
         /\ SignIns \subseteq Main /\ SignOuts \subseteq Main
         /\ Callers = SignIns \cup SignOuts \cup Requests \cup {"boot", "refresh"}
         /\ "refresh" \notin SignIns \cup SignOuts \cup Requests \cup Performed
         /\ "boot" \notin SignIns \cup SignOuts \cup Requests
         /\ SignIns \cap Requests = {} /\ SignIns \cap SignOuts = {}
         /\ SignOuts \cap Requests = {} /\ SignIns \subseteq {"login", "register"}
<1>1. /\ "boot" \in Performed /\ "refresh" \in Coordinator /\ Requests \subseteq Performed
      /\ Performed \subseteq Callers /\ Coordinator \subseteq Callers /\ Main \subseteq Callers
      /\ SignIns \subseteq Main /\ SignOuts \subseteq Main
      /\ Callers = SignIns \cup SignOuts \cup Requests \cup {"boot", "refresh"}
  BY DEF Performed, Coordinator, Main, Callers
<1>2. /\ "refresh" \notin SignIns \cup SignOuts \cup Requests
      /\ "boot" \notin SignIns \cup SignOuts \cup Requests
      /\ SignIns \cap Requests = {} /\ SignIns \cap SignOuts = {}
      /\ SignOuts \cap Requests = {} /\ SignIns \subseteq {"login", "register"}
  BY DEF SwiftConstants
<1> QED BY <1>1, <1>2 DEF Performed

\* Records built by the client.
LEMMA Records ==
  ASSUME SwiftConstants
  PROVE  /\ Idle \in Call /\ NoneInFlight \in Flight /\ Empty \in Pair
         /\ \A t \in Tokens : Writing(t) \in Call
         /\ \A t \in Tokens, b \in BOOLEAN : Sent(t, b) \in Call
         /\ Starting \in [Callers -> Call]
BY Numbers DEF Idle, Call, NoneInFlight, Flight, Empty, Pair, Writing, Sent, Starting

LEMMA WritingRec ==
  ASSUME SwiftConstants, NEW t \in Tokens
  PROVE  Writing(t) \in Call /\ Writing(t).pc = "access" /\ Writing(t).token = t
BY Records DEF Writing, Idle

\* What the backend keeps, and which pair it issues.
LEMMA IssueTyped ==
  ASSUME SwiftConstants, ServiceTyped, NEW t \in Tokens, Issue(t)
  PROVE  /\ issued \in Nat /\ issued' = issued + 1 /\ issued' \in Pairs
         /\ issued' \in Tokens /\ sessionOf' \in [Pairs -> Tokens]
         /\ \A u \in Pairs : u <= issued => sessionOf'[u] = sessionOf[u]
BY Numbers DEF ServiceTyped, Issue, Tokens, Pairs

LEMMA GrantTyped ==
  ASSUME SwiftConstants, ServiceTyped, Grant
  PROVE  ServiceTyped' /\ issued + 1 \in Pairs
<1>1. Issue(None) /\ unspent' = unspent \cup {issued + 1} /\ UNCHANGED <<expired, ended>>
  BY DEF Grant
<1> QED BY <1>1, IssueTyped, Numbers DEF ServiceTyped, Tokens

LEMMA EffectTyped ==
  ASSUME SwiftConstants, ServiceTyped, ClientTyped, NEW c \in Callers, Effect(c)
  PROVE  /\ ServiceTyped'
         /\ \/ c \in SignIns /\ calls[c].token = None /\ Grant /\ issued + 1 \in Pairs
            \/ /\ UNCHANGED <<issued, sessionOf, unspent>> /\ ended \subseteq ended'
               /\ calls[c].token \in Pairs
<1>0. calls[c].token \in Tokens
  BY DEF ClientTyped, Call
<1>1. CASE c \in SignIns /\ calls[c].token = None /\ Grant
  BY <1>1, GrantTyped
<1>2. CASE c \in SignOuts /\ Revoke(calls[c].token)
  <2>1. calls[c].token \in Pairs
    BY <1>0, <1>2, Numbers DEF Revoke, Accepts
  <2>2. sessionOf[calls[c].token] \in Tokens
    BY <2>1 DEF ServiceTyped, Tokens
  <2> QED BY <1>2, <2>1, <2>2 DEF Revoke, ServiceTyped, Tokens
<1>3. CASE Accepts(calls[c].token) /\ UNCHANGED server
  BY <1>0, <1>3, Numbers DEF Accepts, ServiceTyped, server
<1> QED BY <1>1, <1>2, <1>3 DEF Effect

-----------------------------------------------------------------------------
(* The inductive invariant.                                                *)

GoodIn(t, open, session, over) == t = None \/ t \in open \/ session[t] \in over
Good(t) == GoodIn(t, unspent, sessionOf, ended)

\* A new pair that is about to be stored.
FreshIn(call) == call.pc \in {"access", "refresh"} \/ (call.pc = "answered" /\ call.answer = "pair")
Fresh(c) == FreshIn(calls[c])

\* A call whose token names a session.
NamesIn(call) ==
  \/ call.pc \in {"access", "refresh", "header"}
  \/ call.pc = "answered" /\ call.answer \in {"pair", "ok"}

\* While the task of a refresh is under way, who began it waits.
Led ==
  calls["refresh"].pc # "idle" =>
    /\ inFlight.spends \in Pairs /\ inFlight.by \in Performed
    /\ calls[inFlight.by].pc = "waiting"

\* A token whose session is asked for was issued.
Named ==
  /\ calls["boot"].pc = "answered" /\ calls["boot"].answer = "ok" => calls["boot"].token \in Pairs
  /\ \A c \in SignIns : NamesIn(calls[c]) => calls[c].token \in Pairs

\* The refresh tokens in hand: of the Keychain, and of the refresh.
held == {stored.refresh, inFlight.spends, calls["refresh"].token}

\* Every token that is held has been issued.
Issued == unspent \subseteq 1..issued /\ \A t \in held : t <= issued

\* The token of a sign-in that is not yet stored is nowhere else.
FreshApart ==
  \A c \in SignIns : Fresh(c) =>
    /\ calls[c].token \in unspent /\ calls[c].token \notin held
    /\ \A d \in SignIns : d # c /\ Fresh(d) => calls[d].token # calls[c].token

\* Everybody else who writes the Keychain, but for the refresh, empties it.
Rest == Callers \ (SignIns \cup {"refresh"})
Cleared == \A c \in Rest : calls[c].pc \in {"access", "refresh"} => calls[c].token = None

Kept ==
  /\ Good(stored.refresh) \/ (Fresh("refresh") /\ stored.refresh = inFlight.spends)
  /\ calls["refresh"].pc = "sent" => Good(inFlight.spends)
  /\ Fresh("refresh") => Good(calls["refresh"].token)

\* The inductive strengthening of ReuseNeedsALoss.
Careful ==
  /\ TypeOK /\ Led /\ Named /\ Issued /\ FreshApart /\ Cleared
  /\ ~lost => Kept /\ ~reused

LEMMA Parts ==
  ASSUME SwiftConstants, Careful
  PROVE  /\ ServiceTyped /\ ClientTyped /\ PastTyped /\ Led /\ Named
         /\ Issued /\ FreshApart /\ Cleared
         /\ issued \in Nat /\ issued + 1 \in Nat
         /\ held \subseteq Tokens /\ \A t \in held : t \in Nat /\ t <= issued
         /\ calls["refresh"] \in Call /\ \A c \in Callers : calls[c] \in Call
<1>1. /\ ServiceTyped /\ ClientTyped /\ PastTyped /\ Led /\ Named
      /\ Issued /\ FreshApart /\ Cleared
  BY TypeParts DEF Careful
<1>2. calls["refresh"] \in Call /\ \A c \in Callers : calls[c] \in Call
  BY <1>1, Names DEF ClientTyped
<1>3. issued \in Nat /\ held \subseteq Tokens
  BY <1>1, <1>2, Numbers DEF ServiceTyped, ClientTyped, Pair, Flight, Call, held
<1> QED BY <1>1, <1>2, <1>3, Numbers DEF Issued

LEMMA Whole ==
  ASSUME ServiceTyped', ClientTyped', PastTyped', Led', Named', Issued', FreshApart', Cleared',
         ~lost' => Kept' /\ ~reused'
  PROVE  Careful'
BY TypeParts DEF Careful

\* What a step may do to the tokens of the backend, but for a rotation.
Grows ==
  /\ issued' \in Nat /\ issued <= issued' /\ unspent' \subseteq 1..issued'
  /\ unspent \subseteq unspent' /\ ended \subseteq ended'
  /\ \A u \in Pairs : u <= issued => sessionOf'[u] = sessionOf[u]

LEMMA GoodStays ==
  ASSUME SwiftConstants, Grows, NEW t \in Tokens, t <= issued,
         GoodIn(t, unspent, sessionOf, ended)
  PROVE  GoodIn(t, unspent', sessionOf', ended')
<1>1. t # None => t \in Pairs
  BY Numbers
<1> QED BY <1>1 DEF Grows, GoodIn

LEMMA SameGrows ==
  ASSUME SwiftConstants, Careful, UNCHANGED <<issued, sessionOf, unspent>>, ended \subseteq ended'
  PROVE  Grows
BY Parts DEF Grows, Issued

LEMMA EffectGrows ==
  ASSUME SwiftConstants, Careful, NEW c \in Callers, Effect(c)
  PROVE  Grows
<1>1. ServiceTyped /\ ClientTyped /\ Issued /\ issued \in Nat
  BY Parts
<1>2. CASE Grant
  <2>1. Issue(None) /\ unspent' = unspent \cup {issued + 1} /\ UNCHANGED <<expired, ended>>
    BY <1>2 DEF Grant
  <2> QED BY <1>1, <2>1, IssueTyped, Numbers DEF Grows, Issued
<1>3. CASE UNCHANGED <<issued, sessionOf, unspent>> /\ ended \subseteq ended'
  BY <1>3, SameGrows
<1> QED BY <1>1, <1>2, <1>3, EffectTyped

\* No sign-in is answered: what is in hand afterwards was so before, is new, or
\* comes from a sign-in that has now been stored.
LEMMA ApartOld ==
  ASSUME SwiftConstants, Careful,
         \A t \in unspent : t = inFlight.spends \/ t \in unspent',
         \A d \in SignIns : Fresh(d)' => Fresh(d) /\ calls'[d].token = calls[d].token,
         \A t \in held' : \/ t \in held \cup {None, issued + 1}
                          \/ \E c \in SignIns : Fresh(c) /\ ~Fresh(c)' /\ t = calls[c].token
  PROVE  FreshApart'
<1>1. SUFFICES ASSUME NEW c \in SignIns, Fresh(c)'
               PROVE  /\ calls'[c].token \in unspent'
                      /\ calls'[c].token \notin held'
                      /\ \A d \in SignIns : d # c /\ Fresh(d)' => calls'[d].token # calls'[c].token
  BY DEF FreshApart
<1> DEFINE t == calls[c].token
<1>2. Fresh(c) /\ calls'[c].token = t
  BY <1>1
<1>3. t \in unspent /\ t \notin held /\ t # None /\ t # issued + 1
      /\ \A d \in SignIns : d # c /\ Fresh(d) => calls[d].token # t
  <2>1. t \in unspent /\ t \notin held /\ \A d \in SignIns : d # c /\ Fresh(d) => calls[d].token # t
    BY <1>2, Parts DEF FreshApart
  <2>2. t \in 1..issued /\ issued \in Nat
    BY <2>1, Parts DEF Issued
  <2> QED BY <2>1, <2>2, Numbers
<1>4. t \in unspent'
  BY <1>3 DEF held
<1>5. t \notin held'
  <2>1. SUFFICES ASSUME NEW c2 \in SignIns, Fresh(c2), ~Fresh(c2)', t = calls[c2].token PROVE FALSE
    BY <1>3
  <2>2. c2 # c
    BY <1>1, <2>1
  <2> QED BY <1>3, <2>1, <2>2
<1> QED BY <1>2, <1>3, <1>4, <1>5

\* A sign-in is answered with a new pair.
LEMMA ApartNew ==
  ASSUME SwiftConstants, Careful, NEW c \in SignIns, unspent \subseteq unspent', held' = held,
         \A d \in SignIns : d # c => calls'[d] = calls[d],
         calls'[c].token = issued + 1, issued + 1 \in unspent'
  PROVE  FreshApart'
<1>1. \A d \in SignIns : Fresh(d) =>
        /\ calls[d].token \in unspent /\ calls[d].token \notin held
        /\ \A e \in SignIns : e # d /\ Fresh(e) => calls[e].token # calls[d].token
  BY Parts DEF FreshApart
<1>2. \A t \in unspent : t # issued + 1
  BY Parts DEF Issued
<1>3. issued + 1 \notin held
  BY Parts
<1> QED BY <1>1, <1>2, <1>3 DEF FreshApart, Fresh

-----------------------------------------------------------------------------
(* The initial states.                                                     *)

LEMMA InitCareful == ASSUME SwiftConstants, Init PROVE Careful
<1>1. /\ \A c \in Callers : calls[c].pc \in {"idle", "loading"}
      /\ calls["refresh"] = Idle /\ calls["refresh"].pc = "idle" /\ calls["refresh"].token = None
  BY Names DEF Init, Starting, Idle
<1>2. /\ issued = 0 /\ unspent = {} /\ ended = {} /\ expired = {}
      /\ sessionOf = [t \in Pairs |-> None]
      /\ stored = Empty /\ stored.refresh = None
      /\ inFlight = NoneInFlight /\ inFlight.spends = None
  BY DEF Init, NothingIssued, NoneInFlight, Empty
<1>3. ServiceTyped
  BY <1>2, Numbers DEF ServiceTyped, Tokens
<1>4. ClientTyped /\ PastTyped
  BY Records, Numbers DEF Init, ClientTyped, PastTyped
<1>5. Led /\ Named /\ FreshApart /\ Cleared
  BY <1>1, Names DEF Led, Named, FreshApart, Fresh, FreshIn, NamesIn, Cleared, Rest
<1>6. Issued /\ Kept /\ ~reused
  BY <1>1, <1>2, Numbers DEF Init, Issued, Kept, Good, GoodIn, held, Fresh, FreshIn
<1> QED BY <1>3, <1>4, <1>5, <1>6, TypeParts DEF Careful

-----------------------------------------------------------------------------
(* Steps of one call.                                                      *)

LEMMA PutTyped ==
  ASSUME ClientTyped, NEW c \in Callers, NEW rec \in Call, Put(c, rec)
  PROVE  /\ calls' \in [Callers -> Call] /\ calls'[c] = rec
         /\ \A d \in Callers : d # c => calls'[d] = calls[d]
BY DEF ClientTyped, Put

\* The next record of call c suits its caller, c.
Suits(c, rec) ==
  /\ c = "boot" /\ rec.pc = "answered" /\ rec.answer = "ok" => rec.token \in Pairs
  /\ c \in SignIns /\ NamesIn(rec) => rec.token \in Pairs
  /\ c \in Rest /\ rec.pc \in {"access", "refresh"} => rec.token = None

LEMMA SuitsNamed ==
  ASSUME SwiftConstants, Careful, NEW c \in Callers, calls'[c] = calls[c] \/ Suits(c, calls'[c]),
         \A d \in Callers : d # c => calls'[d] = calls[d]
  PROVE  Named' /\ Cleared'
<1>1. Named'
  BY Parts, Names DEF Named, Suits
<1>2. Cleared'
  BY Parts DEF Cleared, Suits, Rest
<1> QED BY <1>1, <1>2

LEMMA PutStep ==
  ASSUME SwiftConstants, Careful, NEW c \in Callers, NEW rec \in Call, Put(c, rec), Suits(c, rec),
         ServiceTyped', PastTyped', inFlight' \in Flight, stored' \in Pair,
         header' \in Tokens, user' \in Tokens, isBootstrapping' \in BOOLEAN,
         unspent' \subseteq 1..issued', \A t \in unspent : t = inFlight.spends \/ t \in unspent',
         \A t \in held' : t <= issued',
         \/ c \in SignIns /\ held' = held /\ rec.token = issued + 1 /\ issued + 1 \in unspent'
            /\ unspent \subseteq unspent'
         \/ /\ c \in SignIns /\ FreshIn(rec) => Fresh(c) /\ rec.token = calls[c].token
            /\ \A t \in held' :
                 \/ t \in held \cup {None, issued + 1}
                 \/ c \in SignIns /\ Fresh(c) /\ ~FreshIn(rec) /\ t = calls[c].token,
         Led', ~lost' => Kept' /\ ~reused'
  PROVE  Careful'
<1>1. /\ calls' \in [Callers -> Call] /\ calls'[c] = rec
      /\ \A d \in Callers : d # c => calls'[d] = calls[d]
  BY Parts, PutTyped
<1>2. ClientTyped'
  BY <1>1 DEF ClientTyped
<1>3. Named' /\ Cleared'
  BY <1>1, SuitsNamed
<1>4. Issued'
  BY DEF Issued
<1>5. FreshApart'
  <2>1. CASE c \in SignIns /\ held' = held /\ rec.token = issued + 1 /\ issued + 1 \in unspent'
             /\ unspent \subseteq unspent'
    BY <1>1, <2>1, ApartNew, Names
  <2>2. CASE /\ c \in SignIns /\ FreshIn(rec) => Fresh(c) /\ rec.token = calls[c].token
             /\ \A t \in held' :
                  \/ t \in held \cup {None, issued + 1}
                  \/ c \in SignIns /\ Fresh(c) /\ ~FreshIn(rec) /\ t = calls[c].token
    <3>1. \A d \in SignIns : Fresh(d)' => Fresh(d) /\ calls'[d].token = calls[d].token
      BY <1>1, <2>2, Names DEF Fresh
    <3>2. ~FreshIn(rec) => ~Fresh(c)'
      BY <1>1 DEF Fresh
    <3> QED BY <2>2, <3>1, <3>2, ApartOld
  <2> QED BY <2>1, <2>2
<1> QED BY <1>2, <1>3, <1>4, <1>5, Whole

\* A call that is not the refresh; the refresh and the stored refresh token
\* stay, but that a caller of it may forget one that has ended.
LEMMA CallStep ==
  ASSUME SwiftConstants, Careful, NEW c \in Callers, c # "refresh", calls[c].pc # "waiting",
         NEW rec \in Call, Put(c, rec), Suits(c, rec),
         ServiceTyped', PastTyped', Grows, reused' = reused, lost' = lost,
         inFlight' = inFlight \/ (calls["refresh"].pc = "idle" /\ inFlight' = NoneInFlight),
         stored' \in Pair, stored'.refresh = stored.refresh,
         header' \in Tokens, user' \in Tokens, isBootstrapping' \in BOOLEAN,
         c \in SignIns /\ FreshIn(rec) =>
           \/ Fresh(c) /\ rec.token = calls[c].token
           \/ rec.token = issued + 1 /\ issued + 1 \in unspent' /\ inFlight' = inFlight
  PROVE  Careful'
<1>1. /\ calls'["refresh"] = calls["refresh"] /\ calls' \in [Callers -> Call]
      /\ \A d \in Callers : d # c => calls'[d] = calls[d]
  BY Parts, PutTyped, Names
<1>2. inFlight' \in Flight /\ NoneInFlight.spends = None
  BY Records, Parts DEF ClientTyped, NoneInFlight
<1>3. held' \subseteq held \cup {None} /\ (inFlight' = inFlight => held' = held)
  BY <1>1, <1>2 DEF held
<1>4. \A t \in held' : t <= issued'
  BY <1>3, Parts, Numbers DEF Grows
<1>5. Led'
  <2>1. SUFFICES ASSUME calls["refresh"].pc # "idle" PROVE Led'
    BY <1>1 DEF Led
  <2>2. inFlight' = inFlight /\ inFlight.by \in Callers /\ calls[inFlight.by].pc = "waiting"
    BY <2>1, Parts, Names DEF Led
  <2> QED BY <1>1, <2>1, <2>2, Parts DEF Led
<1>6. ~lost' => Kept' /\ ~reused'
  <2>1. SUFFICES ASSUME Kept PROVE Kept'
    BY DEF Careful
  <2>2. \A t \in held : Good(t) => GoodIn(t, unspent', sessionOf', ended')
    BY Parts, GoodStays DEF Good
  <2>3. CASE inFlight' = inFlight
    BY <1>1, <2>1, <2>2, <2>3 DEF Kept, Good, held, Fresh
  <2>4. CASE calls["refresh"].pc = "idle"
    BY <1>1, <2>1, <2>2, <2>4 DEF Kept, Good, held, Fresh, FreshIn
  <2> QED BY <2>3, <2>4
<1>7. \A t \in unspent : t \in unspent'
  BY DEF Grows
<1>8. unspent' \subseteq 1..issued' /\ unspent \subseteq unspent'
  BY DEF Grows
<1>9. CASE c \in SignIns /\ rec.token = issued + 1 /\ issued + 1 \in unspent' /\ inFlight' = inFlight
  BY ONLY SwiftConstants, Careful, c \in Callers, rec \in Call, Put(c, rec), Suits(c, rec),
          ServiceTyped', PastTyped', stored' \in Pair, header' \in Tokens, user' \in Tokens,
          isBootstrapping' \in BOOLEAN, <1>2, <1>3, <1>4, <1>5, <1>6, <1>7, <1>8, <1>9, PutStep
<1>10. CASE c \in SignIns /\ FreshIn(rec) => Fresh(c) /\ rec.token = calls[c].token
  BY ONLY SwiftConstants, Careful, c \in Callers, rec \in Call, Put(c, rec), Suits(c, rec),
          ServiceTyped', PastTyped', stored' \in Pair, header' \in Tokens, user' \in Tokens,
          isBootstrapping' \in BOOLEAN, <1>2, <1>3, <1>4, <1>5, <1>6, <1>7, <1>8, <1>10, PutStep
<1> QED BY <1>9, <1>10

\* Steps of one call that change no token of the backend and store nothing.
LEMMA QuietStep ==
  ASSUME SwiftConstants, Careful, NEW c \in Callers, c # "refresh", calls[c].pc # "waiting",
         NEW rec \in Call, Put(c, rec), Suits(c, rec), ~FreshIn(rec),
         UNCHANGED <<issued, sessionOf, unspent, ended, inFlight, stored, reused, lost>>,
         expired' \subseteq Pairs, PastTyped',
         header' \in Tokens, user' \in Tokens, isBootstrapping' \in BOOLEAN
  PROVE  Careful'
<1>1. ServiceTyped' /\ stored' \in Pair
  BY Parts DEF ServiceTyped, ClientTyped
<1>2. Grows
  BY SameGrows
<1> QED BY <1>1, <1>2, CallStep

LEMMA Screens ==
  ASSUME SwiftConstants, Careful
  PROVE  /\ header \in Tokens /\ user \in Tokens /\ isBootstrapping \in BOOLEAN
         /\ stored \in Pair /\ stored.access \in Tokens /\ expired \subseteq Pairs
         /\ UNCHANGED past => PastTyped'
         /\ calls \in [Callers -> Call] /\ \A c \in Callers : calls[c].token \in Tokens
BY Parts DEF ClientTyped, Pair, Call, ServiceTyped, PastTyped, past

LEMMA AsksCareful == ASSUME SwiftConstants, Careful, Asks PROVE Careful'
<1> USE Screens, Names, Numbers, Records
<1>1. ASSUME NEW t \in Tokens, NEW b \in BOOLEAN, NEW c \in Callers
      PROVE  Sent(t, b) \in Call /\ ~FreshIn(Sent(t, b)) /\ Suits(c, Sent(t, b))
  BY DEF Sent, FreshIn, Suits, NamesIn
<1>2. ASSUME NEW c \in Requests, Fetch(c) PROVE Careful'
  BY <1>1, <1>2, QuietStep DEF Fetch, screen, server, Busy, past
<1>3. ASSUME NEW c \in SignIns, SignIn(c) PROVE Careful'
  BY <1>1, <1>3, QuietStep DEF SignIn, screen, server, Busy, past
<1>4. ASSUME NEW c \in SignOuts, SignOut(c) PROVE Careful'
  BY <1>1, <1>4, QuietStep DEF SignOut, screen, server, Busy, past
<1> QED BY <1>2, <1>3, <1>4 DEF Asks

\* An answer of the backend, or none, is put on record.
LEMMA AnswerRec ==
  ASSUME SwiftConstants, Careful, NEW c \in Callers,
         NEW a \in {"none", "ok", "pair", "refused", "failed"}, NEW t \in Tokens, Answer(c, a, t)
  PROVE  \E rec \in Call : /\ Put(c, rec)
                           /\ rec.pc = "answered" /\ rec.answer = a /\ rec.token = t
<1> DEFINE rec == [calls[c] EXCEPT !.pc = "answered", !.answer = a, !.token = t]
<1>1. calls[c] \in Call
  BY Parts
<1>2. rec \in Call /\ rec.pc = "answered" /\ rec.answer = a /\ rec.token = t
  BY <1>1 DEF Call
<1> QED BY <1>2 DEF Answer

\* A call fails or is refused, and is over or has its answer.
LEMMA FailedRec ==
  ASSUME SwiftConstants, Careful, NEW c \in Callers, NEW a \in {"refused", "failed"},
         NEW t \in Tokens, End(c) \/ Answer(c, a, t)
  PROVE  \E rec \in Call : Put(c, rec) /\ ~FreshIn(rec) /\ Suits(c, rec)
<1>1. CASE End(c)
  <2>1. Idle \in Call /\ ~FreshIn(Idle) /\ Suits(c, Idle)
    BY Records DEF Idle, FreshIn, Suits, NamesIn
  <2> QED BY <1>1, <2>1 DEF End
<1>2. CASE Answer(c, a, t)
  <2>1. PICK rec \in Call : Put(c, rec) /\ rec.pc = "answered" /\ rec.answer = a
    BY <1>2, AnswerRec
  <2> QED BY <2>1 DEF FreshIn, Suits, NamesIn
<1> QED BY <1>1, <1>2

LEMMA FaultTyped ==
  ASSUME SwiftConstants, Careful, NEW f, Fault(f) PROVE faults' \in Nat
BY Parts DEF PastTyped, Fault, SwiftConstants

LEMMA AcceptCareful ==
  ASSUME SwiftConstants, Careful, NEW c \in Callers, Accept(c) PROVE Careful'
<1> USE Screens, Names, Numbers
<1>1. c # "refresh" /\ calls[c].pc = "sent" /\ UNCHANGED <<header, stored, inFlight, screen, past>>
  BY DEF Accept
<1>2. ServiceTyped' /\ Grows
  BY EffectTyped, EffectGrows, Parts DEF Accept
<1>3. CASE c \in SignIns /\ calls[c].token = None
  <2>1. Grant /\ issued + 1 \in Pairs /\ issued + 1 \in unspent'
    BY <1>3, EffectTyped, Parts DEF Accept, Grant
  <2> DEFINE t == issued + 1
  <2>2. t \in Tokens /\ Answer(c, "pair", t)
    BY <1>3, <2>1 DEF Accept
  <2> HIDE DEF t
  <2>3. PICK rec \in Call : Put(c, rec) /\ rec.pc = "answered" /\ rec.answer = "pair" /\ rec.token = t
    BY ONLY SwiftConstants, Careful, c \in Callers, <2>2, AnswerRec
  <2>4. Suits(c, rec) /\ rec.token = issued + 1
    BY <1>3, <2>1, <2>3 DEF Suits, Rest, t
  <2> QED BY <1>1, <1>2, <2>1, <2>3, <2>4, CallStep DEF screen, past
<1>4. CASE ~(c \in SignIns /\ calls[c].token = None)
  <2>1. calls[c].token \in Pairs
    BY <1>4, EffectTyped, Parts DEF Accept
  <2>2. PICK rec \in Call : Put(c, rec) /\ ~FreshIn(rec) /\ Suits(c, rec)
    <3>1. CASE End(c)
      BY <3>1, FailedRec
    <3>2. CASE Answer(c, "ok", calls[c].token)
      <4> DEFINE t == calls[c].token
      <4>1. t \in Tokens /\ Answer(c, "ok", t)
        BY <3>2
      <4> HIDE DEF t
      <4>2. PICK rec \in Call : Put(c, rec) /\ rec.pc = "answered" /\ rec.answer = "ok" /\ rec.token = t
        BY ONLY SwiftConstants, Careful, c \in Callers, <4>1, AnswerRec
      <4> QED BY <2>1, <4>2 DEF FreshIn, Suits, Rest, t
    <3> QED BY <1>4, <3>1, <3>2 DEF Accept
  <2> QED BY <1>1, <1>2, <2>2, CallStep DEF screen, past
<1> QED BY <1>3, <1>4

LEMMA RefuseCareful ==
  ASSUME SwiftConstants, Careful, NEW c \in Callers, Refuse(c) PROVE Careful'
<1> USE Screens, Names, Numbers
<1>1. c # "refresh" /\ calls[c].pc = "sent" /\ UNCHANGED <<header, stored, inFlight, screen, past>>
      /\ UNCHANGED <<issued, sessionOf, unspent, ended>>
  BY DEF Refuse, Expire
<1>2. expired' \subseteq Pairs
  BY DEF Refuse, Expire
<1> DEFINE t == calls[c].token
<1>3. t \in Tokens /\ (End(c) \/ Answer(c, "refused", t))
  BY DEF Refuse
<1> HIDE DEF t
<1>4. PICK rec \in Call : Put(c, rec) /\ ~FreshIn(rec) /\ Suits(c, rec)
  BY ONLY SwiftConstants, Careful, c \in Callers, <1>3, FailedRec
<1> QED BY <1>1, <1>2, <1>4, QuietStep DEF screen, past

LEMMA CallFailsCareful ==
  ASSUME SwiftConstants, Careful, NEW c \in Callers, c # "refresh", CallFails(c) PROVE Careful'
<1> USE Screens, Names, Numbers
<1>1. PICK rec \in Call : Put(c, rec) /\ ~FreshIn(rec) /\ Suits(c, rec)
  BY FailedRec DEF CallFails
<1> QED BY <1>1, QuietStep DEF CallFails, screen, past, server

LEMMA AnswerLostCareful ==
  ASSUME SwiftConstants, Careful, NEW c \in Callers, AnswerLost(c) PROVE Careful'
<1> USE Screens, Names, Numbers
<1>1. /\ c # "refresh" /\ calls[c].pc = "sent"
      /\ UNCHANGED <<header, stored, inFlight, screen, reused, lost, crossed, broken, kept>>
  BY DEF AnswerLost, Main
<1>2. ServiceTyped' /\ Grows
  BY EffectTyped, EffectGrows, Parts DEF AnswerLost
<1>3. PastTyped'
  BY <1>1, FaultTyped, Parts DEF AnswerLost, PastTyped
<1>4. PICK rec \in Call : Put(c, rec) /\ ~FreshIn(rec) /\ Suits(c, rec)
  BY FailedRec DEF AnswerLost
<1> QED BY <1>1, <1>2, <1>3, <1>4, CallStep DEF screen

\* Whoever is refused waits, and once the refresh has ended has its turn.
LEMMA AwaitCareful ==
  ASSUME SwiftConstants, Careful, NEW c \in Performed, Await(c) PROVE Careful'
<1> USE Screens, Names, Numbers
<1> DEFINE turn == [calls[c] EXCEPT !.pc = "turn", !.answer = inFlight.end]
           wait == [calls[c] EXCEPT !.pc = "waiting"]
<1>1. turn \in Call /\ turn.pc = "turn" /\ wait \in Call /\ wait.pc = "waiting"
  BY Parts DEF Call, ClientTyped, Flight
<1>2. Put(c, wait) \/ Put(c, turn)
  BY DEF Await
<1> HIDE DEF turn, wait
<1>3. PICK rec \in Call : Put(c, rec) /\ rec.pc \in {"turn", "waiting"}
  BY <1>1, <1>2
<1>4. ~FreshIn(rec) /\ Suits(c, rec)
  BY <1>3 DEF FreshIn, Suits, NamesIn
<1> QED BY <1>3, <1>4, QuietStep DEF Await, Refused, Answered, screen, past, server

\* A job that stores or empties the Keychain begins.
LEMMA WritingStep ==
  ASSUME SwiftConstants, Careful, NEW c \in Callers, c # "refresh", calls[c].pc # "waiting",
         NEW t \in Tokens, Put(c, Writing(t)),
         c \in SignIns => Fresh(c) /\ t = calls[c].token /\ t \in Pairs,
         c \notin SignIns => t = None,
         UNCHANGED <<server, stored, reused, lost>>, PastTyped',
         inFlight' = inFlight \/ (calls["refresh"].pc = "idle" /\ inFlight' = NoneInFlight),
         header' \in Tokens, user' \in Tokens, isBootstrapping' \in BOOLEAN
  PROVE  Careful'
<1>1. ServiceTyped' /\ Grows /\ stored' \in Pair
  BY SameGrows, Parts, Screens DEF ServiceTyped, server
<1>2. Writing(t) \in Call /\ Writing(t).pc = "access" /\ Writing(t).token = t
  BY WritingRec
<1>3. Suits(c, Writing(t))
  BY <1>2, Names DEF Suits, Rest
<1> QED BY <1>1, <1>2, <1>3, CallStep

LEMMA Performers ==
  ASSUME SwiftConstants, NEW c \in Performed
  PROVE  c \in Callers /\ c # "refresh" /\ c \notin SignIns /\ c \notin SignOuts
<1>1. c \in Requests \/ c = "boot"
  BY DEF Performed
<1> QED BY <1>1, Names

LEMMA BeginNothingCareful ==
  ASSUME SwiftConstants, Careful, NEW c \in Performed, BeginNothing(c) PROVE Careful'
<1> USE Screens, Names, Numbers
<1>1. PastTyped'
  BY Parts DEF BeginNothing, Crosses, PastTyped
<1>2. c \in Callers /\ c # "refresh" /\ c \notin SignIns
  BY Performers
<1> QED BY <1>1, <1>2, WritingStep DEF BeginNothing, Refused, Answered, screen

LEMMA TakeTurnCareful ==
  ASSUME SwiftConstants, Careful, NEW c \in Performed, TakeTurn(c) PROVE Careful'
<1> USE Screens, Names, Numbers, Records
<1>1. inFlight' = inFlight \/ (calls["refresh"].pc = "idle" /\ inFlight' = NoneInFlight)
  <2>1. c = inFlight.by => calls["refresh"].pc = "idle"
    BY Parts DEF TakeTurn, Led
  <2> QED BY <2>1 DEF TakeTurn
<1>2. CASE Put(c, Writing(None))
  <2>1. c \in Callers /\ c # "refresh" /\ c \notin SignIns
    BY Performers
  <2>2. /\ calls[c].pc # "waiting" /\ UNCHANGED <<server, header, stored, screen, past>>
    BY DEF TakeTurn
  <2>3. PastTyped'
    BY <2>2
  <2> QED BY ONLY SwiftConstants, Careful, Screens, None \in Tokens, <1>1, <1>2, <2>1, <2>2, <2>3,
                  WritingStep DEF screen, past
<1>3. CASE Put(c, Sent(header, TRUE))
  <2>1. Sent(header, TRUE) \in Call /\ ~FreshIn(Sent(header, TRUE)) /\ Suits(c, Sent(header, TRUE))
    BY DEF Sent, FreshIn, Suits, NamesIn
  <2>2. ServiceTyped' /\ PastTyped' /\ Grows
    BY SameGrows, Parts DEF TakeTurn, ServiceTyped, server
  <2> QED BY <1>1, <1>3, <2>1, <2>2, CallStep DEF TakeTurn, screen, past
<1> QED BY <1>2, <1>3 DEF TakeTurn

LEMMA BootCareful ==
  ASSUME SwiftConstants, Careful,
         RestoreNothing \/ RestoreTokens \/ BootSucceeds \/ BootUndecided \/ BootRefused
  PROVE  Careful'
<1> USE Screens, Names, Numbers, Records
<1>1. Idle \in Call /\ ~FreshIn(Idle) /\ Suits("boot", Idle)
  BY DEF Idle, FreshIn, Suits, NamesIn
<1>2. CASE RestoreNothing
  BY <1>1, <1>2, QuietStep DEF RestoreNothing, End, server, past
<1>3. CASE RestoreTokens
  <2>1. /\ Sent(stored.access, FALSE) \in Call /\ ~FreshIn(Sent(stored.access, FALSE))
        /\ Suits("boot", Sent(stored.access, FALSE))
    BY DEF Sent, FreshIn, Suits, NamesIn
  <2> QED BY <1>3, <2>1, QuietStep DEF RestoreTokens, server, screen, past
<1>4. CASE BootSucceeds
  <2>1. calls["boot"].token \in Pairs
    BY <1>4, Parts DEF BootSucceeds, Answered, Named
  <2>2. sessionOf[calls["boot"].token] \in Tokens
    BY <2>1, Parts DEF ServiceTyped, Tokens
  <2> QED BY <1>1, <1>4, <2>2, QuietStep DEF BootSucceeds, Answered, End, server, past
<1>5. CASE BootUndecided
  <2>1. PastTyped'
    BY <1>5, Parts DEF BootUndecided, PastTyped
  <2> QED BY <1>1, <1>5, <2>1, QuietStep DEF BootUndecided, Answered, End, server
<1>6. CASE BootRefused
  BY <1>6, WritingStep DEF BootRefused, Answered, screen, past
<1> QED BY <1>2, <1>3, <1>4, <1>5, <1>6

LEMMA SignInCareful ==
  ASSUME SwiftConstants, Careful, NEW c \in SignIns,
         SignInSucceeds(c) \/ UserArrives(c) \/ SignInFails(c)
  PROVE  Careful'
<1> USE Screens, Names, Numbers, Records
<1>1. Idle \in Call /\ ~FreshIn(Idle) /\ Suits(c, Idle)
  BY DEF Idle, FreshIn, Suits, NamesIn
<1>2. CASE SignInSucceeds(c)
  <2>1. Fresh(c) /\ calls[c].token \in Pairs
    BY <1>2, Parts DEF SignInSucceeds, Answered, Fresh, FreshIn, Named, NamesIn
  <2>2. PastTyped'
    BY <1>2, Parts DEF SignInSucceeds, Crosses, PastTyped
  <2> QED BY <1>2, <2>1, <2>2, WritingStep DEF SignInSucceeds, Answered, screen
<1>3. CASE UserArrives(c)
  <2>1. calls[c].token \in Pairs
    BY <1>3, Parts DEF UserArrives, Answered, Named, NamesIn
  <2>2. sessionOf[calls[c].token] \in Tokens
    BY <2>1, Parts DEF ServiceTyped, Tokens
  <2> QED BY <1>1, <1>3, <2>2, QuietStep DEF UserArrives, Answered, End, server, past
<1>4. CASE SignInFails(c)
  <2>1. PastTyped'
    BY <1>4, Parts DEF SignInFails, PastTyped
  <2> QED BY <1>1, <1>4, <2>1, QuietStep DEF SignInFails, Answered, End, server, screen
<1> QED BY <1>2, <1>3, <1>4

LEMMA SignOutCareful ==
  ASSUME SwiftConstants, Careful, NEW c \in SignOuts, SignOutClears(c) PROVE Careful'
<1> USE Screens, Names, Numbers
<1>1. PastTyped'
  BY Parts DEF SignOutClears, Crosses, PastTyped
<1> QED BY <1>1, WritingStep DEF SignOutClears, Answered, screen

-----------------------------------------------------------------------------
(* Writes of the Keychain, key by key, and of the header.                  *)

\* The record of a job whose pc moves on.
LEMMA MovesOn ==
  ASSUME SwiftConstants, Careful, NEW c \in Callers, NEW pc \in {"refresh", "header", "done"}
  PROVE  /\ [calls[c] EXCEPT !.pc = pc] \in Call /\ [calls[c] EXCEPT !.pc = pc].pc = pc
         /\ [calls[c] EXCEPT !.pc = pc].token = calls[c].token
         /\ [calls[c] EXCEPT !.pc = pc].answer = calls[c].answer
BY Parts DEF Call

\* The Keychain has a new access token, or none.
LEMMA AccessCareful ==
  ASSUME SwiftConstants, Careful, NEW c \in Callers, calls[c].pc = "access",
         Put(c, [calls[c] EXCEPT !.pc = "refresh"]),
         stored' \in Pair, stored'.refresh = stored.refresh, PastTyped',
         UNCHANGED <<server, header, inFlight, screen, reused, lost>>
  PROVE  Careful'
<1> USE Screens, Names, Numbers
<1>1. PICK rec \in Call : /\ Put(c, rec) /\ rec.pc = "refresh" /\ rec.token = calls[c].token
  BY MovesOn
<1>2. Suits(c, rec)
  BY <1>1, Parts DEF Suits, Named, NamesIn, Cleared
<1>3. ServiceTyped' /\ Grows
  BY SameGrows, Parts DEF ServiceTyped, server
<1>4. Fresh(c)
  BY DEF Fresh, FreshIn
<1>5. CASE c # "refresh"
  BY <1>1, <1>2, <1>3, <1>4, <1>5, CallStep DEF screen
<1>6. CASE c = "refresh"
  <2>1. calls'["refresh"] = rec /\ \A d \in Callers : d # "refresh" => calls'[d] = calls[d]
    BY <1>1, <1>6, Parts, PutTyped
  <2>2. held' = held
    BY <1>1, <1>6, <2>1 DEF held
  <2>3. Led'
    BY <1>6, <2>1, Parts DEF Led
  <2>4. Kept => Kept'
    BY <1>1, <1>4, <1>6, <2>1 DEF Kept, Good, Fresh, FreshIn, server
  <2>5. (~lost' => Kept' /\ ~reused') /\ unspent' = unspent /\ issued' = issued /\ c \notin SignIns
    BY <1>6, <2>4 DEF Careful, server
  <2> QED BY <1>1, <1>2, <1>3, <2>2, <2>3, <2>5, PutStep, Parts DEF screen, Issued, ClientTyped
<1> QED BY <1>5, <1>6

\* The Keychain has a new refresh token, or none.
LEMMA RefreshCareful ==
  ASSUME SwiftConstants, Careful, NEW c \in Callers, calls[c].pc = "refresh",
         Put(c, [calls[c] EXCEPT !.pc = "header"]),
         stored' \in Pair, stored'.refresh \in {None, calls[c].token}, PastTyped',
         UNCHANGED <<server, header, inFlight, screen, reused, lost>>
  PROVE  Careful'
<1> USE Screens, Names, Numbers
<1>1. PICK rec \in Call : /\ Put(c, rec) /\ rec.pc = "header" /\ rec.token = calls[c].token
  BY MovesOn
<1>2. Suits(c, rec) /\ ~FreshIn(rec) /\ Fresh(c)
  BY <1>1, Parts DEF Suits, Named, NamesIn, Fresh, FreshIn
<1>3. ServiceTyped' /\ unspent' = unspent /\ issued' = issued /\ sessionOf' = sessionOf /\ ended' = ended
  BY Parts DEF ServiceTyped, server
<1>4. /\ calls'[c] = rec /\ \A d \in Callers : d # c => calls'[d] = calls[d]
  BY <1>1, Parts, PutTyped
<1>5. inFlight' \in Flight /\ header' \in Tokens /\ user' \in Tokens /\ isBootstrapping' \in BOOLEAN
  BY Parts DEF ClientTyped, screen
<1>6. unspent' \subseteq 1..issued' /\ \A t \in unspent : t \in unspent'
  BY <1>3, Parts DEF Issued
<1>7. /\ c = "refresh" \/ calls[c].token = None
         \/ (c \in SignIns /\ calls[c].token \in unspent)
      /\ c = "refresh" => calls[c].token \in held
  BY <1>2, Parts DEF Cleared, Rest, FreshApart, held
<1>8. /\ calls'["refresh"].token = calls["refresh"].token
      /\ (calls'["refresh"].pc # "idle") = (calls["refresh"].pc # "idle")
      /\ (calls'["refresh"].pc = "sent") = (calls["refresh"].pc = "sent")
      /\ c # "refresh" => calls'["refresh"] = calls["refresh"]
  BY <1>1, <1>4
<1>9. held' \subseteq held \cup {None, calls[c].token}
  BY <1>8 DEF held
<1>10. \A t \in held' : t <= issued'
  BY <1>3, <1>6, <1>7, <1>9, Parts
<1>11. Led'
  BY <1>4, <1>8, Parts DEF Led
<1>12. Kept => Kept'
  <2>1. SUFFICES ASSUME Kept PROVE Kept'
    OBVIOUS
  <2>3. Good(stored.refresh)'
    BY <1>2, <1>3, <1>7, <2>1 DEF Kept, Good, GoodIn
  <2>4. Fresh("refresh")' => Fresh("refresh")
    BY <1>2, <1>4, <1>8 DEF Fresh
  <2> QED BY <1>3, <1>8, <2>1, <2>3, <2>4 DEF Kept, Good
<1>13. ~lost' => Kept' /\ ~reused'
  BY <1>12 DEF Careful
<1>14. \A t \in held' : \/ t \in held \cup {None, issued + 1}
                        \/ c \in SignIns /\ Fresh(c) /\ ~FreshIn(rec) /\ t = calls[c].token
  BY <1>2, <1>7, <1>9
<1> QED BY ONLY SwiftConstants, Careful, c \in Callers, rec \in Call, PastTyped', stored' \in Pair,
                <1>1, <1>2, <1>3, <1>5, <1>6, <1>10, <1>11, <1>13, <1>14, PutStep

LEMMA WriteAccessCareful ==
  ASSUME SwiftConstants, Careful, NEW c \in Callers, WriteAccess(c) PROVE Careful'
<1>1. stored' \in Pair /\ stored'.refresh = stored.refresh
  BY Screens DEF WriteAccess, Pair
<1> QED BY <1>1, Screens, AccessCareful DEF WriteAccess, past

LEMMA WriteRefreshCareful ==
  ASSUME SwiftConstants, Careful, NEW c \in Callers, WriteRefresh(c) PROVE Careful'
<1>1. stored' \in Pair /\ stored'.refresh = calls[c].token
  BY Screens DEF WriteRefresh, Pair
<1> QED BY <1>1, Screens, RefreshCareful DEF WriteRefresh, past

LEMMA KeychainFailsCareful ==
  ASSUME SwiftConstants, Careful, NEW c \in Callers, KeychainFails(c) PROVE Careful'
<1>1. PastTyped'
  BY FaultTyped, Parts DEF KeychainFails, PastTyped
<1>2. CASE calls[c].pc = "access"
  <2>1. stored' \in Pair /\ stored'.refresh = stored.refresh
    BY <1>2, Screens, Numbers DEF KeychainFails, Pair
  <2>2. Put(c, [calls[c] EXCEPT !.pc = "refresh"])
    BY <1>2 DEF KeychainFails
  <2> QED BY <1>1, <1>2, <2>1, <2>2, AccessCareful DEF KeychainFails
<1>3. CASE calls[c].pc = "refresh"
  <2>1. stored' \in Pair /\ stored'.refresh = None
    BY <1>3, Screens, Numbers DEF KeychainFails, Pair
  <2>2. Put(c, [calls[c] EXCEPT !.pc = "header"])
    BY <1>3 DEF KeychainFails
  <2> QED BY <1>1, <1>3, <2>1, <2>2, RefreshCareful DEF KeychainFails
<1> QED BY <1>2, <1>3 DEF KeychainFails

-----------------------------------------------------------------------------
(* The shared refresh.                                                     *)

\* A step of the refresh task itself: the token it spends stays the same, and
\* so does the Keychain.
LEMMA TaskStep ==
  ASSUME SwiftConstants, Careful, calls["refresh"].pc # "idle", NEW rec \in Call, Put("refresh", rec),
         ServiceTyped', PastTyped', unspent' \subseteq 1..issued', issued <= issued',
         \A t \in unspent : t = inFlight.spends \/ t \in unspent',
         rec.token = None \/ rec.token = calls["refresh"].token
           \/ (rec.token = issued + 1 /\ issued + 1 <= issued'),
         UNCHANGED <<inFlight, stored>>,
         header' \in Tokens, user' \in Tokens, isBootstrapping' \in BOOLEAN,
         ~lost' => ~lost /\ reused' = reused,
         ~lost' /\ Kept =>
           /\ Good(stored.refresh)' \/ (FreshIn(rec) /\ stored.refresh = inFlight.spends)
           /\ rec.pc # "sent"
           /\ FreshIn(rec) => GoodIn(rec.token, unspent', sessionOf', ended')
  PROVE  Careful'
<1> USE Screens, Names, Numbers
<1>1. /\ calls'["refresh"] = rec /\ \A d \in Callers : d # "refresh" => calls'[d] = calls[d]
  BY Parts, PutTyped
<1>2. inFlight' \in Flight /\ stored' \in Pair
  BY Parts DEF ClientTyped
<1>3. \A t \in held' : t \in held \cup {None, issued + 1} /\ t <= issued'
  <2>1. \A t \in held : t <= issued'
    BY Parts DEF ServiceTyped
  <2>2. None <= issued'
    BY DEF ServiceTyped
  <2>3. held' = {stored.refresh, inFlight.spends, rec.token}
    BY <1>1 DEF held
  <2> QED BY <2>1, <2>2, <2>3 DEF held
<1>4. Led'
  BY <1>1, Parts DEF Led
<1>5. Suits("refresh", rec) /\ "refresh" \notin SignIns /\ "refresh" \in Callers
  BY DEF Suits, Rest
<1>6. ~lost' => Kept' /\ ~reused'
  BY <1>1 DEF Careful, Kept, Fresh, Good
<1> QED BY ONLY SwiftConstants, Careful, rec \in Call, Put("refresh", rec), ServiceTyped', PastTyped',
                unspent' \subseteq 1..issued', \A t \in unspent : t = inFlight.spends \/ t \in unspent',
                header' \in Tokens, user' \in Tokens, isBootstrapping' \in BOOLEAN,
                <1>2, <1>3, <1>4, <1>5, <1>6, PutStep

\* An answer to the refresh, on record.
LEMMA AnsweredRefresh ==
  ASSUME SwiftConstants, Careful, NEW a \in {"pair", "refused", "failed"}, NEW t \in Tokens,
         Answer("refresh", a, t)
  PROVE  \E rec \in Call : /\ Put("refresh", rec) /\ rec.pc = "answered"
                           /\ rec.answer = a /\ rec.token = t
BY AnswerRec, Names

LEMMA RotateCareful ==
  ASSUME SwiftConstants, Careful, NEW answered \in BOOLEAN, Rotate(answered) PROVE Careful'
<1> USE Screens, Names, Numbers
<1> DEFINE s == inFlight.spends
<1>1. /\ calls["refresh"].pc = "sent" /\ Spend(s) /\ s \in Pairs
      /\ UNCHANGED <<header, stored, inFlight, screen>>
  BY Parts DEF Rotate, Led
<1>2. sessionOf[s] \in Tokens
  BY <1>1, Parts DEF ServiceTyped, Tokens
<1>3. Issue(sessionOf[s]) /\ unspent' = (unspent \ {s}) \cup {issued + 1} /\ UNCHANGED <<expired, ended>>
  BY <1>1 DEF Spend
<1>4. /\ issued' = issued + 1 /\ issued' \in Pairs /\ issued' \in Tokens
      /\ sessionOf' \in [Pairs -> Tokens]
      /\ \A u \in Pairs : u <= issued => sessionOf'[u] = sessionOf[u]
  BY <1>2, <1>3, IssueTyped, Parts
<1>5. ServiceTyped' /\ issued <= issued' /\ \A t \in unspent : t = s \/ t \in unspent'
  BY <1>3, <1>4, Parts DEF ServiceTyped, Tokens
<1>6. unspent' \subseteq 1..issued'
  BY <1>3, <1>4, Parts DEF Issued
<1>7. header' \in Tokens /\ user' \in Tokens /\ isBootstrapping' \in BOOLEAN
  BY <1>1 DEF screen
<1>8. CASE answered
  <2> DEFINE n == issued + 1
  <2>1. n \in Tokens /\ Answer("refresh", "pair", n) /\ UNCHANGED past
    BY <1>4, <1>8 DEF Rotate
  <2> HIDE DEF n
  <2>2. PICK rec \in Call : /\ Put("refresh", rec) /\ rec.pc = "answered"
                            /\ rec.answer = "pair" /\ rec.token = n
    BY ONLY SwiftConstants, Careful, <2>1, AnsweredRefresh
  <2>3. rec.token = issued + 1 /\ issued + 1 <= issued' /\ FreshIn(rec) /\ rec.pc # "sent"
    BY <1>4, <2>2, Parts DEF n, FreshIn
  <2>4. GoodIn(rec.token, unspent', sessionOf', ended')
    BY <1>3, <2>3 DEF GoodIn
  <2>5. Kept => Good(stored.refresh)' \/ stored.refresh = s
    <3>1. SUFFICES ASSUME Kept, stored.refresh # s PROVE Good(stored.refresh)'
      OBVIOUS
    <3>2. Good(stored.refresh) /\ stored.refresh \in Tokens /\ stored.refresh <= issued
      BY <1>1, <3>1, Parts DEF Kept, held
    <3>3. stored.refresh # None => sessionOf'[stored.refresh] = sessionOf[stored.refresh]
      BY <1>4, <3>2
    <3> QED BY <1>1, <1>3, <3>1, <3>2, <3>3 DEF Good, GoodIn
  <2>6. PastTyped' /\ lost' = lost /\ reused' = reused
    BY <2>1 DEF past
  <2> QED BY <1>1, <1>5, <1>6, <1>7, <2>2, <2>3, <2>4, <2>5, <2>6, TaskStep
<1>9. CASE ~answered
  <2>1. Answer("refresh", "failed", None) /\ lost' = TRUE /\ Fault("lose")
        /\ UNCHANGED <<reused, crossed, broken, kept>>
    BY <1>9 DEF Rotate
  <2>2. PastTyped'
    BY <2>1, FaultTyped, Parts DEF PastTyped
  <2>3. PICK rec \in Call : /\ Put("refresh", rec) /\ rec.token = None
    BY <2>1, AnsweredRefresh
  <2> QED BY <1>1, <1>5, <1>6, <1>7, <2>1, <2>2, <2>3, TaskStep
<1> QED BY <1>8, <1>9

\* The refresh fails, whatever the reason, without a new pair.
LEMMA RefusedStep ==
  ASSUME SwiftConstants, Careful, calls["refresh"].pc = "sent", ServiceTyped', PastTyped',
         NEW a \in {"refused", "failed"}, Answer("refresh", a, None),
         UNCHANGED <<issued, sessionOf, unspent>>, ended \subseteq ended',
         UNCHANGED <<header, stored, inFlight, screen, lost>>,
         ~lost => reused' = reused
  PROVE  Careful'
<1> USE Screens, Names, Numbers
<1>1. PICK rec \in Call : /\ Put("refresh", rec) /\ rec.pc = "answered"
                          /\ rec.answer = a /\ rec.token = None
  BY AnsweredRefresh
<1>2. ~FreshIn(rec) /\ rec.pc # "sent"
  BY <1>1 DEF FreshIn
<1>3. Kept => Good(stored.refresh)'
  <2>1. Kept => Good(stored.refresh)
    BY DEF Kept, Fresh, FreshIn
  <2>2. Grows /\ stored.refresh \in Tokens /\ stored.refresh <= issued
    BY SameGrows, Parts DEF held
  <2> QED BY <2>1, <2>2, GoodStays DEF Good
<1>4. unspent' \subseteq 1..issued' /\ issued <= issued'
  BY Parts DEF Issued
<1>5. header' \in Tokens /\ user' \in Tokens /\ isBootstrapping' \in BOOLEAN
  BY DEF screen
<1> QED BY <1>1, <1>2, <1>3, <1>4, <1>5, TaskStep

LEMMA RefuseRefreshCareful ==
  ASSUME SwiftConstants, Careful, RefuseRefresh PROVE Careful'
<1> DEFINE s == inFlight.spends
<1>1. calls["refresh"].pc = "sent" /\ s \in Pairs /\ Punish(s)
  BY Parts DEF RefuseRefresh, Led
<1>2. sessionOf[s] \in Tokens
  BY <1>1, Parts DEF ServiceTyped, Tokens
<1>3. ServiceTyped' /\ UNCHANGED <<issued, sessionOf, unspent>> /\ ended \subseteq ended'
  BY <1>1, <1>2, Parts DEF Punish, ServiceTyped, Tokens
<1>4. PastTyped'
  BY Parts DEF RefuseRefresh, PastTyped
<1>5. ~lost => reused' = reused
  <2>1. SUFFICES ASSUME ~lost PROVE sessionOf[s] \in ended
    BY Parts DEF RefuseRefresh, PastTyped
  <2>2. Good(s) /\ s # None
    BY <1>1, <2>1, Numbers DEF Careful, Kept, Pairs, None
  <2> QED BY <1>1, <2>2 DEF Punish, Rotates, Good, GoodIn
<1> QED BY <1>1, <1>3, <1>4, <1>5, RefusedStep DEF RefuseRefresh

LEMMA RefreshUnanswered ==
  ASSUME SwiftConstants, Careful, CallFails("refresh") PROVE Careful'
<1>1. Answer("refresh", "failed", None)
  BY Names DEF CallFails
<1>2. ServiceTyped' /\ PastTyped'
  BY Screens, Parts DEF CallFails, ServiceTyped, server
<1> QED BY <1>1, <1>2, RefusedStep DEF CallFails, server, past

LEMMA KeepRefreshedCareful ==
  ASSUME SwiftConstants, Careful, KeepRefreshed PROVE Careful'
<1> USE Screens, Names, Numbers
<1> DEFINE rec == Writing(calls["refresh"].token)
<1>1. /\ rec \in Call /\ rec.pc = "access" /\ rec.token = calls["refresh"].token
      /\ Put("refresh", rec)
  BY WritingRec DEF KeepRefreshed
<1> HIDE DEF rec
<1>2. FreshIn(rec) /\ Fresh("refresh") /\ rec.pc # "sent"
  BY <1>1 DEF KeepRefreshed, Answered, Fresh, FreshIn
<1>3. ServiceTyped' /\ PastTyped'
  BY Parts DEF KeepRefreshed, ServiceTyped, server, PastTyped
<1>4. UNCHANGED <<issued, sessionOf, unspent, ended, header, stored, inFlight, user,
                  isBootstrapping, lost, reused>> /\ calls["refresh"].pc # "idle"
  BY DEF KeepRefreshed, Answered, server, screen
<1>5. unspent' \subseteq 1..issued' /\ issued <= issued'
  BY <1>4, Parts DEF Issued
<1>6. Kept => /\ Good(stored.refresh)' \/ (FreshIn(rec) /\ stored.refresh = inFlight.spends)
              /\ rec.pc # "sent" /\ GoodIn(rec.token, unspent', sessionOf', ended')
  BY <1>1, <1>2, <1>4 DEF Kept, Good
<1> QED BY <1>1, <1>3, <1>4, <1>5, <1>6, TaskStep

\* No refresh begins before the task of the last one is over.
LEMMA BeginCareful ==
  ASSUME SwiftConstants, Careful, NEW c \in Performed, Begin(c) PROVE Careful'
<1> USE Screens, Names, Numbers
<1>1. c \in Callers /\ c # "refresh" /\ c \notin SignIns /\ c \notin SignOuts
  BY Performers
<1>2. /\ inFlight = NoneInFlight /\ inFlight.spends = None /\ calls["refresh"].pc = "idle"
      /\ UNCHANGED <<server, header, stored, screen, faults, reused, lost, broken, kept>>
  BY Parts DEF Begin, Led, NoneInFlight, None, Pairs
<1>3. /\ inFlight' = [by |-> c, spends |-> stored.refresh, end |-> "none"]
      /\ stored.refresh \in Pairs /\ inFlight' \in Flight
      /\ inFlight'.by = c /\ inFlight'.spends = stored.refresh
  BY DEF Begin, Restorable, Pair, Flight
<1>4. /\ calls' \in [Callers -> Call] /\ \A d \in Callers \ {c, "refresh"} : calls'[d] = calls[d]
      /\ calls'[c].pc = "waiting" /\ calls'["refresh"] = Sent(None, FALSE)
  <2>1. calls' = [calls EXCEPT ![c].pc = "waiting", !["refresh"] = Sent(None, FALSE)]
    BY DEF Begin
  <2>2. Sent(None, FALSE) \in Call /\ calls \in [Callers -> Call] /\ calls[c] \in Call
    BY <1>1, Records, Parts
  <2>3. [calls[c] EXCEPT !.pc = "waiting"] \in Call /\ [calls[c] EXCEPT !.pc = "waiting"].pc = "waiting"
    BY <2>2 DEF Call
  <2>4. \A d \in Callers : calls'[d] = IF d = "refresh" THEN Sent(None, FALSE)
                                       ELSE IF d = c THEN [calls[c] EXCEPT !.pc = "waiting"] ELSE calls[d]
    BY <1>1, <2>1, <2>2
  <2>5. calls' = [d \in Callers |-> calls'[d]]
    BY <2>1, <2>2
  <2>6. calls' \in [Callers -> Call]
    <3>1. \A d \in Callers : calls'[d] \in Call
      BY ONLY <2>2, <2>3, <2>4, \A d \in Callers : calls[d] \in Call, Parts, SwiftConstants, Careful
    <3> QED BY ONLY <2>5, <3>1
  <2>7. /\ \A d \in Callers \ {c, "refresh"} : calls'[d] = calls[d]
        /\ calls'[c] = [calls[c] EXCEPT !.pc = "waiting"] /\ calls'["refresh"] = Sent(None, FALSE)
    BY ONLY <1>1, <2>4, "refresh" \in Callers, Names, SwiftConstants
  <2> QED BY <2>3, <2>6, <2>7
<1>5. calls'["refresh"].pc = "sent" /\ calls'["refresh"].token = None
  BY <1>4 DEF Sent
<1>6. ServiceTyped' /\ ClientTyped' /\ PastTyped'
  <2>1. ServiceTyped'
    BY <1>2, Parts DEF ServiceTyped, server
  <2>2. ClientTyped'
    BY <1>2, <1>3, <1>4, Parts DEF ClientTyped, screen
  <2>3. PastTyped'
    BY Parts DEF PastTyped, Begin
  <2> QED BY <2>1, <2>2, <2>3
<1>7. Led'
  BY <1>3, <1>4, <1>5 DEF Led
<1>8. Named' /\ Cleared'
  <2>1. Named'
    BY <1>1, <1>4, Parts DEF Named, NamesIn
  <2>2. Cleared'
    BY <1>4, Parts DEF Cleared, Rest
  <2> QED BY <2>1, <2>2
<1>9. held' \subseteq held \cup {None}
  BY <1>2, <1>3, <1>5 DEF held
<1>10. Issued'
  BY <1>2, <1>9, Parts DEF Issued, server
<1>11. FreshApart'
  <2>1. \A d \in SignIns : Fresh(d)' => Fresh(d) /\ calls'[d].token = calls[d].token
    BY <1>1, <1>4 DEF Fresh
  <2>2. \A t \in unspent : t \in unspent'
    BY <1>2 DEF server
  <2> QED BY <1>9, <2>1, <2>2, ApartOld
<1>12. ~lost' => Kept' /\ ~reused'
  <2>1. Kept => Good(stored.refresh)
    BY <1>2 DEF Kept, Fresh, FreshIn
  <2> QED BY <1>2, <1>3, <1>5, <2>1 DEF Careful, Kept, Good, Fresh, FreshIn, server
<1> QED BY ONLY <1>6, <1>7, <1>8, <1>10, <1>11, <1>12, Whole

\* The task ends, and its callers are woken.
LEMMA WakeStep ==
  ASSUME SwiftConstants, Careful, NEW end \in {"ok", "failed"}, Wake(end),
         ~Fresh("refresh"), PastTyped',
         UNCHANGED <<server, header, stored, screen, reused, lost>>
  PROVE  Careful'
<1> USE Screens, Names, Numbers
<1>1. inFlight' \in Flight /\ inFlight'.spends = inFlight.spends
  BY Parts DEF Wake, ClientTyped, Flight
<1>2. \A c \in Callers : calls[c].pc = "waiting" =>
        /\ [calls[c] EXCEPT !.pc = "turn", !.answer = end] \in Call
        /\ [calls[c] EXCEPT !.pc = "turn", !.answer = end].pc = "turn"
  BY Parts DEF Call
<1>3. /\ calls' \in [Callers -> Call] /\ calls'["refresh"] = Idle
      /\ \A c \in Callers \ {"refresh"} : calls'[c] = calls[c] \/ calls'[c].pc = "turn"
  BY <1>2, Records, Parts DEF Wake
<1>4. calls'["refresh"].pc = "idle" /\ calls'["refresh"].token = None
  BY <1>3 DEF Idle
<1>5. ServiceTyped' /\ ClientTyped'
  BY <1>1, <1>3, Parts DEF ServiceTyped, server, ClientTyped, screen
<1>6. Led'
  BY <1>4 DEF Led
<1>7. Named' /\ Cleared'
  BY <1>3, Parts DEF Named, NamesIn, Cleared, Rest
<1>8. held' \subseteq held \cup {None}
  BY <1>1, <1>4 DEF held
<1>9. Issued'
  BY <1>8, Parts DEF Issued, server
<1>10. FreshApart'
  <2>1. \A d \in SignIns : Fresh(d)' => Fresh(d) /\ calls'[d].token = calls[d].token
    BY <1>3 DEF Fresh, FreshIn
  <2>2. \A t \in unspent : t \in unspent'
    BY DEF server
  <2> QED BY <1>8, <2>1, <2>2, ApartOld
<1>11. ~lost' => Kept' /\ ~reused'
  BY <1>4 DEF Careful, Kept, Good, Fresh, FreshIn, server
<1> QED BY ONLY <1>5, <1>6, <1>7, <1>9, <1>10, <1>11, PastTyped', Whole

LEMMA EndsCareful ==
  ASSUME SwiftConstants, Careful, Refreshed \/ RefreshFails PROVE Careful'
<1>1. ~Fresh("refresh")
  BY DEF Refreshed, RefreshFails, Answered, Fresh, FreshIn
<1>2. PastTyped'
  BY Parts DEF Refreshed, RefreshFails, PastTyped, past
<1> QED BY <1>1, <1>2, WakeStep DEF Refreshed, RefreshFails, past

-----------------------------------------------------------------------------
(* The end of a job, and of the program.                                   *)

LEMMA WriteHeaderCareful ==
  ASSUME SwiftConstants, Careful, NEW c \in Callers, WriteHeader(c) PROVE Careful'
<1> USE Screens, Names, Numbers, Records
<1>1. /\ calls[c].pc = "header" /\ UNCHANGED <<server, stored, inFlight, past>>
      /\ header' = calls[c].token /\ header' \in Tokens
      /\ isBootstrapping' = (isBootstrapping /\ c # "boot") /\ isBootstrapping' \in BOOLEAN
  BY DEF WriteHeader
<1>2. user' \in Tokens
  <2>1. CASE c = "register"
    <3>1. c \in SignIns
      BY <2>1 DEF SwiftConstants
    <3>2. calls[c].token \in Pairs
      BY <1>1, <3>1, Parts DEF Named, NamesIn
    <3>3. sessionOf[calls[c].token] \in Tokens
      BY <3>2, Parts DEF ServiceTyped, Tokens
    <3> QED BY <2>1, <3>3 DEF WriteHeader
  <2>2. CASE c # "register"
    <3>1. user' = CASE c = "register" -> sessionOf[calls[c].token]
                    [] c \in SignOuts \cup {"boot"} -> None
                    [] OTHER -> user
      BY ONLY WriteHeader(c) DEF WriteHeader
    <3>2. user' \in {None, user}
      BY ONLY <2>2, <3>1
    <3> QED BY <3>2
  <2> QED BY <2>1, <2>2
<1>3. ServiceTyped' /\ PastTyped' /\ expired' \subseteq Pairs
      /\ UNCHANGED <<issued, sessionOf, unspent, ended>>
  BY <1>1, Parts DEF ServiceTyped, server
<1>4. CASE c = "refresh"
  <2>1. PICK rec \in Call : Put(c, rec) /\ rec.pc = "done" /\ rec.token = calls[c].token
    <3>1. Put(c, [calls[c] EXCEPT !.pc = "done"])
      BY ONLY <1>4, WriteHeader(c) DEF WriteHeader
    <3> QED BY ONLY SwiftConstants, Careful, c \in Callers, <3>1, MovesOn
  <2>2. ~FreshIn(rec) /\ rec.pc # "sent" /\ ~Fresh("refresh")
    BY <1>1, <1>4, <2>1 DEF FreshIn, Fresh
  <2>3. unspent' \subseteq 1..issued' /\ issued <= issued'
    BY <1>3, Parts DEF Issued
  <2>4. Kept => Good(stored.refresh)'
    BY <1>1, <1>3, <2>2 DEF Kept, Good
  <2> QED BY <1>1, <1>2, <1>3, <1>4, <2>1, <2>2, <2>3, <2>4, TaskStep DEF past
<1>5. CASE c # "refresh"
  <2>1. \E rec \in Call : Put(c, rec) /\ ~FreshIn(rec) /\ Suits(c, rec)
    <3>1. ASSUME NEW t \in Tokens, Put(c, Sent(t, FALSE))
          PROVE  \E rec \in Call : Put(c, rec) /\ ~FreshIn(rec) /\ Suits(c, rec)
      <4>1. Sent(t, FALSE) \in Call /\ ~FreshIn(Sent(t, FALSE)) /\ Suits(c, Sent(t, FALSE))
        BY DEF Sent, FreshIn, Suits, NamesIn
      <4> QED BY <3>1, <4>1
    <3>2. ASSUME Put(c, Idle)
          PROVE  \E rec \in Call : Put(c, rec) /\ ~FreshIn(rec) /\ Suits(c, rec)
      <4>1. Idle \in Call /\ ~FreshIn(Idle) /\ Suits(c, Idle)
        BY DEF Idle, FreshIn, Suits, NamesIn
      <4> QED BY <3>2, <4>1
    <3>3. Put(c, Sent(calls[c].token, FALSE)) \/ Put(c, Idle)
      BY <1>5 DEF WriteHeader, End
    <3> QED BY <3>1, <3>2, <3>3
  <2>2. PICK rec \in Call : Put(c, rec) /\ ~FreshIn(rec) /\ Suits(c, rec)
    BY <2>1
  <2> QED BY ONLY SwiftConstants, Careful, c \in Callers, rec \in Call, <1>1, <1>2, <1>3, <1>5, <2>2,
                  QuietStep DEF past
<1> QED BY <1>4, <1>5

LEMMA KillCareful == ASSUME SwiftConstants, Careful, Kill PROVE Careful'
<1> USE Screens, Names, Numbers, Records
<1>1. /\ calls' \in [Callers -> Call] /\ \A c \in Callers : calls'[c].pc \in {"idle", "loading"}
      /\ calls'["refresh"].pc = "idle" /\ calls'["refresh"].token = None
  BY DEF Kill, Starting, Idle
<1>2. inFlight' = NoneInFlight /\ inFlight'.spends = None
  BY DEF Kill, NoneInFlight
<1>3. ServiceTyped' /\ UNCHANGED <<issued, sessionOf, unspent, ended, stored, reused>>
  BY Parts DEF Kill, ServiceTyped, server
<1>4. ClientTyped'
  BY <1>1, <1>2, <1>3, Parts DEF Kill, ClientTyped
<1>5. PastTyped'
  BY FaultTyped, Parts DEF Kill, PastTyped
<1>6. Led' /\ Named' /\ FreshApart' /\ Cleared'
  BY <1>1 DEF Led, Named, NamesIn, FreshApart, Fresh, FreshIn, Cleared, Rest
<1>7. held' \subseteq held \cup {None}
  BY <1>1, <1>2, <1>3 DEF held
<1>8. Issued'
  BY <1>3, <1>7, Parts DEF Issued
<1>9. ~lost' => Kept' /\ ~reused'
  <2>1. SUFFICES ASSUME ~lost' PROVE Kept' /\ ~reused'
    OBVIOUS
  <2>2. ~lost /\ calls["refresh"].pc = "idle"
    BY <2>1 DEF Kill, Busy
  <2>3. Good(stored.refresh)
    BY <2>2 DEF Careful, Kept, Fresh, FreshIn
  <2> QED BY <1>1, <1>3, <2>2, <2>3 DEF Careful, Kept, Good, Fresh, FreshIn
<1> QED BY ONLY <1>3, <1>4, <1>5, <1>6, <1>8, <1>9, Whole

-----------------------------------------------------------------------------
(* Every step, and the theorems.                                           *)

LEMMA StepCareful ==
  ASSUME SwiftConstants, Careful, NEW c \in Callers, Step(c) PROVE Careful'
<1>1. CASE Accept(c) \/ Refuse(c)
  BY <1>1, AcceptCareful, RefuseCareful
<1>2. CASE CallFails(c)
  BY <1>2, CallFailsCareful, RefreshUnanswered
<1>3. CASE WriteAccess(c) \/ WriteRefresh(c) \/ WriteHeader(c)
  BY <1>3, WriteAccessCareful, WriteRefreshCareful, WriteHeaderCareful
<1>4. CASE c \in Performed /\ (Await(c) \/ Begin(c) \/ BeginNothing(c) \/ TakeTurn(c))
  BY <1>4, AwaitCareful, BeginCareful, BeginNothingCareful, TakeTurnCareful
<1>5. CASE RestoreNothing \/ RestoreTokens \/ BootSucceeds \/ BootUndecided \/ BootRefused
  BY <1>5, BootCareful
<1>6. CASE c \in SignIns /\ (SignInSucceeds(c) \/ UserArrives(c) \/ SignInFails(c))
  BY <1>6, SignInCareful
<1>7. CASE c \in SignOuts /\ SignOutClears(c)
  BY <1>7, SignOutCareful
<1> QED BY <1>1, <1>2, <1>3, <1>4, <1>5, <1>6, <1>7 DEF Step

LEMMA NextCareful == ASSUME SwiftConstants, Careful, [Next]_vars PROVE Careful'
<1>1. CASE \E c \in Callers : Step(c)
  BY <1>1, StepCareful
<1>2. CASE Refreshes
  BY <1>2, RotateCareful, RefuseRefreshCareful, KeepRefreshedCareful, EndsCareful DEF Refreshes
<1>3. CASE Asks
  BY <1>3, AsksCareful
<1>4. CASE Goes
  BY <1>4, AnswerLostCareful, KeychainFailsCareful, RotateCareful, KillCareful DEF Goes
<1>5. CASE UNCHANGED vars
  <2>1. /\ UNCHANGED <<server, header, stored, inFlight, calls, user, isBootstrapping>>
        /\ UNCHANGED <<faults, reused, lost, crossed, broken, kept>>
    BY <1>5 DEF vars, screen, past
  <2>2. ServiceTyped' /\ ClientTyped' /\ PastTyped'
    BY <2>1, Parts DEF ServiceTyped, server, ClientTyped, PastTyped
  <2>3. Led' /\ Named' /\ Issued' /\ FreshApart' /\ Cleared' /\ (~lost' => Kept' /\ ~reused')
    BY <2>1, Parts DEF Careful, Led, Named, Issued, held, FreshApart, Fresh, Cleared, Kept, Good,
                       server
  <2> QED BY ONLY <2>2, <2>3, Whole
<1> QED BY <1>1, <1>2, <1>3, <1>4, <1>5 DEF Next, Works

LEMMA AlwaysCareful == ASSUME SwiftConstants PROVE Spec => []Careful
<1>1. Init => Careful
  BY InitCareful
<1>2. Careful /\ [Next]_vars => Careful'
  BY NextCareful
<1> QED BY <1>1, <1>2, PTL DEF Spec

\* Every variable has its type, whatever happens to the calls, the Keychain and
\* the program.
THEOREM SwiftTypes == ASSUME SwiftConstants PROVE Spec => []TypeOK
<1>1. Careful => TypeOK
  BY DEF Careful
<1> QED BY <1>1, AlwaysCareful, PTL

\* The refresh that callers share spends each token once, and a spent token is
\* presented again only after a rotation that could not be kept
\* (AccessTokenCoordinator.swift:4-8).
THEOREM SwiftRotationIsSafe == ASSUME SwiftConstants PROVE Spec => []ReuseNeedsALoss
<1>1. Careful => ReuseNeedsALoss
  BY DEF Careful, ReuseNeedsALoss
<1> QED BY <1>1, AlwaysCareful, PTL

-----------------------------------------------------------------------------
(* The header, the Keychain and the screen agree.                          *)

Quiet == ~crossed /\ ~broken

Turning(c) == calls[c].pc = "turn"

\* The coordinator is changing the tokens, or is about to.
Acting == inFlight # NoneInFlight \/ \E c \in Coordinator : Writes(c) \/ Turning(c)

\* Somebody was told that the refresh failed, and has not cleared the tokens yet.
Failing == \E c \in Performed : Turning(c) /\ calls[c].answer = "failed"

\* Every pair issued is of some session.
Rooted == \A t \in Pairs : t <= issued => sessionOf[t] # None

\* A start runs alone, but for the refresh it waits for.
Starts ==
  /\ Busy("boot") => /\ user = None /\ isBootstrapping
                     /\ \A c \in Callers \ {"boot", "refresh"} : ~Busy(c)
  /\ calls["boot"].pc = "loading" => header = None /\ inFlight = NoneInFlight

\* A refresh is in flight until who began it has had its turn.
Flies ==
  /\ Busy("refresh") => inFlight # NoneInFlight /\ inFlight.end = "none"
  /\ inFlight # NoneInFlight =>
       /\ inFlight.by \in Performed
       /\ inFlight.end = "none" => calls[inFlight.by].pc = "waiting"
       /\ inFlight.end # "none" => /\ Turning(inFlight.by)
                                   /\ calls[inFlight.by].answer = inFlight.end
  /\ \A c \in Callers : Turning(c) => calls[c].answer \in {"ok", "failed"}

\* The coordinator does one job at a time.
Single == \A c, d \in Coordinator : Writes(c) /\ Writes(d) => c = d

\* Only login asks for the user, with the pair it got.
Registers ==
  \A c \in SignIns :
    /\ calls[c].token <= issued
    /\ c = "register" => /\ calls[c].pc = "sent" => calls[c].token = None
                         /\ Answered(c) => calls[c].answer # "ok"

Orderly == Rooted /\ Starts /\ Flies /\ Single /\ Registers

\* The sessions that were there stay what they were.
SameSessions ==
  /\ issued' \in Nat /\ issued <= issued' /\ Rooted'
  /\ \A t \in Pairs : t <= issued => sessionOf'[t] = sessionOf[t]

LEMMA UnchangedSessions ==
  ASSUME SwiftConstants, Careful, Orderly, UNCHANGED <<issued, sessionOf>> PROVE SameSessions
BY Parts DEF SameSessions, Orderly, Rooted

LEMMA ServerSessions ==
  ASSUME SwiftConstants, Careful, Orderly,
         Grant \/ (\E t \in Pairs : t <= issued /\ Spend(t))
  PROVE  SameSessions
<1> USE Numbers
<1>1. ServiceTyped /\ issued \in Nat
  BY Parts
<1>2. PICK t \in Tokens : Issue(t) /\ (t = None \/ \E u \in Pairs : u <= issued /\ t = sessionOf[u])
  BY <1>1 DEF Grant, Spend, ServiceTyped, Tokens
<1>3. /\ issued' = issued + 1 /\ issued + 1 \in Pairs
      /\ \A u \in Pairs : u <= issued => sessionOf'[u] = sessionOf[u]
      /\ sessionOf'[issued + 1] = IF t = None THEN issued + 1 ELSE t
  BY <1>1, <1>2, IssueTyped DEF Issue, ServiceTyped
<1>4. sessionOf'[issued + 1] # None
  BY <1>1, <1>2, <1>3
<1>5. \A u \in Pairs : u <= issued \/ u = issued + 1 \/ u > issued'
  BY <1>1, <1>3
<1>6. Rooted'
  <2>1. ASSUME NEW u \in Pairs, u <= issued' PROVE sessionOf'[u] # None
    BY <1>1, <1>3, <1>4, <2>1 DEF Orderly, Rooted
  <2> QED BY <2>1 DEF Rooted
<1> QED BY <1>1, <1>3, <1>6 DEF SameSessions

LEMMA EffectSessions ==
  ASSUME SwiftConstants, Careful, Orderly, NEW c \in Callers, Effect(c) PROVE SameSessions
BY EffectTyped, ServerSessions, UnchangedSessions, Parts

\* A token that was issued belongs to the session it belonged to.
LEMMA SameSession ==
  ASSUME SwiftConstants, Careful, SameSessions, NEW t \in Tokens, t <= issued
  PROVE  t <= issued' /\ (t # None => sessionOf'[t] = sessionOf[t])
<1>1. t # None => t \in Pairs
  BY Numbers
<1> QED BY <1>1, Parts, Numbers DEF SameSessions

\* A step of one call that is not the refresh, and does not wait for one.
LEMMA OrderlyCall ==
  ASSUME SwiftConstants, Careful, Orderly, NEW c \in Callers, c # "refresh",
         NEW rec \in Call, Put(c, rec), calls[c].pc \notin {"waiting", "turn"},
         SameSessions, inFlight' = inFlight, rec.pc # "loading",
         c = "boot" => Busy("boot") /\ (rec.pc = "idle" \/ UNCHANGED screen),
         c # "boot" => ~Busy("boot"),
         rec.pc = "turn" => rec.answer \in {"ok", "failed"},
         c \in Coordinator /\ rec.pc \in {"access", "refresh", "header"} =>
           Writes(c) \/ Free(Coordinator),
         c \in SignIns =>
           /\ rec.token <= issued'
           /\ c = "register" => /\ rec.pc = "sent" => rec.token = None
                                /\ rec.pc = "answered" => rec.answer # "ok"
  PROVE  Orderly'
<1> USE Names
<1>1. /\ calls'[c] = rec /\ \A d \in Callers : d # c => calls'[d] = calls[d]
  BY PutTyped, Parts
<1>2. Starts'
  <2>1. CASE c = "boot"
    BY <1>1, <2>1 DEF Orderly, Starts, Busy, screen
  <2>2. CASE c # "boot"
    BY <1>1, <2>2 DEF Orderly, Starts, Busy
  <2> QED BY <2>1, <2>2
<1>3. Flies'
  <2>1. calls'["refresh"] = calls["refresh"]
    BY <1>1
  <2>2. inFlight # NoneInFlight => inFlight.by # c /\ inFlight.by \in Callers
    BY DEF Orderly, Flies, Turning
  <2>3. \A d \in Callers : Turning(d)' => calls'[d].answer \in {"ok", "failed"}
    BY <1>1 DEF Orderly, Flies, Turning
  <2> QED BY <1>1, <2>1, <2>2, <2>3 DEF Orderly, Flies, Busy, Turning
<1>4. Single'
  BY <1>1 DEF Orderly, Single, Writes, Free
<1>5. Registers'
  <2>1. ASSUME NEW d \in SignIns
        PROVE  /\ calls'[d].token <= issued'
               /\ d = "register" => /\ calls'[d].pc = "sent" => calls'[d].token = None
                                    /\ Answered(d)' => calls'[d].answer # "ok"
    <3>1. CASE d = c
      BY <1>1, <3>1 DEF Answered
    <3>2. CASE d # c
      <4>1. calls'[d] = calls[d] /\ calls[d].token \in Tokens /\ calls[d].token <= issued
        BY <1>1, <3>2, Screens DEF Orderly, Registers
      <4> QED BY <4>1, SameSession DEF Orderly, Registers, Answered
    <3> QED BY <3>1, <3>2
  <2> QED BY <2>1 DEF Registers
<1> QED BY <1>2, <1>3, <1>4, <1>5 DEF Orderly, SameSessions

\* A step of the task of the refresh, which goes on.
LEMMA OrderlyTask ==
  ASSUME SwiftConstants, Careful, Orderly, NEW rec \in Call, Put("refresh", rec), Busy("refresh"),
         SameSessions, UNCHANGED <<inFlight, screen>>, rec.pc # "turn",
         rec.pc \in {"access", "refresh", "header"} => Writes("refresh") \/ Free(Coordinator)
  PROVE  Orderly'
<1> USE Names
<1>1. /\ calls'["refresh"] = rec /\ \A d \in Callers : d # "refresh" => calls'[d] = calls[d]
  BY PutTyped, Parts
<1>2. Starts'
  BY <1>1 DEF Orderly, Starts, Flies, Busy, screen
<1>3. Flies'
  <2>1. inFlight.by # "refresh" /\ inFlight.by \in Callers /\ inFlight.end = "none"
    BY DEF Orderly, Flies
  <2> QED BY <1>1, <2>1 DEF Orderly, Flies, Busy, Turning
<1>4. Single'
  BY <1>1 DEF Orderly, Single, Writes, Free
<1>5. Registers'
  <2>1. \A d \in SignIns : calls'[d] = calls[d] /\ calls[d].token \in Tokens
    BY <1>1, Screens
  <2> QED BY <2>1, SameSession DEF Orderly, Registers, Answered
<1> QED BY <1>2, <1>3, <1>4, <1>5 DEF Orderly, SameSessions

\* One actor changes the tokens at a time, and so does one form.
Apart ==
  /\ Acting => Free(Main)
  /\ \A c \in Main : Writes(c) => \A d \in Main \ {c} : ~Busy(d)

\* After a refresh that failed nobody begins another one before the tokens are gone.
Clears ==
  /\ \A c \in Performed : Writes(c) => ~Busy("refresh")
  /\ Failing => /\ inFlight # NoneInFlight => inFlight.end = "failed"
                /\ inFlight = NoneInFlight /\ Free(Coordinator) => header = None

\* Who writes has both keys brought to one token before the header.
Follows ==
  \A c \in Callers : Writes(c) =>
    /\ calls[c].pc = "refresh" => stored.access = calls[c].token
    /\ calls[c].pc = "header" => stored = Held(calls[c].token)
    /\ c \in Rest => calls[c].token = None

\* Otherwise the Keychain holds one pair, the one of the header.
Settled ==
  /\ (\A c \in Callers : calls[c].pc # "refresh") => stored.access = stored.refresh
  /\ Free(Callers) /\ calls["boot"].pc # "loading" => stored = Held(header)

\* A refresh spends the token of the header for one of the same session.
Renews ==
  /\ calls["refresh"].pc \in {"sent", "answered", "access", "refresh", "header"} =>
       inFlight.spends = header
  /\ Writes("refresh") \/ (Answered("refresh") /\ calls["refresh"].answer = "pair") =>
       /\ calls["refresh"].token \in Pairs /\ calls["refresh"].token <= issued
       /\ sessionOf[calls["refresh"].token] = sessionOf[header]

\* A form that asks for the user, or that is about to say that it failed.
AskedIn(call) ==
  call.token # None /\ (call.pc = "sent" \/ (call.pc = "answered" /\ call.answer # "pair"))
AwaitsIn(call) ==
  AskedIn(call) \/ (call.pc = "answered" /\ call.answer \in {"refused", "failed"})
Asked(c)  == AskedIn(calls[c])
Awaits(c) == AwaitsIn(calls[c])

\* The screen shows the session of the header, or it will, or its user could not
\* be asked for.
Shows ==
  /\ Free(SignIns) /\ header # None =>
       \/ user = sessionOf[header]
       \/ user = None /\ (kept \/ Busy("boot") \/ \E c \in SignIns : Awaits(c))
  /\ "login" \in SignIns /\ Busy("login") => user = None
  /\ \A c \in SignIns : Asked(c) /\ header # None => sessionOf[calls[c].token] = sessionOf[header]

\* A start asks with the header.
Restores ==
  calls["boot"].pc = "sent" \/ (Answered("boot") /\ calls["boot"].answer = "ok") =>
    calls["boot"].token = header

Agreed == /\ Apart /\ Clears /\ Follows /\ Settled /\ Renews /\ Shows /\ Restores
          /\ header <= issued

\* The inductive strengthening of OneSession.
Consistent == Careful /\ Orderly /\ (Quiet => Agreed)

\* What crossed or broke is remembered, so a quiet step was quiet before.
LEMMA QuietBefore ==
  ASSUME Consistent, crossed => crossed', broken => broken', Orderly', Careful',
         Agreed /\ Quiet' => Agreed'
  PROVE  Consistent'
BY DEF Consistent, Quiet

\* Nobody writes while somebody else does.
LEMMA Alone ==
  ASSUME SwiftConstants, Careful, Orderly, Agreed, NEW c \in Callers, Writes(c)
  PROVE  /\ \A d \in Callers : d # c => ~Writes(d)
         /\ c \in Main => /\ ~Acting /\ inFlight = NoneInFlight /\ ~Busy("refresh")
                          /\ \A d \in Coordinator : ~Turning(d)
                          /\ \A d \in Main \ {c} : ~Busy(d)
         /\ c \in Performed => ~Busy("refresh")
         /\ c = "refresh" => /\ inFlight # NoneInFlight /\ header \in Pairs
<1> USE Names
<1>1. Callers = Main \cup Coordinator
  BY DEF Callers
<1>2. c \in Main => ~Acting
  BY DEF Agreed, Apart, Free
<1>3. c \in Main => \A d \in Coordinator : ~Writes(d) /\ ~Turning(d)
  BY <1>2 DEF Acting
<1>4. c \in Main => \A d \in Main \ {c} : ~Busy(d)
  BY DEF Agreed, Apart
<1>5. \A d \in Callers : Writes(d) => Busy(d)
  BY DEF Writes, Busy
<1>6. c \in Coordinator => \A d \in Main : ~Writes(d)
  BY DEF Agreed, Apart, Acting, Free
<1>7. c \in Coordinator => \A d \in Coordinator : d # c => ~Writes(d)
  BY DEF Orderly, Single
<1>8. c \in Main => inFlight = NoneInFlight /\ ~Busy("refresh")
  BY <1>2 DEF Acting, Orderly, Flies
<1>9. c = "refresh" => inFlight # NoneInFlight /\ header \in Pairs
  BY <1>5, Parts DEF Orderly, Flies, Led, Agreed, Renews, Writes, Busy
<1>10. c \in Performed => ~Busy("refresh")
  BY DEF Agreed, Clears
<1> QED BY <1>1, <1>2, <1>3, <1>4, <1>5, <1>6, <1>7, <1>8, <1>9, <1>10

\* A step of one call that leaves the header and the screen alone.
LEMMA ShowsCall ==
  ASSUME SwiftConstants, Careful, Orderly, Agreed, NEW c \in Callers, NEW rec \in Call,
         Put(c, rec), SameSessions, UNCHANGED <<header, user>>, kept => kept',
         c \in SignIns =>
           /\ ~Writes(c) /\ (Awaits(c) => AwaitsIn(rec))
           /\ AskedIn(rec) => Asked(c) /\ rec.token = calls[c].token
           /\ Busy(c) \/ user = None,
         c = "boot" => rec.pc # "idle" \/ header = None
  PROVE  Shows'
<1> USE Names, Screens
<1>1. /\ calls'[c] = rec /\ \A d \in Callers : d # c => calls'[d] = calls[d]
  BY PutTyped, Parts
<1>2. header # None => sessionOf'[header] = sessionOf[header]
  BY SameSession DEF Agreed
<1>3. Free(SignIns)' => Free(SignIns)
  BY <1>1 DEF Free, Writes
<1>4. \A d \in SignIns : Awaits(d) => Awaits(d)'
  BY <1>1 DEF Awaits
<1>5. Busy("boot") => Busy("boot")' \/ header = None
  BY <1>1 DEF Busy
<1>6. "login" \in SignIns /\ Busy("login")' => user = None
  BY <1>1 DEF Agreed, Shows, Busy
<1>7. ASSUME NEW d \in SignIns, Asked(d)', header # None
      PROVE  sessionOf'[calls'[d].token] = sessionOf'[header]
  <2>1. Asked(d) /\ calls'[d].token = calls[d].token
    BY <1>1, <1>7 DEF Asked
  <2>2. calls[d].token \in Tokens /\ calls[d].token <= issued /\ calls[d].token # None
    BY <2>1 DEF Orderly, Registers, Asked, AskedIn
  <2>3. sessionOf'[calls[d].token] = sessionOf[calls[d].token]
    BY <2>2, SameSession
  <2> QED BY <1>2, <1>7, <2>1, <2>3 DEF Agreed, Shows
<1> QED BY <1>2, <1>3, <1>4, <1>5, <1>6, <1>7 DEF Agreed, Shows

\* A step of one call, not of the refresh, that writes nothing, before or after.
LEMMA AgreedCall ==
  ASSUME SwiftConstants, Careful, Orderly, Agreed, NEW c \in Callers, c # "refresh",
         NEW rec \in Call, Put(c, rec), SameSessions, UNCHANGED <<header, stored, inFlight>>,
         ~Writes(c), ~Turning(c), rec.pc \notin {"loading", "access", "refresh", "header"},
         rec.pc = "turn" => inFlight # NoneInFlight /\ rec.answer = inFlight.end,
         c \in Main => Busy(c) \/ Free(Main),
         c = "boot" =>
           /\ calls["boot"].pc = "loading" => stored = Held(header)
           /\ rec.pc = "sent" \/ (rec.pc = "answered" /\ rec.answer = "ok") => rec.token = header,
         Shows'
  PROVE  Agreed'
<1> USE Names, Screens
<1>1. /\ calls'[c] = rec /\ \A d \in Callers : d # c => calls'[d] = calls[d]
  BY PutTyped, Parts
<1>2. \A d \in Callers : Writes(d)' <=> Writes(d)
  BY <1>1 DEF Writes
<1>3. \A d \in Callers : d # c => (Busy(d)' <=> Busy(d)) /\ (Turning(d)' <=> Turning(d))
  BY <1>1 DEF Busy, Turning
<1>4. Acting' => Acting
  BY <1>1, <1>2, <1>3 DEF Acting, Turning
<1>5. Apart'
  BY <1>2, <1>3, <1>4 DEF Agreed, Apart, Free
<1>6. Clears'
  <2>1. Failing' => Failing \/ (inFlight # NoneInFlight /\ inFlight.end = "failed")
    BY <1>1, <1>3 DEF Failing, Turning
  <2>2. (Free(Coordinator)' <=> Free(Coordinator)) /\ (Busy("refresh")' <=> Busy("refresh"))
    BY <1>2, <1>3 DEF Free
  <2> QED BY <1>2, <2>1, <2>2 DEF Agreed, Clears
<1>7. Follows'
  BY <1>1, <1>2 DEF Agreed, Follows
<1>8. Settled'
  <2>1. \A d \in Callers : calls'[d].pc = "refresh" <=> calls[d].pc = "refresh"
    BY <1>1 DEF Writes
  <2>2. Free(Callers)' <=> Free(Callers)
    BY <1>2 DEF Free
  <2> QED BY <1>1, <2>1, <2>2 DEF Agreed, Settled
<1>9. Renews'
  <2>1. calls'["refresh"] = calls["refresh"]
    BY <1>1
  <2>2. header # None => sessionOf'[header] = sessionOf[header]
    BY SameSession DEF Agreed
  <2>3. ASSUME Writes("refresh") \/ (Answered("refresh") /\ calls["refresh"].answer = "pair")
        PROVE  header # None
    <3>1. calls["refresh"].pc \in {"answered", "access", "refresh", "header"}
      BY <2>3 DEF Writes, Answered
    <3> QED BY <3>1, Parts, Numbers DEF Led, Agreed, Renews
  <2>4. \A t \in Pairs : t <= issued => t <= issued' /\ sessionOf'[t] = sessionOf[t]
    BY SameSession, Numbers
  <2> QED BY <2>1, <2>2, <2>3, <2>4 DEF Agreed, Renews, Writes, Answered
<1>10. Restores'
  BY <1>1 DEF Agreed, Restores, Answered
<1>11. header' <= issued'
  BY SameSession DEF Agreed
<1> QED BY <1>5, <1>6, <1>7, <1>8, <1>9, <1>10, <1>11 DEF Agreed

\* A job that writes the tokens begins, while nobody else writes.
LEMMA AgreedWriting ==
  ASSUME SwiftConstants, Careful, Orderly, Agreed, NEW c \in Callers, NEW t \in Tokens,
         Put(c, Writing(t)), UNCHANGED <<server, header, stored, user>>,
         inFlight' = inFlight \/ (inFlight' = NoneInFlight /\ c \in Performed), Free(Callers),
         c \in Main => ~Acting /\ \A d \in Main \ {c} : ~Busy(d),
         c \in Performed => ~Busy("refresh"),
         c = "refresh" => /\ Answered("refresh") /\ calls["refresh"].answer = "pair"
                          /\ t = calls["refresh"].token,
         c \in Rest => t = None,
         IF c \in SignIns THEN Busy(c) ELSE kept' = kept
  PROVE  Agreed'
<1> USE Names, Screens
<1>1. /\ calls'[c] = Writing(t) /\ \A d \in Callers : d # c => calls'[d] = calls[d]
      /\ Writing(t).pc = "access" /\ Writing(t).token = t
  BY PutTyped, Parts, WritingRec
<1>2. Writes(c)' /\ \A d \in Callers : Writes(d)' => d = c
  BY <1>1 DEF Writes, Free
<1>3. \A d \in Callers : Turning(d)' => d # c /\ Turning(d) /\ calls'[d] = calls[d]
  BY <1>1 DEF Turning
<1>4. SameSessions
  BY UnchangedSessions DEF server
<1>5. c \in Main \/ c \in Performed \/ c = "refresh"
  BY DEF Callers, Coordinator
<1>6. c \in Main => c \notin Coordinator
  BY DEF Main, Coordinator, Performed
<1>7. Apart'
  <2>1. Acting' /\ c \notin Main => Free(Main)'
    BY <1>2 DEF Free
  <2>2. Acting' /\ c \in Main => Acting
    BY <1>2, <1>3, <1>6 DEF Acting, Coordinator
  <2>3. c \in Main => \A d \in Main \ {c} : ~Busy(d)'
    BY <1>1 DEF Busy
  <2> QED BY <1>2, <2>1, <2>2, <2>3 DEF Apart
<1>8. Clears'
  <2>1. c \in Performed => ~Busy("refresh")'
    BY <1>1 DEF Busy
  <2>2. Failing' => Failing
    BY <1>3 DEF Failing
  <2>3. c \in Main => ~Failing
    BY DEF Failing, Acting, Coordinator
  <2>4. c \notin Main => ~Free(Coordinator)'
    BY <1>2, <1>5 DEF Free, Coordinator
  <2> QED BY <1>2, <2>1, <2>2, <2>3, <2>4 DEF Agreed, Clears
<1>9. Follows'
  BY <1>1, <1>2 DEF Follows
<1>10. Settled'
  <2>1. \A d \in Callers : calls[d].pc # "refresh"
    BY DEF Free, Writes
  <2>2. ~Free(Callers)'
    BY <1>2 DEF Free
  <2> QED BY <2>1, <2>2 DEF Agreed, Settled
<1>11. Renews'
  <2>1. CASE c = "refresh"
    <3>1. /\ inFlight.spends = header /\ t \in Pairs /\ t <= issued
          /\ sessionOf[t] = sessionOf[header] /\ inFlight' = inFlight
      BY <2>1 DEF Agreed, Renews, Answered
    <3> QED BY <1>1, <2>1, <3>1 DEF Renews, server, Answered
  <2>2. CASE c # "refresh"
    <3>1. calls'["refresh"].pc = "idle" \/ inFlight' = inFlight
      BY <1>1, <2>2 DEF Busy
    <3> QED BY <1>1, <2>2, <3>1 DEF Agreed, Renews, server, Writes, Answered
  <2> QED BY <2>1, <2>2
<1>12. Shows'
  <2>1. CASE c \in SignIns
    <3>1. ~Free(SignIns)'
      BY <1>2, <2>1 DEF Free
    <3>2. "login" \in SignIns /\ Busy("login")' => Busy("login")
      BY <1>1, <2>1 DEF Busy
    <3>3. \A d \in SignIns : Asked(d)' => Asked(d) /\ calls'[d] = calls[d]
      BY <1>1 DEF Asked, AskedIn
    <3> QED BY <3>1, <3>2, <3>3 DEF Agreed, Shows, server
  <2>2. CASE c \notin SignIns
    <3>1. Writing(t) \in Call /\ (kept => kept')
      BY <2>2, WritingRec
    <3> QED BY <1>1, <1>4, <2>2, <3>1, ShowsCall
  <2> QED BY <2>1, <2>2
<1>13. Restores'
  BY <1>1 DEF Agreed, Restores, Answered
<1> QED BY <1>7, <1>8, <1>9, <1>10, <1>11, <1>12, <1>13 DEF Agreed, server

\* A key is written.
LEMMA AgreedKey ==
  ASSUME SwiftConstants, Careful, Orderly, Agreed, NEW c \in Callers, Writes(c), NEW rec \in Call,
         Put(c, rec), rec.pc \in {"refresh", "header"}, rec.token = calls[c].token,
         rec.pc = "refresh" => stored'.access = rec.token,
         rec.pc = "header" => stored' = Held(rec.token),
         UNCHANGED <<server, header, inFlight, user, kept>>
  PROVE  Agreed'
<1> USE Names, Screens
<1>1. /\ calls'[c] = rec /\ \A d \in Callers : d # c => calls'[d] = calls[d]
  BY PutTyped, Parts
<1>2. \A d \in Callers : (Writes(d)' <=> Writes(d)) /\ (Writes(d) => d = c)
  BY <1>1, Alone DEF Writes
<1>3. \A d \in Callers : (Busy(d)' <=> Busy(d)) /\ (Turning(d)' <=> Turning(d))
  BY <1>1 DEF Busy, Turning, Writes
<1>4. SameSessions
  BY UnchangedSessions DEF server
<1>5. Apart'
  <2>1. Acting' => Acting
    BY <1>2, <1>3 DEF Acting
  <2> QED BY <1>2, <1>3, <2>1 DEF Agreed, Apart, Free
<1>6. Clears'
  <2>1. Failing' => Failing
    BY <1>1, <1>3 DEF Failing, Turning, Writes
  <2>2. Free(Coordinator)' <=> Free(Coordinator)
    BY <1>2 DEF Free
  <2> QED BY <1>2, <1>3, <2>1, <2>2 DEF Agreed, Clears
<1>7. Follows'
  BY <1>1, <1>2 DEF Agreed, Follows
<1>8. Settled'
  <2>1. rec.pc = "header" => stored'.access = stored'.refresh
    BY DEF Held
  <2>2. ~Free(Callers)'
    BY <1>2 DEF Free
  <2>3. rec.pc = "refresh" => calls'[c].pc = "refresh"
    BY <1>1
  <2> QED BY <2>1, <2>2, <2>3 DEF Settled
<1>9. Renews'
  <2>1. calls'["refresh"].token = calls["refresh"].token
    BY <1>1
  <2>2. \/ calls'["refresh"] = calls["refresh"]
        \/ Writes("refresh") /\ calls'["refresh"].pc \in {"refresh", "header"}
    BY <1>1
  <2>3. Writes("refresh") => calls["refresh"].pc \in {"access", "refresh", "header"}
    BY DEF Writes
  <2> QED BY <1>2, <2>1, <2>2, <2>3 DEF Agreed, Renews, server, Answered
<1>10. Shows'
  <2>1. CASE c \in SignIns
    <3>1. ~Free(SignIns)'
      BY <1>2, <2>1 DEF Free
    <3>2. \A d \in SignIns : Asked(d)' => Asked(d) /\ calls'[d] = calls[d]
      BY <1>1 DEF Asked, AskedIn
    <3> QED BY <1>3, <3>1, <3>2 DEF Agreed, Shows, server
  <2>2. CASE c \notin SignIns
    BY <1>1, <1>4, <2>2, ShowsCall
  <2> QED BY <2>1, <2>2
<1>11. Restores'
  BY <1>1 DEF Agreed, Restores, Answered
<1> QED BY <1>5, <1>6, <1>7, <1>8, <1>9, <1>10, <1>11 DEF Agreed, server

\* The header is written, and nobody writes any more.
LEMMA AgreedHeader ==
  ASSUME SwiftConstants, Careful, Orderly, Agreed, NEW c \in Callers, WriteHeader(c),
         NEW rec \in Call, Put(c, rec), rec.pc \in {"idle", "sent", "done"},
         c = "boot" => rec.pc = "idle", c = "refresh" => rec.pc = "done",
         Shows'
  PROVE  Agreed'
<1> USE Names, Screens
<1>1. /\ calls'[c] = rec /\ \A d \in Callers : d # c => calls'[d] = calls[d]
  BY PutTyped, Parts
<1>2. /\ calls[c].pc = "header" /\ Writes(c) /\ Busy(c)
      /\ header' = calls[c].token /\ UNCHANGED <<server, stored, inFlight, past>>
  BY DEF WriteHeader, Writes, Busy
<1>3. stored = Held(header')
  BY <1>2 DEF Agreed, Follows
<1>4. \A d \in Callers : ~Writes(d)'
  BY <1>1, <1>2, Alone DEF Writes
<1>5. c \in Main \/ c \in Performed \/ c = "refresh"
  BY DEF Callers, Coordinator
<1>6. header' <= issued
  <2>1. CASE c \in SignIns
    BY <1>2, <2>1 DEF Orderly, Registers
  <2>2. CASE c = "refresh"
    BY <1>2, <2>2 DEF Agreed, Renews
  <2>3. CASE c \in Rest
    BY <1>2, <2>3, Numbers, Parts DEF Agreed, Follows
  <2> QED BY <2>1, <2>2, <2>3 DEF Rest
<1>7. Apart'
  BY <1>4 DEF Apart, Free
<1>8. Clears'
  <2>1. Failing' => Failing
    BY <1>1 DEF Failing, Turning
  <2>2. c \in Main => ~Failing
    BY <1>2, Alone DEF Failing, Coordinator
  <2>3. c = "refresh" => inFlight # NoneInFlight
    BY <1>2, Alone
  <2>4. c \in Performed => header' = None
    BY <1>2, Performers DEF Agreed, Follows, Rest
  <2> QED BY <1>2, <1>4, <1>5, <2>1, <2>2, <2>3, <2>4 DEF Agreed, Clears
<1>9. Follows'
  BY <1>4 DEF Follows
<1>10. Settled'
  BY <1>2, <1>3 DEF Settled, Held
<1>11. Renews'
  <2>1. calls'["refresh"].pc \in {"idle", "done"}
    BY <1>1, <1>2, <1>5, Alone DEF Busy
  <2> QED BY <2>1 DEF Renews, Writes, Answered
<1>12. Restores'
  <2>1. calls'["boot"].pc \notin {"sent", "answered"}
    <3>1. CASE c = "boot"
      BY <1>1, <3>1
    <3>2. CASE c = "refresh"
      <4>1. inFlight.by \in Performed /\ calls[inFlight.by].pc = "waiting"
        BY <1>2, <3>2, Parts DEF Led, Busy
      <4>2. Busy("boot") => inFlight.by = "boot"
        BY <4>1, Performers DEF Orderly, Starts, Busy
      <4> QED BY <1>1, <3>2, <4>1, <4>2 DEF Busy
    <3>3. CASE c \notin {"boot", "refresh"}
      BY <1>1, <1>2, <3>3 DEF Orderly, Starts, Busy
    <3> QED BY <3>1, <3>2, <3>3
  <2> QED BY <2>1 DEF Restores, Answered
<1> QED BY <1>2, <1>6, <1>7, <1>8, <1>9, <1>10, <1>11, <1>12 DEF Agreed, server

-----------------------------------------------------------------------------
(* The steps of one call.                                                  *)

LEMMA SentRec ==
  ASSUME SwiftConstants, NEW t \in Tokens, NEW b \in BOOLEAN
  PROVE  Sent(t, b) \in Call /\ Sent(t, b).pc = "sent" /\ Sent(t, b).token = t
BY Records DEF Sent

LEMMA IdleRec ==
  ASSUME SwiftConstants
  PROVE  Idle \in Call /\ Idle.pc = "idle" /\ Idle.token = None
BY Records DEF Idle

LEMMA AsksConsistent == ASSUME SwiftConstants, Consistent, Asks PROVE Consistent'
<1> USE Screens, Names, Numbers
<1>0. Careful /\ Orderly /\ Careful'
  BY AsksCareful DEF Consistent
<1>1. PICK c \in Callers \ {"boot", "refresh"}, t \in Tokens :
        /\ Put(c, Sent(t, FALSE)) /\ ~Busy(c) /\ (user # None \/ ~isBootstrapping)
        /\ c \in Main => Free(Main)
        /\ c \in SignIns => t = None /\ user = None
        /\ UNCHANGED <<server, header, stored, inFlight, screen, past>>
  <2>1. CASE \E c \in Requests : Fetch(c)
    BY <1>0, <2>1 DEF Fetch, Main
  <2>2. CASE \E c \in SignIns : SignIn(c)
    BY <1>0, <2>2 DEF SignIn
  <2>3. CASE \E c \in SignOuts : SignOut(c)
    BY <1>0, <2>3 DEF SignOut
  <2> QED BY <2>1, <2>2, <2>3 DEF Asks
<1> DEFINE rec == Sent(t, FALSE)
<1>2. rec \in Call /\ rec.pc = "sent" /\ rec.token = t /\ Put(c, rec)
  BY <1>1, SentRec
<1> HIDE DEF rec
<1>3. SameSessions /\ issued' = issued /\ issued \in Nat
  BY <1>0, <1>1, UnchangedSessions, Parts DEF server
<1>4. ~Busy("boot") /\ calls[c].pc = "idle" /\ ~Writes(c) /\ ~Turning(c)
  BY <1>0, <1>1 DEF Orderly, Starts, Busy, Writes, Turning
<1>5. c \in SignIns => rec.token <= issued'
  BY <1>1, <1>2, <1>3
<1>6. Orderly'
  BY <1>0, <1>1, <1>2, <1>3, <1>4, <1>5, OrderlyCall
<1>7. ASSUME Agreed PROVE Agreed'
  <2>1. ~Awaits(c) /\ (c \in SignIns => ~AskedIn(rec))
    BY <1>1, <1>2, <1>4 DEF Awaits, AwaitsIn, AskedIn
  <2>2. Shows'
    BY <1>0, <1>1, <1>2, <1>3, <1>4, <1>7, <2>1, ShowsCall DEF screen, past
  <2> QED BY <1>0, <1>1, <1>2, <1>3, <1>4, <1>7, <2>2, AgreedCall
<1> QED BY <1>0, <1>1, <1>6, <1>7, QuietBefore DEF past

\* The backend answers a call, or does not.
LEMMA AnswerConsistent ==
  ASSUME SwiftConstants, Consistent, Careful', NEW c \in Callers, c # "refresh",
         NEW rec \in Call, Put(c, rec), calls[c].pc = "sent", SameSessions,
         UNCHANGED <<header, stored, inFlight, screen, crossed, broken, kept>>,
         \/ rec.pc = "idle" /\ c \in Requests
         \/ rec.pc = "answered" /\ rec.answer = "failed" /\ rec.token = None
         \/ /\ rec.pc = "answered" /\ rec.answer \in {"ok", "refused"} /\ rec.token = calls[c].token
            /\ c \in SignIns => calls[c].token # None
         \/ /\ rec.pc = "answered" /\ rec.answer = "pair" /\ rec.token <= issued'
            /\ c \in SignIns /\ calls[c].token = None
  PROVE  Consistent'
<1> USE Names, Numbers
<1>0. Careful /\ Orderly
  BY DEF Consistent
<1>1. Busy(c) /\ ~Writes(c) /\ ~Turning(c) /\ rec.pc \in {"idle", "answered"}
  BY DEF Busy, Writes, Turning
<1>2. c # "boot" => ~Busy("boot")
  BY <1>0, <1>1 DEF Orderly, Starts
<1>3. c \in SignIns => /\ rec.token <= issued'
                       /\ c = "register" => calls[c].token = None
  <2>1. c \in SignIns => calls[c].token \in Tokens /\ calls[c].token <= issued
    BY <1>0, Screens DEF Orderly, Registers
  <2>2. issued' \in Nat /\ issued \in Nat /\ issued <= issued'
    BY <1>0, Parts DEF SameSessions
  <2> QED BY <1>0, <2>1, <2>2 DEF Orderly, Registers
<1>4. Orderly'
  BY <1>0, <1>1, <1>2, <1>3, OrderlyCall
<1>5. ASSUME Agreed PROVE Agreed'
  <2>1. c \in SignIns => /\ Awaits(c) => AwaitsIn(rec)
                         /\ AskedIn(rec) => Asked(c) /\ rec.token = calls[c].token
    BY <1>3 DEF Awaits, AwaitsIn, Asked, AskedIn
  <2>2. Shows'
    BY <1>0, <1>1, <1>5, <2>1, ShowsCall DEF screen
  <2>3. c = "boot" => /\ calls["boot"].pc # "loading"
                      /\ rec.pc = "answered" /\ rec.answer = "ok" => rec.token = header
    BY <1>5 DEF Agreed, Restores
  <2> QED BY <1>0, <1>1, <1>5, <2>2, <2>3, AgreedCall
<1> QED BY <1>0, <1>4, <1>5, QuietBefore

LEMMA AnswersConsistent ==
  ASSUME SwiftConstants, Consistent, NEW c \in Callers, c # "refresh",
         Accept(c) \/ Refuse(c) \/ CallFails(c) \/ AnswerLost(c)
  PROVE  Consistent'
<1> USE Screens, Names, Numbers
<1>0. Careful /\ Orderly /\ Careful'
  BY AcceptCareful, RefuseCareful, CallFailsCareful, AnswerLostCareful DEF Consistent
<1>1. /\ calls[c].pc = "sent"
      /\ UNCHANGED <<header, stored, inFlight, screen, crossed, broken, kept>>
  BY DEF Accept, Refuse, CallFails, AnswerLost, past
<1>2. SameSessions
  <2>1. CASE Accept(c) \/ AnswerLost(c)
    BY <1>0, <2>1, EffectSessions DEF Accept, AnswerLost
  <2>2. CASE Refuse(c) \/ CallFails(c)
    BY <1>0, <2>2, UnchangedSessions DEF Refuse, CallFails, Expire, server
  <2> QED BY <2>1, <2>2
<1> DEFINE t == calls[c].token
<1>3. t \in Tokens
  BY <1>0
<1>4. CASE c \in Requests /\ End(c)
  BY <1>0, <1>1, <1>2, <1>4, IdleRec, AnswerConsistent DEF End
<1>5. CASE Answer(c, "failed", None)
  <2>1. PICK rec \in Call :
          Put(c, rec) /\ rec.pc = "answered" /\ rec.answer = "failed" /\ rec.token = None
    BY <1>0, <1>5, AnswerRec
  <2> QED BY <1>0, <1>1, <1>2, <2>1, AnswerConsistent
<1>6. ASSUME NEW a \in {"ok", "refused"}, Answer(c, a, t), c \in SignIns => t # None
      PROVE  Consistent'
  <2> HIDE DEF t
  <2>1. PICK rec \in Call : Put(c, rec) /\ rec.pc = "answered" /\ rec.answer = a /\ rec.token = t
    BY ONLY SwiftConstants, <1>0, c \in Callers, a \in {"ok", "refused"}, <1>3, <1>6, AnswerRec
  <2> QED BY <1>0, <1>1, <1>2, <1>6, <2>1, AnswerConsistent DEF t
<1>7. CASE c \in SignIns /\ t = None /\ Answer(c, "pair", issued + 1) /\ Accept(c)
  <2> DEFINE n == issued + 1
  <2>1. n \in Tokens /\ Answer(c, "pair", n) /\ issued' = n /\ issued' \in Nat
    BY <1>0, <1>2, <1>7, EffectTyped, Parts DEF Accept, Grant, Issue, SameSessions
  <2> HIDE DEF n
  <2>2. PICK rec \in Call : Put(c, rec) /\ rec.pc = "answered" /\ rec.answer = "pair" /\ rec.token = n
    BY ONLY SwiftConstants, <1>0, c \in Callers, <2>1, AnswerRec
  <2> QED BY <1>0, <1>1, <1>2, <1>7, <2>1, <2>2, AnswerConsistent
<1>8. \/ c \in Requests /\ End(c)
      \/ Answer(c, "failed", None)
      \/ Answer(c, "refused", t) /\ (c \in SignIns => t # None)
      \/ Answer(c, "ok", t) /\ (c \in SignIns => t # None)
      \/ c \in SignIns /\ t = None /\ Answer(c, "pair", issued + 1) /\ Accept(c)
  BY DEF Accept, Refuse, CallFails, AnswerLost
<1> QED BY <1>4, <1>5, <1>6, <1>7, <1>8

LEMMA AwaitConsistent ==
  ASSUME SwiftConstants, Consistent, NEW c \in Performed, Await(c) PROVE Consistent'
<1> USE Names
<1> DEFINE turn == [calls[c] EXCEPT !.pc = "turn", !.answer = inFlight.end]
           wait == [calls[c] EXCEPT !.pc = "waiting"]
<1>0. Careful /\ Orderly /\ Careful' /\ c \in Callers /\ c \notin Main /\ c # "refresh"
  BY AwaitCareful, Performers DEF Consistent, Main
<1>1. /\ turn \in Call /\ turn.pc = "turn" /\ turn.answer = inFlight.end
      /\ wait \in Call /\ wait.pc = "waiting"
  BY <1>0, Parts DEF Call, ClientTyped, Flight
<1>2. /\ calls[c].pc = "answered" /\ inFlight # NoneInFlight
      /\ Put(c, wait) \/ (Put(c, turn) /\ inFlight.end # "none")
      /\ UNCHANGED <<server, header, stored, inFlight, screen, past>>
  BY DEF Await, Refused, Answered
<1> HIDE DEF turn, wait
<1>3. PICK rec \in Call :
        /\ Put(c, rec) /\ rec.pc \in {"turn", "waiting"}
        /\ rec.pc = "turn" => rec.answer = inFlight.end /\ inFlight.end # "none"
  BY <1>1, <1>2
<1>4. SameSessions /\ inFlight.end \in {"none", "ok", "failed"}
  BY <1>0, <1>2, UnchangedSessions, Parts DEF server, ClientTyped, Flight
<1>5. Busy(c) /\ ~Writes(c) /\ ~Turning(c) /\ (c # "boot" => ~Busy("boot"))
  BY <1>0, <1>2 DEF Busy, Writes, Turning, Orderly, Starts
<1>6. Orderly'
  BY <1>0, <1>2, <1>3, <1>4, <1>5, OrderlyCall
<1>7. ASSUME Agreed PROVE Agreed'
  <2>1. Shows'
    BY <1>0, <1>2, <1>3, <1>4, <1>7, ShowsCall DEF screen, past
  <2>2. c = "boot" => calls["boot"].pc # "loading"
    BY <1>2
  <2> QED BY <1>0, <1>2, <1>3, <1>4, <1>5, <1>7, <2>1, <2>2, AgreedCall
<1> QED BY <1>0, <1>2, <1>6, <1>7, QuietBefore DEF past

\* Whoever had waited takes its turn.
LEMMA OrderlyTurn ==
  ASSUME SwiftConstants, Careful, Orderly, NEW c \in Performed, TakeTurn(c) PROVE Orderly'
<1> USE Names, Screens
<1>0. c \in Callers /\ c # "refresh" /\ c \notin SignIns
  BY Performers
<1>1. /\ Turning(c) /\ Busy(c) /\ Free(Coordinator)
      /\ UNCHANGED <<server, header, stored, screen, past>>
      /\ inFlight' = IF c = inFlight.by THEN NoneInFlight ELSE inFlight
  BY DEF TakeTurn, Turning, Busy
<1>2. PICK rec \in Call : Put(c, rec) /\ rec.pc \in {"sent", "access"}
  <2>1. Sent(header, TRUE) \in Call /\ Sent(header, TRUE).pc = "sent"
    BY SentRec
  <2>2. Writing(None) \in Call /\ Writing(None).pc = "access"
    BY WritingRec, Numbers
  <2> QED BY <2>1, <2>2 DEF TakeTurn
<1>3. /\ calls'[c] = rec /\ \A d \in Callers : d # c => calls'[d] = calls[d]
  BY <1>0, <1>2, PutTyped, Parts
<1>4. SameSessions
  BY <1>1, UnchangedSessions DEF server
<1>5. c = inFlight.by => ~Busy("refresh")
  BY <1>1, Parts DEF Led, Busy, Turning
<1>6. Starts'
  <2>1. c # "boot" => ~Busy("boot")
    BY <1>0, <1>1 DEF Orderly, Starts
  <2>2. Busy(c)' /\ calls'[c].pc # "loading" /\ \A d \in Callers \ {c} : Busy(d)' <=> Busy(d)
    BY <1>2, <1>3 DEF Busy
  <2>3. Busy("boot")' => Busy("boot") /\ c = "boot"
    BY <1>1, <2>1, <2>2
  <2>4. calls'["boot"].pc # "loading"
    BY <1>3, <2>1, <2>2 DEF Busy
  <2> QED BY <1>1, <2>2, <2>3, <2>4 DEF Orderly, Starts, screen
<1>7. Flies'
  <2>1. Busy("refresh")' <=> Busy("refresh")
    BY <1>0, <1>3 DEF Busy
  <2>2. \A d \in Callers : Turning(d)' => Turning(d) /\ calls'[d] = calls[d]
    BY <1>2, <1>3 DEF Turning
  <2>3. CASE c = inFlight.by
    <3>1. inFlight' = NoneInFlight
      BY <1>1, <2>3
    <3> QED BY <1>5, <2>1, <2>2, <2>3, <3>1 DEF Orderly, Flies
  <2>4. CASE c # inFlight.by
    <3>1. inFlight' = inFlight
      BY <1>1, <2>4
    <3>2. inFlight # NoneInFlight => calls'[inFlight.by] = calls[inFlight.by]
      BY <1>3, <2>4 DEF Orderly, Flies
    <3> QED BY <2>1, <2>2, <3>1, <3>2 DEF Orderly, Flies, Turning
  <2> QED BY <2>3, <2>4
<1>8. Single'
  BY <1>1, <1>3 DEF Single, Writes, Free
<1>9. Registers'
  BY <1>0, <1>1, <1>3 DEF Orderly, Registers, Answered, server
<1> QED BY <1>4, <1>6, <1>7, <1>8, <1>9 DEF Orderly, SameSessions

LEMMA TurnConsistent ==
  ASSUME SwiftConstants, Consistent, NEW c \in Performed, TakeTurn(c) PROVE Consistent'
<1> USE Names, Screens, Numbers
<1>0. /\ Careful /\ Orderly /\ Careful' /\ Orderly'
      /\ c \in Callers /\ c # "refresh" /\ c \notin SignIns /\ c \notin Main
  BY TakeTurnCareful, OrderlyTurn, Performers DEF Consistent, Main
<1>1. /\ Turning(c) /\ ~Writes(c) /\ Free(Coordinator) /\ calls[c].answer \in {"ok", "failed"}
      /\ UNCHANGED <<server, header, stored, screen, past>>
      /\ inFlight' = IF c = inFlight.by THEN NoneInFlight ELSE inFlight
      /\ Put(c, IF calls[c].answer = "ok" THEN Sent(header, TRUE) ELSE Writing(None))
  BY <1>0 DEF TakeTurn, Turning, Writes, Orderly, Flies
<1>2. SameSessions
  BY <1>0, <1>1, UnchangedSessions DEF server
<1>3. c = inFlight.by => ~Busy("refresh")
  BY <1>0, <1>1, Parts DEF Led, Busy, Turning
<1>4. ASSUME Agreed PROVE Agreed'
  <2>1. Free(Main) /\ Free(Callers)
    BY <1>1, <1>4 DEF Agreed, Apart, Acting, Free, Callers, Coordinator
  <2>2. CASE calls[c].answer = "failed"
    <3>1. Put(c, Writing(None))
      BY <1>1, <2>2
    <3>2. Failing
      BY <1>1, <2>2 DEF Failing
    <3>3. ~Busy("refresh")
      BY <1>0, <1>4, <3>2 DEF Agreed, Clears, Orderly, Flies
    <3>4. None \in Tokens /\ (inFlight' = inFlight \/ (inFlight' = NoneInFlight /\ c \in Performed))
      BY <1>1
    <3>5. UNCHANGED <<server, header, stored, user, kept>>
      BY <1>1 DEF screen, past
    <3> QED BY ONLY SwiftConstants, <1>0, <1>4, <2>1, <3>1, <3>3, <3>4, <3>5, AgreedWriting
  <2>3. CASE calls[c].answer = "ok"
    <3> DEFINE rec == Sent(header, TRUE)
    <3>1. rec \in Call /\ rec.pc = "sent" /\ rec.token = header /\ Put(c, rec)
      BY <1>0, <1>1, <2>3, SentRec
    <3> HIDE DEF rec
    <3>2. /\ calls'[c] = rec /\ \A d \in Callers : d # c => calls'[d] = calls[d]
      BY <1>0, <3>1, PutTyped, Parts
    <3>3. \A d \in Callers : ~Writes(d)'
      BY <2>1, <3>1, <3>2 DEF Free, Writes
    <3>4. Apart' /\ Follows'
      BY <3>3 DEF Apart, Follows, Free
    <3>5. Clears'
      <4>1. \A d \in Callers : Turning(d)' => Turning(d) /\ calls'[d] = calls[d]
        BY <3>1, <3>2 DEF Turning
      <4>2. Failing' => Failing
        BY <4>1 DEF Failing
      <4>3. Failing /\ inFlight # NoneInFlight => c # inFlight.by /\ inFlight.end = "failed"
        BY <1>0, <1>4, <2>3 DEF Agreed, Clears, Orderly, Flies
      <4>4. Failing /\ inFlight = NoneInFlight => header = None /\ inFlight' = inFlight
        BY <1>0, <1>1, <1>4 DEF Agreed, Clears
      <4> QED BY <1>1, <3>3, <4>2, <4>3, <4>4 DEF Clears
    <3>6. Settled'
      <4>1. \A d \in Callers : calls[d].pc # "refresh"
        BY <2>1 DEF Free, Writes
      <4>2. calls["boot"].pc = "loading" => calls'["boot"].pc = "loading"
        BY <1>1, <3>2 DEF Turning
      <4> QED BY <1>1, <1>4, <2>1, <4>1, <4>2 DEF Agreed, Settled
    <3>7. Renews'
      <4>1. calls'["refresh"] = calls["refresh"]
        BY <1>0, <3>2
      <4>2. calls["refresh"].pc # "idle" => inFlight' = inFlight
        BY <1>1, <1>3 DEF Busy
      <4> QED BY <1>1, <1>4, <4>1, <4>2 DEF Agreed, Renews, Writes, Answered, server
    <3>8. Shows'
      BY <1>0, <1>1, <1>2, <1>4, <3>1, ShowsCall DEF screen, past
    <3>9. Restores'
      BY <1>1, <1>4, <3>1, <3>2 DEF Agreed, Restores, Answered
    <3> QED BY <1>1, <1>4, <3>4, <3>5, <3>6, <3>7, <3>8, <3>9 DEF Agreed, server
  <2> QED BY <1>1, <2>2, <2>3
<1> QED BY <1>0, <1>1, <1>4, QuietBefore DEF past

\* Somebody else begins to write the tokens: when nothing crossed, alone.
LEMMA WritingConsistent ==
  ASSUME SwiftConstants, Consistent, Careful', NEW c \in Callers, NEW t \in Tokens,
         Put(c, Writing(t)), UNCHANGED <<server, header, stored, inFlight, screen, broken>>,
         calls[c].pc = "answered", crossed => crossed',
         c \in Coordinator => Free(Coordinator),
         c \in SignIns => t <= issued,
         Agreed /\ Quiet' =>
           /\ Free(Callers)
           /\ c \in Main => ~Acting /\ \A d \in Main \ {c} : ~Busy(d)
           /\ c \in Performed => ~Busy("refresh"),
         c = "refresh" => calls["refresh"].answer = "pair" /\ t = calls["refresh"].token,
         c \in Rest => t = None,
         c \in SignIns \/ kept' = kept
  PROVE  Consistent'
<1> USE Names
<1>0. Careful /\ Orderly
  BY DEF Consistent
<1> DEFINE rec == Writing(t)
<1>1. rec \in Call /\ rec.pc = "access" /\ rec.token = t /\ Put(c, rec)
  BY WritingRec
<1>2. Busy(c) /\ ~Writes(c) /\ SameSessions /\ issued' = issued
  BY <1>0, UnchangedSessions DEF Busy, Writes, server
<1> HIDE DEF rec
<1>3. Orderly'
  <2>1. CASE c = "refresh"
    BY <1>0, <1>1, <1>2, <2>1, OrderlyTask
  <2>2. CASE c # "refresh"
    <3>1. c # "boot" => ~Busy("boot")
      BY <1>0, <1>2, <2>2 DEF Orderly, Starts
    <3> QED BY <1>0, <1>1, <1>2, <2>2, <3>1, OrderlyCall
  <2> QED BY <2>1, <2>2
<1>4. ASSUME Agreed, Quiet' PROVE Agreed'
  <2>1. Answered(c) /\ UNCHANGED <<server, header, stored, user>> /\ inFlight' = inFlight
    BY DEF Answered, screen
  <2> QED BY <1>0, <1>2, <1>4, <2>1, AgreedWriting
<1> QED BY <1>0, <1>3, <1>4, QuietBefore

LEMMA StartsWriting ==
  ASSUME SwiftConstants, Consistent, NEW c \in Callers,
         \/ c \in Performed /\ BeginNothing(c)
         \/ c = "boot" /\ BootRefused
         \/ c = "refresh" /\ KeepRefreshed
  PROVE  Consistent'
<1> USE Names, Screens, Numbers
<1>0. Careful /\ Orderly /\ Careful'
  BY BeginNothingCareful, BootCareful, KeepRefreshedCareful DEF Consistent
<1> DEFINE t == IF c = "refresh" THEN calls[c].token ELSE None
<1>1. /\ t \in Tokens /\ Put(c, Writing(t)) /\ calls[c].pc = "answered"
      /\ UNCHANGED <<server, header, stored, inFlight, screen, broken, kept>> /\ (crossed => crossed')
  <2>1. CASE c = "refresh" /\ KeepRefreshed
    BY <1>0, <2>1 DEF KeepRefreshed, Answered
  <2>2. CASE c \in Performed /\ BeginNothing(c)
    BY <1>0, <2>2 DEF BeginNothing, Refused, Answered, Crosses
  <2>3. CASE c = "boot" /\ BootRefused
    BY <1>0, <2>3 DEF BootRefused, Answered, past
  <2> QED BY <2>1, <2>2, <2>3
<1>2. c \in Coordinator /\ c \notin Main /\ c \notin SignIns
  BY Performers DEF Coordinator, Main
<1>3. c # "refresh" => ~Busy("refresh")
  <2>1. CASE BeginNothing(c)
    BY <1>0, <2>1 DEF BeginNothing, Orderly, Flies
  <2>2. CASE c = "boot"
    <3>1. ASSUME Busy("refresh") PROVE FALSE
      <4>1. inFlight.by \in Performed /\ calls[inFlight.by].pc = "waiting"
        BY <1>0, <3>1, Parts DEF Led, Busy
      <4>2. inFlight.by = "boot"
        BY <1>0, <1>1, <2>2, <4>1, Performers DEF Orderly, Starts, Busy
      <4> QED BY <1>1, <2>2, <4>1, <4>2
    <3> QED BY <3>1
  <2> QED BY <2>1, <2>2
<1>4. Free(Coordinator)
  <2>1. CASE c = "boot" /\ BootRefused
    <3>1. \A d \in Callers \ {"boot", "refresh"} : ~Busy(d)
      BY <1>0, <1>1, <2>1 DEF Orderly, Starts, Busy
    <3> QED BY <1>1, <1>3, <2>1, <3>1 DEF Free, Writes, Busy
  <2> QED BY <2>1 DEF BeginNothing, KeepRefreshed
<1>5. Quiet' => Free(Callers)
  <2>1. CASE c = "boot" /\ BootRefused
    <3>1. \A d \in Callers \ {"boot", "refresh"} : ~Busy(d)
      BY <1>0, <1>1, <2>1 DEF Orderly, Starts, Busy
    <3> QED BY <1>1, <1>3, <2>1, <3>1 DEF Free, Writes, Busy
  <2>2. CASE BeginNothing(c)
    BY <1>1, <2>2 DEF BeginNothing, Crosses, Others, Quiet, Free, Writes
  <2>3. CASE KeepRefreshed
    BY <1>4, <2>3 DEF KeepRefreshed, Quiet, Free, Callers
  <2> QED BY <2>1, <2>2, <2>3
<1>6. c = "refresh" => calls["refresh"].answer = "pair" /\ t = calls["refresh"].token
  <2>1. c = "refresh" => KeepRefreshed
    BY Performers
  <2> QED BY <2>1 DEF KeepRefreshed
<1>7. c \in Rest => t = None
  BY DEF Rest
<1> HIDE DEF t
<1> QED BY <1>0, <1>1, <1>2, <1>3, <1>4, <1>5, <1>6, <1>7, WritingConsistent

LEMMA TakesConsistent ==
  ASSUME SwiftConstants, Consistent, NEW c \in Main,
         (c \in SignIns /\ SignInSucceeds(c)) \/ (c \in SignOuts /\ SignOutClears(c))
  PROVE  Consistent'
<1> USE Names, Screens, Numbers
<1>0. Careful /\ Orderly /\ Careful' /\ c \in Callers /\ c \notin Coordinator
  BY SignInCareful, SignOutCareful DEF Consistent, Main, Coordinator, Performed
<1> DEFINE t == IF c \in SignIns THEN calls[c].token ELSE None
<1>1. /\ t \in Tokens /\ Put(c, Writing(t)) /\ calls[c].pc = "answered" /\ Crosses(c)
      /\ UNCHANGED <<server, header, stored, inFlight, screen, broken>>
      /\ c \in SignIns \/ kept' = kept
  BY <1>0 DEF SignInSucceeds, SignOutClears, Answered
<1>2. c \in SignIns => t <= issued
  BY <1>0 DEF Orderly, Registers
<1>3. c \in Rest => t = None
  BY DEF Rest
<1>4. ASSUME Quiet'
      PROVE  Free(Callers) /\ ~Acting /\ \A d \in Main \ {c} : ~Busy(d)
  <2>1. /\ inFlight = NoneInFlight /\ \A d \in Main \ {c} : ~Busy(d)
        /\ \A d \in Callers \ {c} : ~Writes(d) /\ ~Turning(d)
    BY <1>1, <1>4 DEF Quiet, Crosses, Others, Turning
  <2> QED BY <1>0, <1>1, <2>1 DEF Free, Acting, Writes, Turning
<1>5. c # "refresh" /\ c \notin Performed /\ (crossed => crossed')
  BY <1>0, <1>1 DEF Coordinator, Crosses
<1> HIDE DEF t
<1> QED BY <1>0, <1>1, <1>2, <1>3, <1>4, <1>5, WritingConsistent

\* A pair whose keys are both t.
LEMMA HeldPair ==
  ASSUME NEW p \in Pair, NEW t, p.access = t, p.refresh = t
  PROVE  p = Held(t)
BY DEF Pair, Held

\* A call ends, and the screen is right about it.
LEMMA EndConsistent ==
  ASSUME SwiftConstants, Consistent, Careful', NEW c \in Callers, c # "refresh", End(c),
         calls[c].pc \in {"loading", "answered"},
         UNCHANGED <<server, header, stored, inFlight, crossed, broken>>,
         Agreed => /\ Shows'
                   /\ calls["boot"].pc = "loading" => stored = Held(header)
  PROVE  Consistent'
<1> USE Names, IdleRec
<1>0. Careful /\ Orderly
  BY DEF Consistent
<1>1. Put(c, Idle) /\ Busy(c) /\ ~Writes(c) /\ ~Turning(c)
  BY DEF End, Busy, Writes, Turning
<1>2. SameSessions /\ Idle.token <= issued'
  BY <1>0, UnchangedSessions, Parts, Numbers DEF server
<1>3. c # "boot" => ~Busy("boot")
  BY <1>0, <1>1 DEF Orderly, Starts
<1>4. Orderly'
  BY <1>0, <1>1, <1>2, <1>3, OrderlyCall
<1>5. Agreed => Agreed'
  BY <1>0, <1>1, <1>2, AgreedCall
<1> QED BY <1>0, <1>4, <1>5, QuietBefore

LEMMA RestoreTokensConsistent ==
  ASSUME SwiftConstants, Consistent, RestoreTokens PROVE Consistent'
<1> USE Names, Screens
<1> DEFINE rec == Sent(stored.access, FALSE)
<1>0. Careful /\ Orderly /\ Careful'
  BY BootCareful DEF Consistent
<1>1. rec \in Call /\ rec.pc = "sent" /\ rec.token = stored.access
  BY <1>0, SentRec
<1>2. /\ calls["boot"].pc = "loading" /\ Put("boot", rec) /\ Busy("boot") /\ header' = stored.access
      /\ UNCHANGED <<server, stored, inFlight, screen, past>>
  BY DEF RestoreTokens, Busy
<1> HIDE DEF rec
<1>3. SameSessions
  BY <1>0, <1>2, UnchangedSessions DEF server
<1>4. Orderly'
  BY <1>0, <1>1, <1>2, <1>3, OrderlyCall
<1>5. ASSUME Agreed PROVE Agreed'
  <2>1. \A d \in Callers \ {"boot"} : ~Busy(d)
    BY <1>0, <1>2 DEF Orderly, Starts, Flies
  <2>2. /\ calls'["boot"] = rec /\ \A d \in Callers \ {"boot"} : calls'[d].pc = "idle"
    BY <1>0, <1>1, <1>2, <2>1, PutTyped, Parts DEF Busy
  <2>3. \A d \in Callers : ~Writes(d)' /\ ~Turning(d)'
    BY <1>1, <2>2 DEF Writes, Turning
  <2>4. Apart' /\ Clears' /\ Follows'
    BY <2>3 DEF Apart, Clears, Failing, Follows, Free
  <2>5. stored.access = stored.refresh
    BY <1>2, <1>5, <2>1 DEF Agreed, Settled, Busy
  <2>6. stored = Held(header') /\ stored' = stored /\ stored.access <= issued
    BY <1>0, <1>2, <2>5, HeldPair, Parts DEF held
  <2>7. Settled'
    BY <2>5, <2>6 DEF Settled
  <2>8. Renews' /\ Restores'
    BY <1>1, <1>2, <2>2 DEF Renews, Restores, Writes, Answered
  <2>9. Shows'
    <3>1. user' = None /\ Busy("boot")'
      BY <1>0, <1>1, <1>2, <2>2 DEF Orderly, Starts, Busy, screen
    <3>2. \A d \in SignIns : ~Busy(d)' /\ ~Asked(d)'
      BY <2>2 DEF Busy, Asked, AskedIn
    <3> QED BY <3>1, <3>2 DEF Shows
  <2> QED BY <1>2, <2>4, <2>6, <2>7, <2>8, <2>9 DEF Agreed, server
<1> QED BY <1>0, <1>2, <1>4, <1>5, QuietBefore DEF past

LEMMA BootConsistent ==
  ASSUME SwiftConstants, Consistent,
         RestoreNothing \/ BootSucceeds \/ BootUndecided
  PROVE  Consistent'
<1> USE Names, Screens, Numbers
<1>0. Careful /\ Orderly /\ Careful'
  BY BootCareful DEF Consistent
<1>1. /\ calls["boot"].pc \in {"loading", "answered"} /\ End("boot") /\ Busy("boot")
      /\ UNCHANGED <<server, header, stored, inFlight, crossed, broken>>
  BY DEF RestoreNothing, BootSucceeds, BootUndecided, Answered, Busy, past
<1>2. user = None /\ \A d \in Callers \ {"boot", "refresh"} : ~Busy(d)
  BY <1>0, <1>1 DEF Orderly, Starts
<1>3. calls' \in [Callers -> Call] /\ \A d \in Callers : d # "boot" => calls'[d] = calls[d]
  BY <1>0, <1>1, IdleRec, PutTyped, Parts DEF End
<1>4. \A d \in SignIns : ~Busy(d)' /\ ~Asked(d)'
  BY <1>2, <1>3 DEF Busy, Asked, AskedIn
<1>5. ASSUME Agreed, RestoreNothing PROVE Shows' /\ stored = Held(header)
  <2>1. header = None /\ calls["boot"].pc = "loading" /\ ~Restorable
    BY <1>0, <1>5 DEF Orderly, Starts, RestoreNothing
  <2>2. stored.access = stored.refresh
    <3>1. ~Busy("refresh")
      BY <1>0, <2>1 DEF Orderly, Starts, Flies
    <3>2. \A d \in Callers : calls[d].pc # "refresh"
      BY <1>2, <2>1, <3>1 DEF Busy
    <3> QED BY <1>5, <3>2 DEF Agreed, Settled
  <2>3. stored = Held(header)
    BY <1>0, <2>1, <2>2, HeldPair DEF Restorable
  <2> QED BY <1>1, <1>4, <2>1, <2>3 DEF Shows
<1>6. ASSUME Agreed, BootSucceeds PROVE Shows'
  <2>1. user' = sessionOf[header]
    BY <1>6 DEF BootSucceeds, Agreed, Restores
  <2> QED BY <1>1, <1>4, <2>1 DEF Shows, server
<1>7. ASSUME Agreed, BootUndecided PROVE Shows'
  <2>1. user' = None /\ kept'
    BY <1>2, <1>7 DEF BootUndecided
  <2> QED BY <1>4, <2>1 DEF Shows
<1>8. RestoreNothing \/ calls["boot"].pc # "loading"
  BY DEF BootSucceeds, BootUndecided, Answered
<1> QED BY <1>0, <1>1, <1>5, <1>6, <1>7, <1>8, EndConsistent

LEMMA SignInEndsConsistent ==
  ASSUME SwiftConstants, Consistent, NEW c \in SignIns, UserArrives(c) \/ SignInFails(c)
  PROVE  Consistent'
<1> USE Names, Screens, Numbers
<1>0. Careful /\ Orderly /\ Careful'
  BY SignInCareful DEF Consistent
<1>1. /\ calls[c].pc = "answered" /\ End(c) /\ Busy(c)
      /\ UNCHANGED <<server, header, stored, inFlight, crossed, broken>>
  BY DEF UserArrives, SignInFails, Answered, Busy, past
<1>2. /\ calls'[c].pc = "idle" /\ \A d \in Callers : d # c => calls'[d] = calls[d]
  BY <1>0, <1>1, IdleRec, PutTyped, Parts DEF End
<1>3. \A d \in SignIns : Asked(d)' => Asked(d) /\ calls'[d] = calls[d]
  BY <1>2 DEF Asked, AskedIn
<1>4. calls["boot"].pc # "loading"
  BY <1>0, <1>1 DEF Orderly, Starts, Busy
<1>5. ASSUME Agreed, UserArrives(c) PROVE Shows'
  <2>1. c = "login"
    BY <1>0, <1>5 DEF UserArrives, Answered, Orderly, Registers
  <2>2. Asked(c)
    <3>1. calls[c].pc = "answered" /\ calls[c].answer = "ok"
      BY <1>5 DEF UserArrives, Answered
    <3>2. calls[c].token \in Pairs
      BY <1>0, <3>1, Parts DEF Named, NamesIn
    <3> QED BY <3>1, <3>2 DEF Asked, AskedIn
  <2>3. header # None => user' = sessionOf[header]
    BY <1>5, <2>2 DEF UserArrives, Agreed, Shows
  <2>4. ~Busy("login")'
    BY <1>2, <2>1 DEF Busy
  <2> QED BY <1>1, <1>3, <1>5, <2>3, <2>4 DEF Agreed, Shows, server
<1>6. ASSUME Agreed, SignInFails(c) PROVE Shows'
  <2>1. user' = user /\ (kept' <=> kept \/ header # None)
    BY <1>6 DEF SignInFails, screen
  <2>2. Free(SignIns)' => Free(SignIns)
    BY <1>1, <1>2 DEF Free, Writes
  <2>3. "login" \in SignIns /\ Busy("login")' => Busy("login")
    BY <1>1, <1>2 DEF Busy
  <2> QED BY <1>1, <1>3, <1>6, <2>1, <2>2, <2>3 DEF Agreed, Shows, server
<1> QED BY <1>0, <1>1, <1>4, <1>5, <1>6, EndConsistent

-----------------------------------------------------------------------------
(* The writes.                                                             *)

LEMMA KeyConsistent ==
  ASSUME SwiftConstants, Consistent, NEW c \in Callers,
         WriteAccess(c) \/ WriteRefresh(c) \/ KeychainFails(c)
  PROVE  Consistent'
<1> USE Names, Screens
<1>0. Careful /\ Orderly /\ Careful'
  BY WriteAccessCareful, WriteRefreshCareful, KeychainFailsCareful DEF Consistent
<1> DEFINE pc == IF calls[c].pc = "access" THEN "refresh" ELSE "header"
           rec == [calls[c] EXCEPT !.pc = pc]
<1>1. /\ rec \in Call /\ rec.pc = pc /\ rec.token = calls[c].token /\ rec.answer = calls[c].answer
      /\ pc \in {"refresh", "header"}
  BY <1>0, MovesOn
<1>2. /\ Put(c, rec) /\ Writes(c) /\ Busy(c) /\ ~Turning(c)
      /\ UNCHANGED <<server, header, inFlight, screen, crossed, kept>> /\ (broken => broken')
  BY DEF WriteAccess, WriteRefresh, KeychainFails, Writes, Busy, Turning, past
<1>3. calls[c].pc \notin {"waiting", "turn"} /\ SameSessions /\ issued' = issued
  BY <1>0, <1>2, UnchangedSessions DEF server, Writes
<1> HIDE DEF rec
<1>4. pc \notin {"loading", "turn", "idle", "sent", "answered"}
  OBVIOUS
<1>5. Orderly'
  <2>1. CASE c = "refresh"
    BY <1>0, <1>1, <1>2, <1>3, <1>4, <2>1, OrderlyTask
  <2>2. CASE c # "refresh"
    <3>1. c # "boot" => ~Busy("boot")
      BY <1>0, <1>2, <2>2 DEF Orderly, Starts
    <3>2. c \in SignIns => rec.token <= issued'
      BY <1>0, <1>1, <1>3 DEF Orderly, Registers
    <3> HIDE DEF pc
    <3> QED BY <1>0, <1>1, <1>2, <1>3, <1>4, <2>2, <3>1, <3>2, OrderlyCall
  <2> QED BY <2>1, <2>2
<1>6. ASSUME Agreed, Quiet' PROVE Agreed'
  <2>1. WriteAccess(c) \/ WriteRefresh(c)
    BY <1>6 DEF KeychainFails, Quiet
  <2>2. rec.pc = "refresh" => stored'.access = rec.token
    BY <1>0, <1>1, <2>1 DEF WriteAccess, WriteRefresh, Pair
  <2>3. rec.pc = "header" => stored' = Held(rec.token)
    <3>1. SUFFICES ASSUME rec.pc = "header" PROVE stored' = Held(rec.token)
      OBVIOUS
    <3>2. calls[c].pc = "refresh" /\ WriteRefresh(c)
      BY <1>1, <2>1, <3>1 DEF WriteAccess, WriteRefresh
    <3>3. stored.access = calls[c].token
      BY <1>2, <1>6, <3>2 DEF Agreed, Follows
    <3>4. stored' \in Pair /\ stored'.access = rec.token /\ stored'.refresh = rec.token
      BY <1>0, <1>1, <3>2, <3>3 DEF WriteRefresh, Pair
    <3> QED BY <3>4, HeldPair
  <2> HIDE DEF pc
  <2> QED BY <1>0, <1>1, <1>2, <1>6, <2>2, <2>3, AgreedKey DEF screen
<1> QED BY <1>0, <1>2, <1>5, <1>6, QuietBefore

LEMMA WriteHeaderConsistent ==
  ASSUME SwiftConstants, Consistent, NEW c \in Callers, WriteHeader(c) PROVE Consistent'
<1> USE Names, Screens, Numbers
<1>0. Careful /\ Orderly /\ Careful'
  BY WriteHeaderCareful DEF Consistent
<1> DEFINE t == calls[c].token
<1>1. /\ calls[c].pc = "header" /\ Writes(c) /\ Busy(c) /\ t \in Tokens /\ header' = t
      /\ UNCHANGED <<server, stored, inFlight, past>>
      /\ isBootstrapping' = (isBootstrapping /\ c # "boot")
  BY <1>0 DEF WriteHeader, Writes, Busy
<1>2. user' = CASE c = "register" -> sessionOf[t]
                [] c \in SignOuts \cup {"boot"} -> None
                [] OTHER -> user
  BY ONLY WriteHeader(c) DEF WriteHeader
<1>3. "register" \notin SignOuts \cup {"boot"}
  BY DEF SwiftConstants
<1>4. PICK rec \in Call :
        /\ Put(c, rec)
        /\ rec = CASE c = "refresh" -> [calls[c] EXCEPT !.pc = "done"]
                   [] c = "login" -> Sent(t, FALSE)
                   [] OTHER -> Idle
  <2>1. CASE c = "refresh"
    <3>1. Put(c, [calls[c] EXCEPT !.pc = "done"])
      BY ONLY <2>1, WriteHeader(c) DEF WriteHeader
    <3> QED BY <1>0, <2>1, <3>1, MovesOn
  <2>2. CASE c = "login"
    <3>1. Put(c, Sent(t, FALSE))
      BY ONLY <2>2, WriteHeader(c) DEF WriteHeader
    <3> QED BY <1>1, <2>2, <3>1, SentRec
  <2>3. CASE c \notin {"refresh", "login"}
    <3>1. Put(c, Idle)
      BY ONLY <2>3, WriteHeader(c) DEF WriteHeader, End
    <3> QED BY <2>3, <3>1, IdleRec
  <2> QED BY <2>1, <2>2, <2>3
<1>5. /\ c = "refresh" => rec.pc = "done"
      /\ c = "login" => rec = Sent(t, FALSE) /\ rec.pc = "sent" /\ rec.token = t
      /\ c \notin {"refresh", "login"} => rec.pc = "idle" /\ rec.token = None
  BY <1>0, <1>1, <1>4, MovesOn, SentRec, IdleRec
<1>6. SameSessions /\ issued' = issued /\ issued \in Nat
  BY <1>0, <1>1, UnchangedSessions, Parts DEF server
<1>7. /\ calls'[c] = rec /\ \A d \in Callers : d # c => calls'[d] = calls[d]
  BY <1>0, <1>4, PutTyped, Parts
<1>8. c \in SignOuts \cup Requests \cup {"boot", "refresh"} \/ c = "login" \/ c = "register"
  BY DEF SwiftConstants
<1>9. "login" \notin Requests \cup SignOuts \cup {"boot", "refresh"}
      /\ "register" \notin Requests \cup SignOuts \cup {"boot", "refresh"}
  BY DEF SwiftConstants
<1>10. Orderly'
  <2>1. CASE c = "refresh"
    <3>1. UNCHANGED screen
      BY <1>0, <1>1, <1>2, <2>1 DEF screen
    <3> QED BY <1>0, <1>1, <1>4, <1>5, <1>6, <2>1, <3>1, OrderlyTask
  <2>2. CASE c # "refresh"
    <3>1. c # "boot" => ~Busy("boot")
      BY <1>0, <1>1, <2>2 DEF Orderly, Starts
    <3>2. c = "boot" => rec.pc = "idle"
      BY <1>5
    <3>3. c \in SignIns => rec.token <= issued'
      <4>1. c \in SignIns => t <= issued
        BY <1>0 DEF Orderly, Registers
      <4>2. None <= issued
        BY <1>6
      <4>3. c # "login" => rec.token = None
        BY <1>5, <2>2
      <4> QED BY <1>5, <1>6, <4>1, <4>2, <4>3
    <3>4. c = "register" => rec.pc = "idle"
      BY <1>5
    <3>5. rec.pc \in {"idle", "sent"} /\ calls[c].pc \notin {"waiting", "turn"}
      BY <1>1, <1>5, <2>2
    <3> QED BY <1>0, <1>1, <1>4, <1>6, <2>2, <3>1, <3>2, <3>3, <3>4, <3>5, OrderlyCall
  <2> QED BY <2>1, <2>2
<1>11. ASSUME Agreed PROVE Shows'
  <2>1. \A d \in SignIns : d # c => /\ Asked(d)' <=> Asked(d)
                                    /\ Awaits(d)' <=> Awaits(d)
                                    /\ calls'[d] = calls[d]
    BY <1>7 DEF Asked, Awaits
  <2>2. c \in Main => \A d \in SignIns \ {c} : ~Busy(d) /\ ~Busy(d)' /\ ~Asked(d)
    <3>1. c \in Main => \A d \in SignIns \ {c} : ~Busy(d)
      BY <1>0, <1>1, <1>11, Alone
    <3> QED BY <1>7, <3>1 DEF Busy, Asked, AskedIn
  <2>3. CASE c = "login"
    <3>1. c \in SignIns
      BY <1>9, <2>3
    <3>2. user' = None
      BY <1>1, <1>2, <1>3, <1>9, <1>11, <2>3, <3>1 DEF Agreed, Shows
    <3>3. t \in Pairs
      BY <1>0, <1>1, <3>1, Parts DEF Named, NamesIn
    <3>4. Asked(c)' /\ Awaits(c)'
      BY <1>5, <1>7, <2>3, <3>3 DEF Asked, Awaits, AskedIn, AwaitsIn
    <3>5. \A d \in SignIns : Asked(d)' => d = c
      BY <2>1, <2>2, <3>1
    <3> QED BY <1>1, <1>5, <1>7, <2>3, <3>1, <3>2, <3>4, <3>5 DEF Shows
  <2>4. CASE c = "register"
    <3>1. c \in SignIns
      BY <1>9, <2>4
    <3>2. user' = sessionOf'[header']
      <4>1. user' = sessionOf[t]
        BY ONLY <1>2, <1>3, <2>4
      <4>2. sessionOf' = sessionOf /\ header' = t
        BY <1>1 DEF server
      <4> QED BY <4>1, <4>2
    <3>3. \A d \in SignIns : ~Asked(d)'
      BY <1>5, <1>7, <2>1, <2>2, <2>4, <3>1 DEF Asked, AskedIn
    <3>4. ~("login" \in SignIns /\ Busy("login")')
      BY <2>2, <2>4, <3>1
    <3> QED BY <3>2, <3>3, <3>4 DEF Shows
  <2>5. CASE c = "refresh"
    <3>1. user' = user
      BY <1>2, <2>5
    <3>2. header # None /\ sessionOf'[header'] = sessionOf[header]
      <4>1. header \in Pairs
        BY <1>0, <1>1, <1>11, <2>5, Alone
      <4> QED BY <1>1, <1>11, <2>5, <4>1 DEF Agreed, Renews, server
    <3>3. Free(SignIns)' => Free(SignIns)
      BY <1>7, <2>5 DEF Free, Writes
    <3>4. Busy("boot")' <=> Busy("boot")
      BY <1>7, <2>5 DEF Busy
    <3>5. "login" \in SignIns => (Busy("login")' <=> Busy("login"))
      BY <1>7, <2>5 DEF Busy
    <3>6. \A d \in SignIns : /\ Asked(d)' <=> Asked(d)
                             /\ Awaits(d)' <=> Awaits(d)
                             /\ calls'[d] = calls[d]
      BY <2>1, <2>5
    <3>7. kept' = kept /\ sessionOf' = sessionOf
      BY <1>1 DEF past, server
    <3> QED BY <1>11, <3>1, <3>2, <3>3, <3>4, <3>5, <3>6, <3>7 DEF Agreed, Shows
  <2>6. CASE c \in SignOuts \cup Requests \cup {"boot"}
    <3>1. header' = None /\ c \notin SignIns
      BY <1>1, <1>11, <2>6 DEF Agreed, Follows, Rest
    <3>2. user' \in {None, user}
      BY <1>2, <1>9, <2>6
    <3>3. "login" \in SignIns => (Busy("login")' <=> Busy("login"))
      BY <1>7, <3>1 DEF Busy
    <3> QED BY <1>11, <3>1, <3>2, <3>3 DEF Agreed, Shows
  <2> QED BY <1>8, <2>3, <2>4, <2>5, <2>6
<1>12. Agreed => Agreed'
  <2>1. rec.pc \in {"idle", "sent", "done"} /\ (c = "boot" => rec.pc = "idle")
    BY <1>5
  <2> QED BY <1>0, <1>4, <1>5, <1>11, <2>1, AgreedHeader
<1> QED BY <1>0, <1>1, <1>10, <1>12, QuietBefore DEF past

-----------------------------------------------------------------------------
(* The steps of the refresh, and the end of the program.                   *)

\* Whoever begins a refresh spends the token of the header.
LEMMA BeginConsistent ==
  ASSUME SwiftConstants, Consistent, NEW c \in Performed, Begin(c) PROVE Consistent'
<1> USE Names, Screens, Numbers
<1>0. /\ Careful /\ Orderly /\ Careful'
      /\ c \in Callers /\ c # "refresh" /\ c \notin SignIns /\ c \notin Main
  BY BeginCareful, Performers DEF Consistent, Main
<1>1. /\ calls[c].pc = "answered" /\ Busy(c) /\ Free(Coordinator) /\ inFlight = NoneInFlight
      /\ stored.access # None /\ stored.refresh # None
      /\ crossed' = (crossed \/ ~Free(Main))
      /\ UNCHANGED <<server, header, stored, screen, broken, kept>>
  BY DEF Begin, Refused, Answered, Busy, Restorable
<1>2. inFlight'.by = c /\ inFlight'.spends = stored.refresh /\ inFlight'.end = "none"
  BY DEF Begin
<1>3. /\ calls'[c].pc = "waiting" /\ calls'["refresh"] = Sent(None, FALSE)
      /\ \A d \in Callers \ {c, "refresh"} : calls'[d] = calls[d]
  <2>1. /\ calls' = [calls EXCEPT ![c].pc = "waiting", !["refresh"] = Sent(None, FALSE)]
        /\ calls[c] \in Call
    BY <1>0, Parts DEF Begin
  <2> QED BY <1>0, <2>1 DEF Call
<1>4. calls'["refresh"].pc = "sent"
  BY <1>3, SentRec
<1>5. SameSessions
  BY <1>0, <1>1, UnchangedSessions DEF server
<1>6. \A d \in Callers : ~Writes(d) => ~Writes(d)'
  BY <1>3, <1>4 DEF Writes
<1>7. \A d \in Callers : Turning(d)' => Turning(d) /\ calls'[d] = calls[d]
  BY <1>3, <1>4 DEF Turning
<1>8. calls["boot"].pc # "loading" /\ calls'["boot"].pc # "loading" /\ (Busy("boot")' <=> Busy("boot"))
  BY <1>0, <1>1, <1>3 DEF Orderly, Starts, Busy
<1>9. \A d \in SignIns : calls'[d] = calls[d]
  BY <1>0, <1>3
<1>10. Orderly'
  <2>1. Starts'
    <3>1. ASSUME Busy("boot") PROVE \A d \in Callers \ {"boot", "refresh"} : ~Busy(d)'
      <4>1. c = "boot"
        BY <1>0, <1>1, <3>1 DEF Orderly, Starts
      <4> QED BY <1>0, <1>3, <3>1, <4>1 DEF Orderly, Starts, Busy
    <3> QED BY <1>0, <1>1, <1>8, <3>1 DEF Orderly, Starts, screen
  <2>2. Flies'
    <3>1. inFlight' # NoneInFlight
      BY <1>1, <1>2 DEF NoneInFlight
    <3> QED BY <1>0, <1>2, <1>3, <1>7, <3>1 DEF Orderly, Flies
  <2>3. Single'
    BY <1>1, <1>6 DEF Single, Free
  <2>4. Registers'
    BY <1>0, <1>1, <1>9 DEF Orderly, Registers, Answered, server
  <2> QED BY <1>5, <2>1, <2>2, <2>3, <2>4 DEF Orderly, SameSessions
<1>11. ASSUME Agreed, Quiet' PROVE Agreed'
  <2>1. Free(Main) /\ Free(Callers)
    BY <1>1, <1>11 DEF Quiet, Free, Callers
  <2>2. stored = Held(header) /\ stored.refresh = header /\ header # None
    <3>1. stored = Held(header)
      BY <1>8, <1>11, <2>1 DEF Agreed, Settled
    <3> QED BY <1>1, <3>1 DEF Held
  <2>3. ~Failing
    BY <1>1, <1>11, <2>2 DEF Agreed, Clears
  <2>4. \A d \in Callers : ~Writes(d)'
    BY <1>6, <2>1 DEF Free
  <2>5. Apart' /\ Follows'
    BY <2>4 DEF Apart, Follows, Free
  <2>6. Clears'
    <3>1. ~Failing'
      BY <1>7, <2>3 DEF Failing
    <3> QED BY <2>4, <3>1 DEF Clears
  <2>7. Settled'
    BY <1>1, <2>2 DEF Settled, Held
  <2>8. Renews'
    BY <1>1, <1>2, <1>4, <2>2 DEF Renews, Writes, Answered
  <2>9. Shows'
    <3>1. Free(SignIns)' => Free(SignIns)
      BY <1>9 DEF Free, Writes
    <3>2. \A d \in SignIns : (Asked(d)' <=> Asked(d)) /\ (Awaits(d)' <=> Awaits(d))
                             /\ (Busy(d)' <=> Busy(d))
      BY <1>9 DEF Asked, Awaits, Busy
    <3>3. UNCHANGED <<header, user, kept, sessionOf>>
      BY <1>1 DEF screen, server
    <3> QED BY <1>8, <1>9, <1>11, <3>1, <3>2, <3>3 DEF Agreed, Shows
  <2>10. Restores'
    BY <1>1, <1>3, <1>11 DEF Agreed, Restores, Answered
  <2> QED BY <1>1, <1>11, <2>5, <2>6, <2>7, <2>8, <2>9, <2>10 DEF Agreed, server
<1> QED BY <1>0, <1>1, <1>10, <1>11, QuietBefore

\* The backend answers the refresh, or does not.
LEMMA RefreshAnswered ==
  ASSUME SwiftConstants, Consistent, Careful', calls["refresh"].pc = "sent", SameSessions,
         NEW rec \in Call, Put("refresh", rec), rec.pc = "answered",
         UNCHANGED <<header, stored, inFlight, screen, crossed, broken, kept>>,
         Agreed /\ rec.answer = "pair" =>
           rec.token \in Pairs /\ rec.token <= issued' /\ sessionOf'[rec.token] = sessionOf[header]
  PROVE  Consistent'
<1> USE Names, Screens
<1>0. Careful /\ Orderly
  BY DEF Consistent
<1>1. /\ calls'["refresh"] = rec /\ \A d \in Callers : d # "refresh" => calls'[d] = calls[d]
  BY <1>0, PutTyped, Parts
<1>2. Busy("refresh") /\ Busy("refresh")' /\ ~Writes("refresh")
  BY <1>1 DEF Busy, Writes
<1>3. Orderly'
  BY <1>0, <1>2, OrderlyTask
<1>4. ASSUME Agreed PROVE Agreed'
  <2>1. \A d \in Callers : (Writes(d)' <=> Writes(d)) /\ (Turning(d)' <=> Turning(d))
                           /\ (Busy(d)' <=> Busy(d))
    BY <1>1, <1>2 DEF Writes, Turning, Busy
  <2>2. Apart'
    <3>1. Acting' => Acting
      BY <2>1 DEF Acting
    <3> QED BY <1>4, <2>1, <3>1 DEF Agreed, Apart, Free
  <2>3. Clears'
    <3>1. Failing' => Failing
      BY <1>1, <2>1, Performers DEF Failing
    <3>2. Free(Coordinator)' <=> Free(Coordinator)
      BY <2>1 DEF Free
    <3> QED BY <1>4, <2>1, <3>1, <3>2 DEF Agreed, Clears
  <2>4. Follows'
    BY <1>1, <1>2, <1>4, <2>1 DEF Agreed, Follows
  <2>5. Settled'
    <3>1. \A d \in Callers : calls'[d].pc = "refresh" <=> calls[d].pc = "refresh"
      BY <1>1
    <3>2. Free(Callers)' <=> Free(Callers)
      BY <2>1 DEF Free
    <3> QED BY <1>1, <1>4, <3>1, <3>2 DEF Agreed, Settled
  <2>6. header # None => sessionOf'[header] = sessionOf[header]
    BY <1>0, <1>4, SameSession DEF Agreed
  <2>7. inFlight.spends = header /\ header # None
    BY <1>0, <1>4, Parts, Numbers DEF Agreed, Renews, Led
  <2>8. Renews'
    BY <1>1, <1>2, <1>4, <2>1, <2>6, <2>7 DEF Renews, Answered
  <2>9. Shows'
    BY <1>0, <1>4, ShowsCall DEF screen
  <2>10. Restores'
    BY <1>1, <1>4 DEF Agreed, Restores, Answered
  <2>11. header' <= issued'
    BY <1>0, <1>4, SameSession DEF Agreed
  <2> QED BY <2>2, <2>3, <2>4, <2>5, <2>8, <2>9, <2>10, <2>11 DEF Agreed
<1> QED BY <1>0, <1>3, <1>4, QuietBefore

LEMMA RotateConsistent ==
  ASSUME SwiftConstants, Consistent, NEW answered \in BOOLEAN, Rotate(answered) PROVE Consistent'
<1> USE Names, Screens, Numbers
<1> DEFINE s == inFlight.spends
<1>0. Careful /\ Orderly /\ Careful'
  BY RotateCareful DEF Consistent
<1>1. /\ calls["refresh"].pc = "sent" /\ Spend(s)
      /\ UNCHANGED <<header, stored, inFlight, screen, crossed, broken, kept>>
  BY DEF Rotate, past
<1>2. s \in Pairs /\ s <= issued
  BY <1>0, <1>1, Parts DEF Led, held
<1>3. SameSessions
  BY <1>0, <1>1, <1>2, ServerSessions
<1>4. sessionOf[s] \in Tokens /\ sessionOf[s] # None
  BY <1>0, <1>2, Parts DEF Orderly, Rooted, ServiceTyped, Tokens
<1>5. Issue(sessionOf[s])
  BY <1>1 DEF Spend
<1>6. issued' = issued + 1 /\ issued + 1 \in Pairs /\ issued \in Nat
  BY <1>0, <1>4, <1>5, IssueTyped, Parts
<1>7. sessionOf'[issued + 1] = sessionOf[s]
  BY <1>0, <1>4, <1>5, <1>6, Parts DEF Issue, ServiceTyped
<1>8. Agreed => s = header
  BY <1>1 DEF Agreed, Renews
<1>9. CASE answered
  <2> DEFINE n == issued + 1
  <2>1. n \in Tokens /\ Answer("refresh", "pair", n)
    BY <1>6, <1>9 DEF Rotate
  <2>2. n \in Pairs /\ n <= issued' /\ sessionOf'[n] = sessionOf[s]
    BY <1>6, <1>7
  <2> HIDE DEF n
  <2>3. PICK rec \in Call : /\ Put("refresh", rec) /\ rec.pc = "answered"
                            /\ rec.answer = "pair" /\ rec.token = n
    BY ONLY SwiftConstants, <1>0, <2>1, AnsweredRefresh
  <2> QED BY <1>0, <1>1, <1>3, <1>8, <2>2, <2>3, RefreshAnswered
<1>10. CASE ~answered
  <2>1. Answer("refresh", "failed", None)
    BY <1>10 DEF Rotate
  <2>2. PICK rec \in Call : Put("refresh", rec) /\ rec.pc = "answered" /\ rec.answer = "failed"
    BY <1>0, <2>1, AnsweredRefresh
  <2> QED BY <1>0, <1>1, <1>3, <2>2, RefreshAnswered
<1> QED BY <1>9, <1>10

LEMMA RefusedConsistent ==
  ASSUME SwiftConstants, Consistent, RefuseRefresh \/ CallFails("refresh") PROVE Consistent'
<1> USE Names, Screens, Numbers
<1>0. Careful /\ Orderly /\ Careful'
  BY RefuseRefreshCareful, RefreshUnanswered DEF Consistent
<1>1. /\ calls["refresh"].pc = "sent" /\ UNCHANGED <<issued, sessionOf>>
      /\ UNCHANGED <<header, stored, inFlight, screen, crossed, broken, kept>>
      /\ Answer("refresh", "refused", None) \/ Answer("refresh", "failed", None)
  BY DEF RefuseRefresh, Punish, CallFails, server, past
<1>2. PICK rec \in Call : Put("refresh", rec) /\ rec.pc = "answered" /\ rec.answer # "pair"
  BY <1>0, <1>1, AnsweredRefresh
<1>3. SameSessions
  BY <1>0, <1>1, UnchangedSessions
<1> QED BY <1>0, <1>1, <1>2, <1>3, RefreshAnswered

\* The task ends, and its callers are woken.
LEMMA WakeConsistent ==
  ASSUME SwiftConstants, Consistent, Refreshed \/ RefreshFails PROVE Consistent'
<1> USE Names, Screens
<1>0. Careful /\ Orderly /\ Careful'
  BY EndsCareful DEF Consistent
<1>1. PICK end \in {"ok", "failed"} : Wake(end)
  BY DEF Refreshed, RefreshFails
<1>2. /\ Busy("refresh") /\ Free(Coordinator) /\ (crossed => crossed')
      /\ UNCHANGED <<server, header, stored, screen, broken, kept>>
  <2>1. CASE Refreshed
    BY <2>1 DEF Refreshed, Busy, past
  <2>2. CASE RefreshFails
    BY <2>2 DEF RefreshFails, Busy, Answered
  <2> QED BY <2>1, <2>2
<1>3. /\ calls'["refresh"] = Idle
      /\ \A d \in Callers \ {"refresh"} :
           \/ calls[d].pc # "waiting" /\ calls'[d] = calls[d]
           \/ /\ calls[d].pc = "waiting" /\ calls'[d].pc = "turn"
              /\ calls'[d].answer = end /\ calls'[d].token = calls[d].token
  <2>1. \A d \in Callers : calls[d] \in Call
    BY <1>0, Parts
  <2>2. \A d \in Callers : calls'[d] =
          IF d = "refresh" THEN Idle
          ELSE IF calls[d].pc = "waiting" THEN [calls[d] EXCEPT !.pc = "turn", !.answer = end]
          ELSE calls[d]
    BY <1>1 DEF Wake
  <2>3. \A d \in Callers : calls[d].pc = "waiting" =>
          LET woken == [calls[d] EXCEPT !.pc = "turn", !.answer = end]
          IN  woken.pc = "turn" /\ woken.answer = end /\ woken.token = calls[d].token
    BY <2>1 DEF Call
  <2>4. calls'["refresh"] = Idle
    BY <2>2
  <2>5. ASSUME NEW d \in Callers \ {"refresh"}, calls[d].pc = "waiting"
        PROVE  /\ calls'[d].pc = "turn" /\ calls'[d].answer = end
               /\ calls'[d].token = calls[d].token
    BY <2>2, <2>3, <2>5
  <2>6. ASSUME NEW d \in Callers \ {"refresh"}, calls[d].pc # "waiting"
        PROVE  calls'[d] = calls[d]
    BY <2>2, <2>6
  <2> QED BY <2>4, <2>5, <2>6
<1>4. calls'["refresh"].pc = "idle"
  BY <1>3, IdleRec
<1>5. /\ inFlight'.by = inFlight.by /\ inFlight'.end = end /\ inFlight' # NoneInFlight
      /\ inFlight # NoneInFlight /\ inFlight.end = "none" /\ inFlight.by \in Performed
      /\ calls[inFlight.by].pc = "waiting"
  <2>1. inFlight # NoneInFlight /\ inFlight.end = "none" /\ inFlight.by \in Performed
        /\ calls[inFlight.by].pc = "waiting"
    BY <1>0, <1>2 DEF Orderly, Flies
  <2>2. inFlight' = [inFlight EXCEPT !.end = end] /\ inFlight \in Flight
    BY <1>0, <1>1, Parts DEF Wake, ClientTyped
  <2>3. inFlight'.by = inFlight.by /\ inFlight'.end = end
    BY <2>2 DEF Flight
  <2> QED BY <2>1, <2>3 DEF NoneInFlight
<1>6. SameSessions
  BY <1>0, <1>2, UnchangedSessions DEF server
<1>7. \A d \in Callers : Writes(d)' => Writes(d) /\ calls'[d] = calls[d]
  BY <1>3, <1>4 DEF Writes
<1>8. \A d \in Callers \ {"refresh"} : Busy(d)' <=> Busy(d)
  BY <1>3 DEF Busy
<1>9. Orderly'
  <2>1. Starts'
    <3>1. calls'["boot"].pc = "loading" => calls["boot"].pc = "loading"
      BY <1>3
    <3>2. calls["boot"].pc # "loading"
      BY <1>0, <1>5 DEF Orderly, Starts
    <3>3. UNCHANGED <<user, isBootstrapping>>
      BY <1>2 DEF screen
    <3> QED BY <1>0, <1>8, <3>1, <3>2, <3>3 DEF Orderly, Starts
  <2>2. Flies'
    <3>1. Turning(inFlight.by)' /\ calls'[inFlight.by].answer = end
      BY <1>3, <1>5, Performers DEF Turning
    <3>2. \A d \in Callers : Turning(d)' => calls'[d].answer \in {"ok", "failed"}
      BY <1>0, <1>3, <1>4 DEF Orderly, Flies, Turning
    <3> QED BY <1>4, <1>5, <3>1, <3>2 DEF Flies, Busy, Turning
  <2>3. Single'
    BY <1>2, <1>7 DEF Single, Free
  <2>4. Registers'
    BY <1>0, <1>2, <1>3 DEF Orderly, Registers, Answered, server
  <2> QED BY <1>6, <2>1, <2>2, <2>3, <2>4 DEF Orderly, SameSessions
<1>10. ASSUME Agreed PROVE Agreed'
  <2>1. Free(Main) /\ Free(Callers)
    BY <1>2, <1>5, <1>10 DEF Agreed, Apart, Acting, Free, Callers
  <2>2. \A d \in Callers : ~Writes(d)'
    BY <1>7, <2>1 DEF Free
  <2>3. Apart' /\ Follows'
    BY <2>2 DEF Apart, Follows, Free
  <2>4. Clears'
    <3>1. ~Failing
      BY <1>5, <1>10 DEF Agreed, Clears
    <3>2. Failing' => end = "failed"
      BY <1>3, <3>1, Performers DEF Failing, Turning
    <3> QED BY <1>5, <2>2, <3>2 DEF Clears
  <2>5. Settled'
    <3>1. \A d \in Callers : calls[d].pc # "refresh"
      BY <2>1 DEF Free, Writes
    <3>2. calls["boot"].pc = "loading" => calls'["boot"].pc = "loading"
      BY <1>3
    <3> QED BY <1>2, <1>10, <2>1, <3>1, <3>2 DEF Agreed, Settled
  <2>6. Renews'
    BY <1>4 DEF Renews, Writes, Answered
  <2>7. Shows'
    <3>1. Free(SignIns)
      BY <2>1 DEF Free
    <3>2. \A d \in SignIns : /\ Asked(d)' => Asked(d) /\ calls'[d].token = calls[d].token
                             /\ Awaits(d) => Awaits(d)'
                             /\ Busy(d)' <=> Busy(d)
      <4>1. \A d \in SignIns : (calls'[d].pc = "turn" /\ calls[d].pc = "waiting") \/ calls'[d] = calls[d]
        BY <1>3
      <4> QED BY <4>1 DEF Asked, AskedIn, Awaits, AwaitsIn, Busy
    <3>3. UNCHANGED <<header, user, kept, sessionOf>> /\ (Busy("boot")' <=> Busy("boot"))
      BY <1>2, <1>8 DEF screen, server
    <3> QED BY <1>10, <3>1, <3>2, <3>3 DEF Agreed, Shows
  <2>8. Restores'
    BY <1>2, <1>3, <1>10 DEF Agreed, Restores, Answered
  <2> QED BY <1>2, <1>10, <2>3, <2>4, <2>5, <2>6, <2>7, <2>8 DEF Agreed, server
<1> QED BY <1>0, <1>2, <1>9, <1>10, QuietBefore

\* A kill between the two keys is one that broke the pair.
LEMMA KillConsistent == ASSUME SwiftConstants, Consistent, Kill PROVE Consistent'
<1> USE Names, Screens, Numbers
<1>0. Careful /\ Orderly /\ Careful'
  BY KillCareful DEF Consistent
<1>1. /\ header' = None /\ user' = None /\ isBootstrapping' /\ inFlight' = NoneInFlight
      /\ broken' = (broken \/ \E c \in Callers : calls[c].pc = "refresh")
      /\ UNCHANGED <<server, stored, crossed>>
  BY DEF Kill
<1>2. /\ calls'["boot"].pc = "loading" /\ calls'["boot"].token = None
      /\ \A c \in Callers \ {"boot"} : calls'[c].pc = "idle" /\ calls'[c].token = None
  BY DEF Kill, Starting, Idle
<1>3. SameSessions /\ issued' = issued /\ issued \in Nat
  BY <1>0, <1>1, UnchangedSessions, Parts DEF server
<1>4. \A c \in Callers : ~Writes(c)' /\ ~Turning(c)'
  BY <1>2 DEF Writes, Turning
<1>5. Orderly'
  <2>1. Starts' /\ Flies' /\ Single'
    BY <1>1, <1>2, <1>4 DEF Starts, Flies, Single, Busy
  <2>2. Registers'
    BY <1>2, <1>3 DEF Registers, Answered
  <2> QED BY <1>3, <2>1, <2>2 DEF Orderly, SameSessions
<1>6. ASSUME Agreed, Quiet' PROVE Agreed'
  <2>1. stored.access = stored.refresh
    BY <1>1, <1>6 DEF Quiet, Agreed, Settled
  <2>2. Apart' /\ Clears' /\ Follows'
    BY <1>4 DEF Apart, Clears, Failing, Follows, Free
  <2>3. Settled' /\ Renews' /\ Restores'
    BY <1>1, <1>2, <1>4, <2>1 DEF Settled, Renews, Restores, Answered
  <2>4. Shows'
    BY <1>1 DEF Shows
  <2> QED BY <1>1, <1>3, <2>2, <2>3, <2>4 DEF Agreed
<1> QED BY <1>0, <1>1, <1>5, <1>6, QuietBefore

-----------------------------------------------------------------------------
(* The theorem.                                                            *)

LEMMA InitConsistent == ASSUME SwiftConstants, Init PROVE Consistent
<1> USE Names, Numbers
<1>1. Careful
  BY InitCareful
<1>2. /\ issued = 0 /\ header = None /\ user = None /\ isBootstrapping /\ inFlight = NoneInFlight
      /\ stored.access = None /\ stored.refresh = None
  BY DEF Init, NothingIssued, Empty
<1>3. /\ calls["boot"].pc = "loading" /\ calls["boot"].token = None
      /\ \A c \in Callers \ {"boot"} : calls[c].pc = "idle" /\ calls[c].token = None
  BY DEF Init, Starting, Idle
<1>4. \A c \in Callers : ~Writes(c) /\ ~Turning(c)
  BY <1>3 DEF Writes, Turning
<1>5. Orderly
  <2>1. Rooted
    BY <1>2 DEF Rooted, Pairs
  <2>2. Starts /\ Flies /\ Single /\ Registers
    BY <1>2, <1>3, <1>4 DEF Starts, Flies, Single, Registers, Busy, Answered
  <2> QED BY <2>1, <2>2 DEF Orderly
<1>6. Agreed
  <2>1. Apart /\ Clears /\ Follows
    BY <1>4 DEF Apart, Clears, Failing, Follows, Free
  <2>2. Settled /\ Renews /\ Restores /\ Shows
    BY <1>2, <1>3, <1>4 DEF Settled, Renews, Restores, Shows, Answered, Busy
  <2> QED BY <1>2, <2>1, <2>2 DEF Agreed
<1> QED BY <1>1, <1>5, <1>6 DEF Consistent

LEMMA StepConsistent ==
  ASSUME SwiftConstants, Consistent, NEW c \in Callers, Step(c) PROVE Consistent'
<1>1. CASE c # "refresh" /\ (Accept(c) \/ Refuse(c) \/ CallFails(c))
  BY <1>1, AnswersConsistent
<1>2. CASE c = "refresh" /\ (Accept(c) \/ Refuse(c) \/ CallFails(c))
  BY <1>2, RefusedConsistent DEF Accept, Refuse
<1>3. CASE WriteAccess(c) \/ WriteRefresh(c) \/ WriteHeader(c)
  BY <1>3, KeyConsistent, WriteHeaderConsistent
<1>4. CASE c \in Performed /\ (Await(c) \/ Begin(c) \/ BeginNothing(c) \/ TakeTurn(c))
  BY <1>4, AwaitConsistent, BeginConsistent, StartsWriting, TurnConsistent
<1>5. CASE c = "boot" /\ (RestoreNothing \/ RestoreTokens \/ BootSucceeds \/ BootUndecided \/ BootRefused)
  BY <1>5, RestoreTokensConsistent, BootConsistent, StartsWriting
<1>6. CASE c \in SignIns /\ (SignInSucceeds(c) \/ UserArrives(c) \/ SignInFails(c))
  BY <1>6, Names, TakesConsistent, SignInEndsConsistent
<1>7. CASE c \in SignOuts /\ SignOutClears(c)
  BY <1>7, Names, TakesConsistent
<1> QED BY <1>1, <1>2, <1>3, <1>4, <1>5, <1>6, <1>7 DEF Step

LEMMA NextConsistent == ASSUME SwiftConstants, Consistent, [Next]_vars PROVE Consistent'
<1> USE Names
<1>1. CASE UNCHANGED vars
  <2>1. Careful'
    BY NextCareful DEF Consistent
  <2>2. UNCHANGED <<issued, sessionOf, header, stored, inFlight, calls, user, isBootstrapping,
                    crossed, broken, kept>>
    BY <1>1 DEF vars, server, screen, past
  <2>3. Orderly'
    BY <2>2 DEF Consistent, Orderly, Rooted, Starts, Flies, Single, Registers, Busy, Turning, Writes,
                Answered
  <2>4. Agreed => Agreed'
    <3>1. (Failing' <=> Failing) /\ (Acting' <=> Acting)
      BY <2>2 DEF Failing, Acting, Turning, Writes
    <3>2. Apart /\ Clears => Apart' /\ Clears'
      BY <2>2, <3>1 DEF Apart, Clears, Writes, Busy, Free
    <3>3. Follows /\ Settled /\ Renews /\ Restores => Follows' /\ Settled' /\ Renews' /\ Restores'
      BY <2>2 DEF Follows, Settled, Renews, Restores, Writes, Answered, Free
    <3>4. Shows => Shows'
      BY <2>2 DEF Shows, Free, Writes, Busy, Asked, Awaits
    <3> QED BY <2>2, <3>2, <3>3, <3>4 DEF Agreed
  <2> QED BY <2>1, <2>2, <2>3, <2>4, QuietBefore
<1>2. CASE Refreshes
  BY <1>2, RotateConsistent, RefusedConsistent, StartsWriting, WakeConsistent DEF Refreshes
<1>3. CASE Asks
  BY <1>3, AsksConsistent
<1>4. CASE Goes
  <2>1. ASSUME NEW c \in Callers, AnswerLost(c) PROVE Consistent'
    <3>1. c # "refresh"
      BY <2>1 DEF AnswerLost, Main
    <3> QED BY <2>1, <3>1, AnswersConsistent
  <2> QED BY <1>4, <2>1, KeyConsistent, RotateConsistent, KillConsistent DEF Goes
<1>5. CASE \E c \in Callers : Step(c)
  BY <1>5, StepConsistent
<1> QED BY <1>1, <1>2, <1>3, <1>4, <1>5 DEF Next, Works

\* At rest the header, the Keychain and the screen of the Swift application agree
\* on one session, or on none (SessionStore.swift:31-67, 78-112), whatever signs
\* in and out, is refreshed and is killed, unless changes of the tokens
\* overlapped, a write of the Keychain failed, or a kill left two different keys.
THEOREM SwiftKeepsOneSession == ASSUME SwiftConstants PROVE Spec => []OneSession
<1>1. Init => Consistent
  BY InitConsistent
<1>2. Consistent /\ [Next]_vars => Consistent'
  BY NextConsistent
<1>3. Consistent => OneSession
  <2>1. SUFFICES ASSUME Consistent, AtRest, ~crossed, ~broken
                 PROVE  /\ stored = Held(header)
                        /\ header # None => user = sessionOf[header] \/ (user = None /\ kept)
    BY DEF OneSession
  <2>2. Agreed
    BY <2>1 DEF Consistent, Quiet
  <2>3. /\ \A c \in Callers : calls[c].pc = "idle"
        /\ "boot" \in Callers /\ SignIns \subseteq Callers
    BY <2>1, Names DEF AtRest, Busy
  <2>4. Free(Callers) /\ Free(SignIns) /\ ~Busy("boot") /\ \A c \in SignIns : ~Awaits(c)
    BY <2>3 DEF Free, Writes, Busy, Awaits, AwaitsIn, AskedIn
  <2> QED BY <2>2, <2>3, <2>4 DEF Agreed, Settled, Shows
<1> QED BY <1>1, <1>2, <1>3, PTL DEF Spec
-----------------------------------------------------------------------------
(* Work is bounded, and until rest some of it is ready.                    *)

\* How far a call is from its end, at most, in jobs and answers.  A login asks for
\* the user after it has stored its pair.
SignInRank(call) ==
  CASE call.pc = "idle"     -> 0
    [] call.pc = "answered" -> IF call.answer = "pair" THEN 6 ELSE 1
    [] call.pc = "sent"     -> IF call.token = None THEN 7 ELSE 2
    [] call.pc = "header"   -> 3
    [] call.pc = "refresh"  -> 4
    [] call.pc = "access"   -> 5

CallRank(call) ==
  CASE call.pc = "idle"     -> 0
    [] call.pc = "done"     -> 1
    [] call.pc = "header"   -> 2
    [] call.pc = "refresh"  -> 3
    [] call.pc = "access"   -> 4
    [] call.pc = "answered" -> IF call.answer = "refused" /\ ~call.retried THEN 9 ELSE 5
    [] call.pc = "sent"     -> IF call.retried THEN 6 ELSE 10
    [] call.pc = "turn"     -> 7
    [] call.pc = "waiting"  -> 8
    [] call.pc = "loading"  -> 11

Rank(c, call) == IF c \in SignIns THEN SignInRank(call) ELSE CallRank(call)

\* Where a call of each kind can be.
StagedAt(c, call) ==
  /\ call.pc \in {"waiting", "turn"} => c \in Performed
  /\ call.pc = "loading" => c = "boot"
  /\ call.pc = "done" => c = "refresh"
  /\ call.pc = "answered" =>
       /\ c \in Requests => call.answer = "refused" /\ ~call.retried
       /\ c = "boot" => call.answer \in {"ok", "refused", "failed"}
       /\ c \in SignIns => call.answer \in {"ok", "pair", "refused", "failed"}

\* Whoever waits, waits for a task that is under way.
Staged ==
  /\ \A c \in Callers : StagedAt(c, calls[c])
  /\ \A c \in Callers : calls[c].pc = "waiting" => inFlight # NoneInFlight /\ inFlight.end = "none"
  /\ inFlight # NoneInFlight /\ inFlight.end = "none" => Busy("refresh")

\* Call c comes nearer to its end.
Nears(c, call) == Busy(c) /\ Rank(c, call) < Rank(c, calls[c]) /\ StagedAt(c, call)

LEMMA RankType ==
  ASSUME NEW c, NEW call \in Call, StagedAt(c, call), SwiftConstants
  PROVE  Rank(c, call) \in 0..11
<1>1. CASE c \notin SignIns
  BY <1>1 DEF Rank, CallRank, Call
<1>2. CASE c \in SignIns
  <2>1. call.pc \in {"idle", "sent", "answered", "access", "refresh", "header"}
    <3>1. c \notin Performed /\ c # "boot" /\ c # "refresh"
      BY <1>2, Names DEF Performed
    <3> QED BY <3>1 DEF Call, StagedAt
  <2>2. SignInRank(call) \in 0..11
    BY <2>1 DEF SignInRank
  <2> QED BY <1>2, <2>2 DEF Rank
<1> QED BY <1>1, <1>2

LEMMA AnswerNears ==
  ASSUME SwiftConstants, Careful, NEW c \in Callers, NEW a \in {"ok", "pair", "refused", "failed"}, NEW t \in Tokens,
         Answer(c, a, t), calls[c].pc = "sent",
         c \in Requests => a = "refused" /\ ~calls[c].retried,
         c = "boot" => a # "pair",
         c \in SignIns => (a = "pair" => calls[c].token = None)
  PROVE  Nears(c, calls'[c]) /\ calls'[c].pc = "answered"
<1>1. /\ calls'[c].pc = "answered" /\ calls'[c].answer = a /\ calls'[c].retried = calls[c].retried
  BY Parts DEF ClientTyped, Call, Answer, Put
<1>2. StagedAt(c, calls'[c])
  BY <1>1, Names DEF StagedAt
<1>3. CASE c \in SignIns
  <2>1. SignInRank(calls[c]) = IF calls[c].token = None THEN 7 ELSE 2
    BY DEF SignInRank
  <2>2. SignInRank(calls'[c]) = IF a = "pair" THEN 6 ELSE 1
    BY <1>1 DEF SignInRank
  <2>3. Rank(c, calls'[c]) < Rank(c, calls[c])
    BY <1>3, <2>1, <2>2 DEF Rank
  <2> QED BY <1>1, <1>2, <2>3 DEF Nears, Busy
<1>4. CASE c \notin SignIns
  <2>1. CallRank(calls[c]) = IF calls[c].retried THEN 6 ELSE 10
    BY DEF CallRank
  <2>2. CallRank(calls'[c]) \in {5, 9}
    BY <1>1 DEF CallRank
  <2>3. calls'[c].retried => CallRank(calls'[c]) = 5
    BY <1>1 DEF CallRank
  <2>4. Rank(c, calls'[c]) < Rank(c, calls[c])
    BY <1>1, <1>4, <2>1, <2>2, <2>3 DEF Rank
  <2> QED BY <1>1, <1>2, <2>4 DEF Nears, Busy
<1> QED BY <1>3, <1>4

LEMMA EndNears ==
  ASSUME SwiftConstants, Careful, Staged, NEW c \in Callers, calls'[c] = Idle, Busy(c)
  PROVE  Nears(c, calls'[c]) /\ calls'[c].pc = "idle"
<1>1. calls'[c].pc = "idle" /\ calls[c] \in Call /\ StagedAt(c, calls[c])
  BY Parts DEF Idle, Staged
<1>2. SignInRank(calls'[c]) = 0 /\ CallRank(calls'[c]) = 0 /\ StagedAt(c, calls'[c])
  BY <1>1 DEF CallRank, SignInRank, StagedAt
<1>3. Rank(c, calls[c]) \in 1..11
  <2>1. CASE c \notin SignIns
    <3>1. CallRank(calls[c]) \in {1, 2, 3, 4, 5, 6, 7, 8, 9, 10, 11}
      BY <1>1 DEF CallRank, Call, Busy
    <3> QED BY <2>1, <3>1 DEF Rank
  <2>2. CASE c \in SignIns
    <3>1. c \notin Performed /\ c # "boot" /\ c # "refresh"
      BY <2>2, Names DEF Performed
    <3>2. calls[c].pc \in {"sent", "answered", "access", "refresh", "header"}
      BY <1>1, <3>1 DEF Call, StagedAt, Busy
    <3>3. SignInRank(calls[c]) \in {1, 2, 3, 4, 5, 6, 7}
      BY <3>2 DEF SignInRank
    <3> QED BY <2>2, <3>3 DEF Rank
  <2> QED BY <2>1, <2>2
<1>4. Rank(c, calls'[c]) < Rank(c, calls[c])
  BY <1>2, <1>3 DEF Rank
<1> QED BY <1>1, <1>2, <1>4 DEF Nears

\* A job of the storage begins: of a call that was refused, or of one that has its pair.
LEMMA WritingNears ==
  ASSUME SwiftConstants, NEW c \in Callers, NEW t \in Tokens, calls'[c] = Writing(t),
         calls[c].pc \in {"answered", "turn"},
         c \in SignIns => calls[c].pc = "answered" /\ calls[c].answer = "pair"
  PROVE  Nears(c, calls'[c]) /\ calls'[c].pc = "access"
<1>1. calls'[c].pc = "access"
  BY DEF Writing, Idle
<1>2. SignInRank(calls'[c]) = 5 /\ CallRank(calls'[c]) = 4 /\ StagedAt(c, calls'[c])
  BY <1>1 DEF CallRank, SignInRank, StagedAt
<1>3. CASE c \in SignIns
  <2>1. SignInRank(calls[c]) = 6
    BY <1>3 DEF SignInRank
  <2>2. Rank(c, calls'[c]) < Rank(c, calls[c])
    BY <1>2, <1>3, <2>1 DEF Rank
  <2> QED BY <1>1, <1>2, <2>2 DEF Nears, Busy
<1>4. CASE c \notin SignIns
  <2>1. CallRank(calls[c]) \in {5, 7, 9}
    BY DEF CallRank
  <2>2. Rank(c, calls'[c]) < Rank(c, calls[c])
    BY <1>2, <1>4, <2>1 DEF Rank
  <2> QED BY <1>1, <1>2, <2>2 DEF Nears, Busy
<1> QED BY <1>3, <1>4

\* The next step of a job.
LEMMA WritesNear ==
  ASSUME SwiftConstants, Careful, NEW c \in Callers, NEW rec \in Call,
         \/ calls[c].pc = "access" /\ rec.pc = "refresh"
         \/ calls[c].pc = "refresh" /\ rec.pc = "header"
         \/ calls[c].pc = "header" /\ c \in SignIns /\ rec.pc = "sent" /\ rec.token # None
         \/ calls[c].pc = "header" /\ c = "refresh" /\ rec.pc = "done"
  PROVE  Nears(c, rec)
<1>1. StagedAt(c, rec) /\ Busy(c)
  BY Names DEF StagedAt, Busy
<1>2. CASE c \in SignIns
  <2>1. \/ SignInRank(calls[c]) = 5 /\ SignInRank(rec) = 4
        \/ SignInRank(calls[c]) = 4 /\ SignInRank(rec) = 3
        \/ SignInRank(calls[c]) = 3 /\ SignInRank(rec) = 2
    <3>1. CASE calls[c].pc = "access" /\ rec.pc = "refresh"
      BY <3>1 DEF SignInRank
    <3>2. CASE calls[c].pc = "refresh" /\ rec.pc = "header"
      BY <3>2 DEF SignInRank
    <3>3. CASE calls[c].pc = "header" /\ rec.pc = "sent" /\ rec.token # None
      BY <3>3 DEF SignInRank
    <3> QED BY <1>2, <3>1, <3>2, <3>3, Names
  <2>2. Rank(c, rec) < Rank(c, calls[c])
    BY <1>2, <2>1 DEF Rank
  <2> QED BY <1>1, <2>2 DEF Nears
<1>3. CASE c \notin SignIns
  <2>1. \/ CallRank(calls[c]) = 4 /\ CallRank(rec) = 3
        \/ CallRank(calls[c]) = 3 /\ CallRank(rec) = 2
        \/ CallRank(calls[c]) = 2 /\ CallRank(rec) = 1
    <3>1. CASE calls[c].pc = "access" /\ rec.pc = "refresh"
      BY <3>1 DEF CallRank
    <3>2. CASE calls[c].pc = "refresh" /\ rec.pc = "header"
      BY <3>2 DEF CallRank
    <3>3. CASE calls[c].pc = "header" /\ rec.pc = "done"
      BY <3>3 DEF CallRank
    <3> QED BY <1>3, <3>1, <3>2, <3>3
  <2>2. Rank(c, rec) < Rank(c, calls[c])
    BY <1>3, <2>1 DEF Rank
  <2> QED BY <1>1, <2>2 DEF Nears
<1> QED BY <1>2, <1>3

\* A call goes on to be sent, to wait or to have its turn.
LEMMA PerformedNears ==
  ASSUME SwiftConstants, NEW c \in Performed, NEW rec \in Call,
         \/ calls[c].pc = "loading" /\ rec.pc = "sent"
         \/ Refused(c) /\ rec.pc \in {"waiting", "turn"}
         \/ calls[c].pc = "waiting" /\ rec.pc = "turn"
         \/ calls[c].pc = "turn" /\ rec.pc = "sent" /\ rec.retried
  PROVE  Nears(c, rec)
<1>1. StagedAt(c, rec) /\ Busy(c)
  BY DEF StagedAt, Busy, Refused, Answered
<1>2. c \notin SignIns
  BY Performers
<1>3. CASE calls[c].pc = "loading" /\ rec.pc = "sent"
  <2>1. CallRank(calls[c]) = 11 /\ CallRank(rec) \in {6, 10}
    BY <1>3 DEF CallRank
  <2> QED BY <1>1, <1>2, <2>1 DEF Nears, Rank
<1>4. CASE Refused(c) /\ rec.pc \in {"waiting", "turn"}
  <2>1. CallRank(calls[c]) = 9 /\ CallRank(rec) \in {7, 8}
    BY <1>4 DEF CallRank, Refused, Answered
  <2> QED BY <1>1, <1>2, <2>1 DEF Nears, Rank
<1>5. CASE calls[c].pc = "waiting" /\ rec.pc = "turn"
  <2>1. CallRank(calls[c]) = 8 /\ CallRank(rec) = 7
    BY <1>5 DEF CallRank
  <2> QED BY <1>1, <1>2, <2>1 DEF Nears, Rank
<1>6. CASE calls[c].pc = "turn" /\ rec.pc = "sent" /\ rec.retried
  <2>1. CallRank(calls[c]) = 7 /\ CallRank(rec) = 6
    BY <1>6 DEF CallRank
  <2> QED BY <1>1, <1>2, <2>1 DEF Nears, Rank
<1> QED BY <1>3, <1>4, <1>5, <1>6

\* Call c alone comes nearer to its end; a flight ends only when nobody waits for it.
Moves(c) ==
  /\ Nears(c, calls'[c])
  /\ \A d \in Callers : d # c => calls'[d] = calls[d]
  /\ inFlight' = inFlight \/ (inFlight' = NoneInFlight /\ \A d \in Callers : calls[d].pc # "waiting")
  /\ calls'[c].pc = "waiting" => inFlight' # NoneInFlight /\ inFlight'.end = "none"
  /\ c = "refresh" => calls'[c].pc # "idle"

LEMMA PutMoves ==
  ASSUME SwiftConstants, Careful, NEW c \in Callers, NEW rec, Put(c, rec), Nears(c, calls'[c]),
         inFlight' = inFlight, calls'[c].pc # "waiting", c = "refresh" => calls'[c].pc # "idle"
  PROVE  Moves(c)
BY Parts DEF Moves, Put, ClientTyped

\* A call is answered.
LEMMA AnswersMove ==
  ASSUME SwiftConstants, Careful, Staged, NEW c \in Callers,
         Accept(c) \/ Refuse(c) \/ CallFails(c) \/ AnswerLost(c)
  PROVE  Moves(c)
<1>1. calls[c].pc = "sent" /\ Busy(c) /\ inFlight' = inFlight /\ calls[c] \in Call
  BY Parts DEF Accept, Refuse, CallFails, AnswerLost, Busy
<1>2. CASE End(c) /\ c # "refresh"
  <2>1. calls'[c] = Idle
    BY <1>2, Parts DEF End, Put, ClientTyped
  <2> QED BY <1>1, <1>2, <2>1, EndNears, PutMoves DEF End
<1>3. ASSUME NEW a \in {"ok", "pair", "refused", "failed"}, NEW t \in Tokens, Answer(c, a, t),
             c \in Requests => a = "refused" /\ ~calls[c].retried, c = "boot" => a # "pair",
             c \in SignIns => (a = "pair" => calls[c].token = None)
      PROVE  Moves(c)
  <2>1. Nears(c, calls'[c]) /\ calls'[c].pc = "answered"
    BY <1>1, <1>3, AnswerNears
  <2> QED BY <1>1, <1>3, <2>1, PutMoves DEF Answer
<1>4. calls[c].token \in Tokens /\ None \in Tokens
  BY <1>1, Numbers DEF Call
<1>5. CASE Accept(c)
  <2>1. CASE c \in Requests
    BY <1>2, <1>5, <2>1 DEF Accept
  <2>2. CASE c \in SignIns /\ calls[c].token = None
    <3>1. Effect(c) /\ Answer(c, "pair", issued + 1) /\ c \notin Requests /\ c # "boot"
      BY <1>5, <2>2, Names DEF Accept
    <3>2. issued + 1 \in Tokens
      <4>1. ~(calls[c].token \in Pairs)
        BY <2>2 DEF Pairs, None
      <4> QED BY <3>1, <4>1, EffectTyped, Parts, Numbers
    <3> QED BY <1>3, <2>2, <3>1, <3>2
  <2>3. CASE c \notin Requests /\ ~(c \in SignIns /\ calls[c].token = None)
    BY <1>3, <1>4, <1>5, <2>3 DEF Accept
  <2> QED BY <2>1, <2>2, <2>3
<1>6. CASE Refuse(c)
  BY <1>2, <1>3, <1>4, <1>6 DEF Refuse
<1>7. CASE CallFails(c)
  <2>1. c \in Requests => c # "refresh"
    BY Names
  <2> QED BY <1>2, <1>3, <1>4, <1>7, <2>1 DEF CallFails
<1>8. CASE AnswerLost(c)
  <2>1. c \notin Requests
    BY <1>8, Names DEF AnswerLost, Main
  <2> QED BY <1>3, <1>4, <1>8, <2>1 DEF AnswerLost
<1> QED BY <1>5, <1>6, <1>7, <1>8

\* A job of the storage goes on.
LEMMA StorageMoves ==
  ASSUME SwiftConstants, Careful, Staged, NEW c \in Callers,
         WriteAccess(c) \/ WriteRefresh(c) \/ WriteHeader(c) \/ KeychainFails(c)
  PROVE  Moves(c)
<1>1. inFlight' = inFlight /\ calls[c] \in Call /\ calls \in [Callers -> Call]
  BY Parts DEF WriteAccess, WriteRefresh, WriteHeader, KeychainFails, ClientTyped
<1>2. ASSUME NEW pc \in {"refresh", "header"}, Put(c, [calls[c] EXCEPT !.pc = pc]),
             calls[c].pc = IF pc = "refresh" THEN "access" ELSE "refresh"
      PROVE  Moves(c)
  <2> DEFINE rec == [calls[c] EXCEPT !.pc = pc]
  <2>1. rec \in Call /\ rec.pc = pc /\ Put(c, rec) /\ calls'[c] = rec
    BY <1>1, <1>2 DEF Call, Put
  <2> HIDE DEF rec
  <2>2. Nears(c, rec)
    BY <1>2, <2>1, WritesNear
  <2> QED BY <1>1, <2>1, <2>2, PutMoves
<1>3. CASE WriteAccess(c) \/ WriteRefresh(c) \/ KeychainFails(c)
  BY <1>2, <1>3 DEF WriteAccess, WriteRefresh, KeychainFails
<1>4. CASE WriteHeader(c)
  <2>0. calls[c].pc = "header"
    BY <1>4 DEF WriteHeader
  <2>1. CASE c = "refresh"
    <3> DEFINE rec == [calls[c] EXCEPT !.pc = "done"]
    <3>1. Put(c, rec)
      BY <1>4, <2>1 DEF WriteHeader
    <3>2. rec \in Call /\ rec.pc = "done" /\ calls'[c] = rec
      BY <1>1, <3>1 DEF Call, Put
    <3> HIDE DEF rec
    <3>3. Nears(c, rec)
      BY <2>0, <2>1, <3>2, WritesNear
    <3> QED BY <1>1, <3>1, <3>2, <3>3, PutMoves
  <2>2. CASE c = "login" /\ c \in SignIns
    <3> DEFINE rec == Sent(calls[c].token, FALSE)
    <3>1. Put(c, rec)
      BY <1>4, <2>2 DEF WriteHeader
    <3>2. calls[c].token \in Pairs
      BY <2>0, <2>2, Parts DEF Named, NamesIn
    <3>3. rec \in Call /\ rec.pc = "sent" /\ rec.token # None
      BY <3>2, SentRec, Numbers DEF Pairs, None
    <3>4. calls'[c] = rec
      BY <1>1, <3>1 DEF Put
    <3> HIDE DEF rec
    <3>5. Nears(c, rec)
      BY <2>0, <2>2, <3>3, WritesNear
    <3> QED BY <1>1, <2>2, <3>1, <3>3, <3>4, <3>5, PutMoves
  <2>3. CASE c # "refresh" /\ ~(c = "login" /\ c \in SignIns)
    <3>1. c # "login"
      BY <2>3, Names DEF SwiftConstants
    <3>2. End(c)
      BY <1>4, <2>3, <3>1 DEF WriteHeader
    <3>3. calls'[c] = Idle /\ Busy(c)
      BY <1>1, <2>0, <3>2 DEF End, Put, Busy
    <3> QED BY <1>1, <2>3, <3>2, <3>3, EndNears, PutMoves DEF End
  <2> QED BY <2>1, <2>2, <2>3
<1> QED BY <1>3, <1>4

\* A call that was refused, or has its turn.
LEMMA TurnsMove ==
  ASSUME SwiftConstants, Careful, Orderly, Staged, NEW c \in Performed,
         Await(c) \/ BeginNothing(c) \/ TakeTurn(c)
  PROVE  Moves(c)
<1>1. c \in Callers /\ c # "refresh" /\ c \notin SignIns /\ None \in Tokens
  BY Performers, Numbers
<1>2. calls[c] \in Call /\ calls \in [Callers -> Call] /\ inFlight \in Flight
  BY <1>1, Parts DEF ClientTyped
<1>3. CASE Await(c) /\ inFlight.end = "none"
  <2> DEFINE rec == [calls[c] EXCEPT !.pc = "waiting"]
  <2>1. Put(c, rec) /\ inFlight' = inFlight /\ inFlight # NoneInFlight /\ Refused(c)
    BY <1>3 DEF Await
  <2>2. rec \in Call /\ rec.pc = "waiting" /\ calls'[c] = rec /\ \A d \in Callers : d # c => calls'[d] = calls[d]
    BY <1>1, <1>2, <2>1 DEF Call, Put
  <2> HIDE DEF rec
  <2>3. Nears(c, rec)
    BY <2>1, <2>2, PerformedNears
  <2> QED BY <1>1, <1>3, <2>1, <2>2, <2>3 DEF Moves
<1>4. CASE Await(c) /\ inFlight.end # "none"
  <2> DEFINE rec == [calls[c] EXCEPT !.pc = "turn", !.answer = inFlight.end]
  <2>1. Put(c, rec) /\ inFlight' = inFlight /\ Refused(c)
    BY <1>4 DEF Await
  <2>2. rec \in Call /\ rec.pc = "turn" /\ calls'[c] = rec
    BY <1>1, <1>2, <2>1 DEF Call, Put, Flight
  <2> HIDE DEF rec
  <2>3. Nears(c, rec)
    BY <2>1, <2>2, PerformedNears
  <2> QED BY <1>1, <2>1, <2>2, <2>3, PutMoves
<1>5. CASE BeginNothing(c)
  <2>1. Put(c, Writing(None)) /\ calls[c].pc = "answered" /\ inFlight' = inFlight
    BY <1>5 DEF BeginNothing, Refused, Answered
  <2>2. calls'[c] = Writing(None)
    BY <1>1, <1>2, <2>1 DEF Put
  <2>3. Nears(c, calls'[c]) /\ calls'[c].pc = "access"
    BY <1>1, <2>1, <2>2, WritingNears
  <2> QED BY <1>1, <2>1, <2>3, PutMoves
<1>6. CASE TakeTurn(c)
  <2>1. calls[c].pc = "turn"
    BY <1>6 DEF TakeTurn
  <2>2. inFlight' = inFlight \/ (inFlight' = NoneInFlight /\ \A d \in Callers : calls[d].pc # "waiting")
    <3>1. ASSUME c = inFlight.by, NEW d \in Callers, calls[d].pc = "waiting" PROVE FALSE
      <4>1. inFlight # NoneInFlight /\ inFlight.end = "none"
        BY <3>1 DEF Staged
      <4>2. calls[c].pc = "waiting"
        BY <3>1, <4>1 DEF Orderly, Flies
      <4> QED BY <2>1, <4>2
    <3> QED BY <1>6, <3>1 DEF TakeTurn
  <2>3. \A d \in Callers : d # c => calls'[d] = calls[d]
    BY <1>1, <1>2, <1>6 DEF TakeTurn, Put
  <2>4. Nears(c, calls'[c]) /\ calls'[c].pc # "waiting"
    <3>1. CASE calls[c].answer = "ok"
      <4> DEFINE rec == Sent(header, TRUE)
      <4>1. rec \in Call /\ rec.pc = "sent" /\ rec.retried
        BY Screens, SentRec DEF Sent
      <4>2. calls'[c] = rec
        BY <1>1, <1>2, <1>6, <3>1 DEF TakeTurn, Put
      <4> HIDE DEF rec
      <4> QED BY <2>1, <4>1, <4>2, PerformedNears
    <3>2. CASE calls[c].answer # "ok"
      <4>1. calls'[c] = Writing(None)
        BY <1>1, <1>2, <1>6, <3>2 DEF TakeTurn, Put
      <4> QED BY <1>1, <2>1, <4>1, WritingNears
    <3> QED BY <3>1, <3>2
  <2> QED BY <1>1, <2>2, <2>3, <2>4 DEF Moves
<1> QED BY <1>3, <1>4, <1>5, <1>6

\* The start, the forms and the sign-out button.
LEMMA ScreensMove ==
  ASSUME SwiftConstants, Careful, Staged, NEW c \in Callers,
         \/ c = "boot" /\ (RestoreNothing \/ RestoreTokens \/ BootSucceeds \/ BootUndecided \/ BootRefused)
         \/ c \in SignIns /\ (SignInSucceeds(c) \/ UserArrives(c) \/ SignInFails(c))
         \/ c \in SignOuts /\ SignOutClears(c)
  PROVE  Moves(c)
<1>1. c # "refresh" /\ None \in Tokens /\ calls[c].token \in Tokens /\ calls \in [Callers -> Call]
  BY Names, Numbers, Screens
<1>2. ASSUME End(c), Busy(c), inFlight' = inFlight PROVE Moves(c)
  <2>1. calls'[c] = Idle
    BY <1>1, <1>2 DEF End, Put
  <2> QED BY <1>1, <1>2, <2>1, EndNears, PutMoves DEF End
<1>3. ASSUME NEW t \in Tokens, Put(c, Writing(t)), Answered(c), inFlight' = inFlight,
             c \in SignIns => calls[c].answer = "pair"
      PROVE  Moves(c)
  <2>1. calls'[c] = Writing(t)
    BY <1>1, <1>3 DEF Put
  <2>2. Nears(c, calls'[c]) /\ calls'[c].pc = "access"
    BY <1>3, <2>1, WritingNears DEF Answered
  <2> QED BY <1>1, <1>3, <2>2, PutMoves
<1>4. CASE c = "boot" /\ (RestoreNothing \/ BootSucceeds \/ BootUndecided)
  BY <1>2, <1>4 DEF RestoreNothing, BootSucceeds, BootUndecided, Answered, Busy
<1>5. CASE c = "boot" /\ RestoreTokens
  <2> DEFINE rec == Sent(stored.access, FALSE)
  <2>1. Put(c, rec) /\ inFlight' = inFlight /\ calls[c].pc = "loading"
    BY <1>5 DEF RestoreTokens
  <2>2. rec \in Call /\ rec.pc = "sent"
    BY Screens, SentRec
  <2>3. calls'[c] = rec
    BY <1>1, <2>1 DEF Put
  <2> HIDE DEF rec
  <2>4. Nears(c, rec)
    BY <1>5, <2>1, <2>2, PerformedNears, Names
  <2> QED BY <1>1, <2>1, <2>2, <2>3, <2>4, PutMoves
<1>6. CASE c = "boot" /\ BootRefused
  BY <1>1, <1>3, <1>6, Names DEF BootRefused
<1>7. CASE c \in SignIns /\ SignInSucceeds(c)
  BY <1>1, <1>3, <1>7 DEF SignInSucceeds
<1>8. CASE c \in SignIns /\ (UserArrives(c) \/ SignInFails(c))
  BY <1>2, <1>8 DEF UserArrives, SignInFails, Answered, Busy
<1>9. CASE c \in SignOuts /\ SignOutClears(c)
  BY <1>1, <1>3, <1>9, Names DEF SignOutClears
<1> QED BY <1>4, <1>5, <1>6, <1>7, <1>8, <1>9

LEMMA StepMoves ==
  ASSUME SwiftConstants, Careful, Orderly, Staged, NEW c \in Callers
  PROVE  /\ Step(c) => Moves(c) \/ (c \in Performed /\ Begin(c))
         /\ AnswerLost(c) \/ KeychainFails(c) => Moves(c)
BY AnswersMove, StorageMoves, TurnsMove, ScreensMove DEF Step

\* The task of a refresh is answered, or has its pair to store.
LEMMA TaskMoves ==
  ASSUME SwiftConstants, Careful, Rotate(TRUE) \/ Rotate(FALSE) \/ RefuseRefresh \/ KeepRefreshed
  PROVE  Moves("refresh")
<1>1. "refresh" \in Callers /\ "refresh" \notin SignIns /\ "refresh" \notin Requests /\ None \in Tokens
  BY Names, Numbers
<1>2. calls["refresh"] \in Call /\ calls \in [Callers -> Call] /\ inFlight' = inFlight
  BY Parts DEF ClientTyped, Rotate, RefuseRefresh, KeepRefreshed
<1>3. ASSUME NEW a \in {"pair", "refused", "failed"}, NEW t \in Tokens, Answer("refresh", a, t),
             calls["refresh"].pc = "sent"
      PROVE  Moves("refresh")
  <2>1. Nears("refresh", calls'["refresh"]) /\ calls'["refresh"].pc = "answered"
    BY <1>1, <1>3, AnswerNears
  <2> QED BY <1>1, <1>2, <1>3, <2>1, PutMoves DEF Answer
<1>4. CASE Rotate(TRUE)
  <2>1. issued + 1 \in Tokens
    <3>1. issued < MaxTokens /\ issued \in Nat
      BY <1>4, Parts DEF Rotate, Spend, Issue
    <3> QED BY <3>1, Numbers DEF Tokens
  <2> QED BY <1>3, <1>4, <2>1 DEF Rotate
<1>5. CASE Rotate(FALSE) \/ RefuseRefresh
  BY <1>1, <1>3, <1>5 DEF Rotate, RefuseRefresh
<1>6. CASE KeepRefreshed
  <2>1. Put("refresh", Writing(calls["refresh"].token)) /\ calls["refresh"].pc = "answered"
    BY <1>6 DEF KeepRefreshed, Answered
  <2>2. calls'["refresh"] = Writing(calls["refresh"].token) /\ calls["refresh"].token \in Tokens
    BY <1>1, <1>2, <2>1, Screens DEF Put
  <2>3. Nears("refresh", calls'["refresh"]) /\ calls'["refresh"].pc = "access"
    BY <1>1, <2>1, <2>2, WritingNears
  <2> QED BY <1>1, <1>2, <2>1, <2>3, PutMoves
<1> QED BY <1>4, <1>5, <1>6

\* A refresh begins: its first caller waits, and the task is under way.
LEMMA BeginMoves ==
  ASSUME SwiftConstants, Careful, Orderly, NEW c \in Performed, Begin(c)
  PROVE  /\ Nears(c, calls'[c]) /\ calls'["refresh"].pc = "sent" /\ ~Busy("refresh")
         /\ \A d \in Callers : d \notin {c, "refresh"} => calls'[d] = calls[d]
         /\ inFlight' # NoneInFlight /\ inFlight'.end = "none"
<1>1. c \in Callers /\ c # "refresh" /\ "refresh" \in Callers
  BY Performers, Names
<1>2. calls[c] \in Call /\ calls \in [Callers -> Call]
  BY <1>1, Screens
<1>3. calls'[c] = [calls[c] EXCEPT !.pc = "waiting"] /\ calls'["refresh"] = Sent(None, FALSE)
  BY <1>1, <1>2 DEF Begin
<1>4. calls'[c] \in Call /\ calls'[c].pc = "waiting"
  BY <1>2, <1>3 DEF Call
<1>5. Nears(c, calls'[c])
  BY <1>4, PerformedNears DEF Begin
<1>6. calls'["refresh"].pc = "sent"
  BY <1>3 DEF Sent
<1>7. ~Busy("refresh")
  BY DEF Begin, Orderly, Flies
<1>8. inFlight'.end = "none"
  BY DEF Begin
<1>9. inFlight'.spends # None /\ NoneInFlight.spends = None
  BY DEF Begin, Restorable, NoneInFlight
<1>10. inFlight' # NoneInFlight
  BY <1>9
<1>11. \A d \in Callers : d \notin {c, "refresh"} => calls'[d] = calls[d]
  BY <1>1, <1>2 DEF Begin
<1> QED BY <1>5, <1>6, <1>7, <1>8, <1>10, <1>11

LEMMA BeginStaged ==
  ASSUME SwiftConstants, Careful, Orderly, Staged, NEW c \in Performed, Begin(c)
  PROVE  Staged'
<1>1. ASSUME NEW d \in Callers PROVE StagedAt(d, calls'[d])
  <2>1. CASE d = c
    BY <2>1, BeginMoves DEF Nears
  <2>2. CASE d = "refresh"
    BY <2>2, BeginMoves DEF StagedAt
  <2>3. CASE d \notin {c, "refresh"}
    BY <2>3, BeginMoves DEF Staged
  <2> QED BY <2>1, <2>2, <2>3
<1>2. calls'["refresh"].pc # "idle"
  BY BeginMoves
<1> QED BY <1>1, <1>2, BeginMoves DEF Staged, StagedAt, Busy

\* The end of the task moves everybody on who waited for it.
LEMMA WakeMoves ==
  ASSUME SwiftConstants, Careful, Staged, Refreshed \/ RefreshFails
  PROVE  /\ \A c \in Callers :
              IF c = "refresh" \/ calls[c].pc = "waiting"
              THEN Nears(c, calls'[c]) /\ calls'[c].pc # "waiting"
              ELSE calls'[c] = calls[c]
         /\ Busy("refresh")
         /\ inFlight'.end # "none"
<1>1. PICK end \in {"ok", "failed"} : Wake(end)
  BY DEF Refreshed, RefreshFails
<1>2. Busy("refresh")
  BY DEF Refreshed, RefreshFails, Answered, Busy
<1>3. inFlight'.end = end
  BY <1>1, Parts DEF Wake, ClientTyped, Flight
<1>4. ASSUME NEW c \in Callers
      PROVE  IF c = "refresh" \/ calls[c].pc = "waiting"
             THEN Nears(c, calls'[c]) /\ calls'[c].pc # "waiting"
             ELSE calls'[c] = calls[c]
  <2>1. CASE c = "refresh"
    <3>1. calls'[c] = Idle
      BY <1>1, <2>1 DEF Wake
    <3> QED BY <1>2, <2>1, <3>1, EndNears
  <2>2. CASE c # "refresh" /\ calls[c].pc = "waiting"
    <3> DEFINE rec == [calls[c] EXCEPT !.pc = "turn", !.answer = end]
    <3>1. calls'[c] = rec
      BY <1>1, <2>2 DEF Wake
    <3>2. rec \in Call /\ rec.pc = "turn"
      BY Parts DEF Call
    <3> HIDE DEF rec
    <3>3. c \in Performed
      BY <2>2 DEF Staged, StagedAt
    <3>4. Nears(c, rec)
      BY <2>2, <3>2, <3>3, PerformedNears
    <3> QED BY <2>2, <3>1, <3>2, <3>4
  <2>3. CASE c # "refresh" /\ calls[c].pc # "waiting"
    BY <1>1, <2>3 DEF Wake
  <2> QED BY <2>1, <2>2, <2>3
<1> QED BY <1>2, <1>3, <1>4

LEMMA WakeStaged ==
  ASSUME SwiftConstants, Careful, Staged, Refreshed \/ RefreshFails
  PROVE  Staged'
<1>1. ASSUME NEW c \in Callers PROVE StagedAt(c, calls'[c]) /\ calls'[c].pc # "waiting"
  BY WakeMoves DEF Staged, Nears
<1> QED BY <1>1, WakeMoves DEF Staged, StagedAt

LEMMA MovesStaged == ASSUME Staged, NEW c \in Callers, Moves(c) PROVE Staged'
<1>1. ASSUME NEW d \in Callers PROVE StagedAt(d, calls'[d])
  BY DEF Staged, Moves, Nears
<1>2. ASSUME NEW d \in Callers, calls'[d].pc = "waiting"
      PROVE  inFlight' # NoneInFlight /\ inFlight'.end = "none"
  BY <1>2 DEF Staged, Moves
<1>3. inFlight' # NoneInFlight /\ inFlight'.end = "none" => calls'["refresh"].pc # "idle"
  BY DEF Staged, Moves, Busy, Callers, Coordinator
<1> QED BY <1>1, <1>2, <1>3 DEF Staged, StagedAt, Busy

LEMMA AsksStaged ==
  ASSUME SwiftConstants, Careful, Staged, Asks
  PROVE  Staged' /\ \A c \in Callers : Busy(c) => calls'[c] = calls[c]
<1>1. PICK c \in Callers \ {"refresh"}, t \in Tokens :
        Put(c, Sent(t, FALSE)) /\ ~Busy(c) /\ inFlight' = inFlight
  BY Screens, Names, Numbers DEF Asks, Fetch, SignIn, SignOut
<1>2. calls'[c].pc = "sent" /\ \A d \in Callers : d # c => calls'[d] = calls[d]
  BY <1>1, Screens DEF Put, Sent
<1>3. ASSUME NEW d \in Callers PROVE StagedAt(d, calls'[d])
  <2>1. CASE d = c
    BY <1>2, <2>1 DEF StagedAt
  <2>2. CASE d # c
    BY <1>2, <2>2 DEF Staged
  <2> QED BY <2>1, <2>2
<1>4. ASSUME NEW d \in Callers, calls'[d].pc = "waiting"
      PROVE  inFlight' # NoneInFlight /\ inFlight'.end = "none"
  BY <1>1, <1>2, <1>4 DEF Staged
<1>5. calls'["refresh"] = calls["refresh"]
  BY <1>1, <1>2, Names
<1> QED BY <1>1, <1>2, <1>3, <1>4, <1>5 DEF Staged, StagedAt, Busy

LEMMA KillStaged == ASSUME SwiftConstants, Kill PROVE Staged'
<1>1. \A c \in Callers : calls'[c].pc = IF c = "boot" THEN "loading" ELSE "idle"
  BY DEF Kill, Starting, Idle
<1>2. inFlight' = NoneInFlight
  BY DEF Kill
<1> QED BY <1>1, <1>2 DEF Staged, StagedAt

LEMMA InitStaged == ASSUME SwiftConstants, Init PROVE Staged
<1>1. \A c \in Callers : calls[c].pc = IF c = "boot" THEN "loading" ELSE "idle"
  BY DEF Init, Starting, Idle
<1>2. inFlight = NoneInFlight
  BY DEF Init
<1> QED BY <1>1, <1>2 DEF Staged, StagedAt

LEMMA StagedKept ==
  ASSUME SwiftConstants, Careful, Orderly, Staged, [Next]_vars PROVE Staged'
<1>1. CASE \E c \in Callers : Step(c) \/ AnswerLost(c) \/ KeychainFails(c)
  BY <1>1, StepMoves, MovesStaged, BeginStaged
<1>2. CASE Refreshes \/ Rotate(FALSE)
  BY <1>2, TaskMoves, MovesStaged, WakeStaged, Names DEF Refreshes
<1>3. CASE UNCHANGED vars
  BY <1>3 DEF vars, Staged, StagedAt, Busy
<1> QED BY <1>1, <1>2, <1>3, AsksStaged, KillStaged DEF Next, Works, Goes

\* No call goes back but by a kill, and each step of the two actors or the network
\* brings a call, or the task of the refresh, nearer to its end.
OnlyMovesOn ==
  /\ Kill \/ \A c \in Callers :
               Busy(c) /\ calls'[c] # calls[c] => Rank(c, calls'[c]) < Rank(c, calls[c])
  /\ Works => \E c \in Callers : Busy(c) /\ calls'[c] # calls[c]

\* Nothing under way goes round in a circle (AccessTokenCoordinator.swift:30-60): a call
\* that is refused is sent again once, and each step of work leaves fewer steps of its
\* call or of the task.
THEOREM SwiftWorkIsBounded == ASSUME SwiftConstants PROVE Spec => [][OnlyMovesOn]_vars
<1> DEFINE AllNear == \A c \in Callers :
                        Busy(c) /\ calls'[c] # calls[c] => Rank(c, calls'[c]) < Rank(c, calls[c])
           Worked == \E c \in Callers : Busy(c) /\ calls'[c] # calls[c]
<1>1. ASSUME Careful, Staged, NEW c \in Callers, Nears(c, calls'[c]) PROVE calls'[c] # calls[c]
  <2>1. Rank(c, calls[c]) \in 0..11
    BY <1>1, RankType, Parts DEF Staged
  <2> QED BY <1>1, <2>1 DEF Nears
<1>2. ASSUME Careful, Staged, NEW c \in Callers, Moves(c) PROVE AllNear /\ Worked
  BY <1>1, <1>2 DEF Moves, Nears
<1>3. ASSUME Careful, Orderly, Staged, NEW c \in Performed, Begin(c) PROVE AllNear /\ Worked
  BY <1>1, <1>3, BeginMoves, Names DEF Nears
<1>4. ASSUME Careful, Staged, Refreshed \/ RefreshFails PROVE AllNear /\ Worked
  BY <1>1, <1>4, WakeMoves, Names DEF Nears
<1>5. ASSUME Careful, Staged, Asks PROVE AllNear
  BY <1>5, AsksStaged
<1> HIDE DEF AllNear, Worked
<1>6. ASSUME Careful, Orderly, Staged, NEW c \in Callers, Step(c) PROVE AllNear /\ Worked
  BY <1>2, <1>3, <1>6, StepMoves
<1>7. ASSUME Careful, Orderly, Staged, Refreshes \/ Rotate(FALSE) PROVE AllNear /\ Worked
  BY <1>2, <1>4, <1>7, TaskMoves, Names DEF Refreshes
<1>8. Careful /\ Orderly /\ Staged /\ Next => (Kill \/ AllNear) /\ (Works => Worked)
  BY <1>2, <1>5, <1>6, <1>7, StepMoves DEF Next, Works, Goes
<1>9. Consistent /\ Staged /\ [Next]_vars => [OnlyMovesOn]_vars
  BY <1>8 DEF OnlyMovesOn, AllNear, Worked, Consistent
<1>10. Consistent /\ Staged /\ [Next]_vars => (Consistent /\ Staged)'
  BY NextConsistent, StagedKept DEF Consistent
<1>11. Init => Consistent /\ Staged
  BY InitConsistent, InitStaged
<1> QED BY <1>9, <1>10, <1>11, PTL DEF Spec

\* Something that works is ready for its next step, and its actor is free.
Ready ==
  \E c \in Callers :
    \/ Writes(c) \/ calls[c].pc = "sent"
    \/ c = "boot" /\ calls[c].pc = "loading"
    \/ c \in Performed /\ (Refused(c) \/ Turning(c)) /\ Free(Coordinator)
    \/ c = "boot" /\ Answered(c) /\ ~Refused(c) /\ calls[c].answer \in {"ok", "failed", "refused"}
    \/ c = "refresh" /\ (Answered(c) \/ calls[c].pc = "done") /\ Free(Coordinator)
    \/ c \in SignIns /\ Answered(c) /\ calls[c].answer \in {"ok", "pair", "refused", "failed"} /\ Free(Main)
    \/ c \in SignOuts /\ Answered(c) /\ Free(Main)

\* Whoever waits, waits for a task under way, and before rest something is ready.
NobodyStuck ==
  /\ \A c \in Callers : calls[c].pc = "waiting" => Busy("refresh")
  /\ AtRest \/ Ready

\* No call waits for a task that is over (AccessTokenCoordinator.swift:41-60), and the two
\* actors do not wait for each other: until rest, some call or the task is ready and
\* its actor is free.
THEOREM SwiftWorkIsReady == ASSUME SwiftConstants PROVE Spec => []NobodyStuck
<1>1. Consistent /\ Staged => NobodyStuck
  <2> SUFFICES ASSUME Careful, Orderly, Staged, ~AtRest, \A c \in Callers : ~Writes(c)
               PROVE  Ready
    BY DEF NobodyStuck, Staged, Ready, Consistent
  <2>1. Free(Coordinator) /\ Free(Main)
    BY Names DEF Free
  <2>2. ASSUME NEW c \in Callers, Busy(c), calls[c].pc # "waiting" PROVE Ready
    <3>1. calls[c] \in Call /\ StagedAt(c, calls[c]) /\ ~Writes(c)
      BY <2>2, Parts DEF Staged
    <3>2. calls[c].pc \in {"loading", "sent", "answered", "turn", "done"}
      BY <2>2, <3>1 DEF Call, Busy, Writes
    <3>3. CASE calls[c].pc \in {"loading", "sent", "turn", "done"}
      BY <2>1, <3>1, <3>3 DEF Ready, StagedAt, Turning
    <3>4. CASE calls[c].pc = "answered"
      <4>1. c \in Requests => Refused(c) /\ c \in Performed
        BY <3>1, <3>4, Names DEF StagedAt, Refused, Answered
      <4>2. c = "boot" => calls[c].answer \in {"ok", "failed", "refused"} /\ c \in Performed
        BY <3>1, <3>4, Names DEF StagedAt
      <4>3. c \in SignIns => calls[c].answer \in {"ok", "pair", "refused", "failed"}
        BY <3>1, <3>4 DEF StagedAt
      <4>4. Answered(c) /\ c \in SignIns \cup SignOuts \cup Requests \cup {"boot", "refresh"}
        BY <3>4, Names DEF Answered
      <4> QED BY <2>1, <4>1, <4>2, <4>3, <4>4 DEF Ready
    <3> QED BY <3>2, <3>3, <3>4
  <2>3. ASSUME NEW c \in Callers, calls[c].pc = "waiting" PROVE Ready
    <3>1. Busy("refresh") /\ "refresh" \in Callers /\ "refresh" \notin Performed
      BY <2>3, Names DEF Staged
    <3>2. calls["refresh"].pc # "waiting"
      BY <3>1 DEF Staged, StagedAt
    <3> QED BY <2>2, <3>1, <3>2
  <2>4. ASSUME inFlight # NoneInFlight PROVE Ready
    <3>1. inFlight.by \in Callers /\ Busy(inFlight.by)
      BY <2>4, Names DEF Orderly, Flies, Turning, Busy
    <3> QED BY <2>2, <2>3, <3>1
  <2> QED BY <2>2, <2>3, <2>4 DEF AtRest
<1>2. Consistent /\ Staged /\ [Next]_vars => (Consistent /\ Staged)'
  BY NextConsistent, StagedKept DEF Consistent
<1>3. Init => Consistent /\ Staged
  BY InitConsistent, InitStaged
<1> QED BY <1>1, <1>2, <1>3, PTL DEF Spec

=============================================================================
