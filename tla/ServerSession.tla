----------------------------- MODULE ServerSession -----------------------------
(***************************************************************************)
(* The session of a visitor on the six ports that render on a server, and  *)
(* the refresh of its tokens, with requests of one browser overlapping.    *)
(* Python, Ruby and Go keep the session in an encrypted or signed cookie:  *)
(* a request works on the copy it brought, and its response carries one    *)
(* back.  PHP, C# and Java keep it at the server: PHP locks its file while *)
(* a request runs, C# loads a copy and stores it whole at the end, Java    *)
(* shares one object among all requests.                                   *)
(*                                                                         *)
(* The backend (external) issues pairs of an access and a refresh token,   *)
(* numbered in order; `start` is the first pair of the sign-in a pair      *)
(* belongs to.  A refresh spends a refresh token for the sign-in's next    *)
(* pair, and presenting one that was spent ends the sign-in.               *)
(***************************************************************************)
EXTENDS Naturals, Sequences, FiniteSets

CONSTANTS
  Ports,     \* those looked at, of the six
  Requests,  \* requests of the browser that may be under way at the same time
  Users,     \* who may sign in
  MaxPairs,  \* bound: pairs issued
  MaxFaults  \* bound: faults

ASSUME ServerConstants ==
  /\ Ports \subseteq {"go", "python", "ruby", "php", "java", "csharp"}
  /\ "nobody" \notin Users
  /\ MaxPairs \in Nat /\ MaxFaults \in Nat

VARIABLES
  port,                            \* which of them this is
  pairs, expired, unspent, ended,  \* backend: pairs, access tokens and refresh tokens, sign-ins over
  stored,                          \* the session at the server, or in the browser's cookie
  req,                             \* the requests under way
  faults, alone,                   \* history: faults; no refresh overlapped, none was lost
  left, late                       \* history: signed out since, and the requests then under way

server  == <<pairs, expired, unspent, ended>>
history == <<faults, alone>>
vars    == <<port, server, stored, req, history, left, late>>

-----------------------------------------------------------------------------
(* How the ports differ.                                                   *)

InCookie   == {"go", "python", "ruby"}
Live       == {"java"}          \* one object for all requests
OneAtATime == {"php"}           \* the session file is locked
SideBySide == {"csharp"}        \* two calls of a page at once: Task.WhenAll
Snapshot   == {"go", "java"}    \* data calls carry the token read when the request began
GoesOn     == {"go", "php", "java", "csharp"} \* a later call after a failed one

\* The refresh a clock asks for, before the call.
RefreshesAhead(op, c) ==
  \/ port = "python" /\ op \in {"data", "logout"} /\ c = 1
  \/ port = "ruby" /\ op = "data"

\* Whether a call answers a 401 with a refresh: the possibilities.  The calls
\* Python gathers for a page are not wrapped in call_with_reauth.
Recovers(op, c) ==
  IF port = "python" /\ op = "data" /\ c = 2 THEN BOOLEAN
  ELSE { \/ op = "data"
         \/ op = "login" /\ port \in {"php", "csharp"}
         \/ op = "logout" /\ port = "csharp" }

-----------------------------------------------------------------------------
None   == 0
Calls  == 1..2
Nobody == [pair |-> None, user |-> "nobody"]
ToDo   == [pc |-> "todo", token |-> None, got |-> None, seen |-> "nobody", retried |-> FALSE]
Idle   == [op |-> "none", who |-> "nobody", mine |-> Nobody, changed |-> FALSE,
           token |-> None, call |-> [c \in Calls |-> ToDo]]

Over == {"done", "failed", "broken"}
Busy(r) == req[r].op # "none"
Pc(r, c) == req[r].call[c].pc
SomeCall(r, pcs) == \E c \in Calls : Pc(r, c) \in pcs

\* The session as request r finds it.
Session(r) == IF port \in Live THEN stored ELSE req[r].mine

Init ==
  /\ port \in Ports
  /\ pairs = <<>> /\ expired = {} /\ unspent = {} /\ ended = {}
  /\ stored = Nobody
  /\ req = [r \in Requests |-> Idle]
  /\ faults = 0 /\ alone = TRUE
  /\ left = FALSE /\ late = {}

Fault == faults < MaxFaults /\ faults' = faults + 1

\* The stored session becomes s by the hand of r.
Store(r, s) ==
  /\ stored' = s
  /\ left' = (left /\ (s = Nobody \/ (req[r].op # "login" /\ r \notin late)))

\* Call c of r goes on as `call`, and the session r works on is s.
Change(r, c, call, s) ==
  IF port \in Live
  THEN /\ req' = [req EXCEPT ![r].call[c] = call]
       /\ Store(r, s)
  ELSE /\ req' = [req EXCEPT ![r].call[c] = call, ![r].mine = s, ![r].changed = TRUE]
       /\ UNCHANGED <<stored, left>>

GoOn(r, c, call) ==
  /\ req' = [req EXCEPT ![r].call[c] = call]
  /\ UNCHANGED <<stored, left>>

To(r, c, pc) == GoOn(r, c, [ToDo EXCEPT !.pc = pc])

-----------------------------------------------------------------------------
(* The backend.                                                            *)

Accepts(t) == t # None /\ t \notin expired /\ pairs[t].start \notin ended

Next1 == Len(pairs) + 1
Issue(user, start) ==
  /\ Len(pairs) < MaxPairs
  /\ pairs' = Append(pairs, [user |-> user, start |-> start])

\* The refresh token of pair t is presented; the answer is the new pair, or None.
Spend(t, answer) ==
  IF t \in unspent /\ pairs[t].start \notin ended
  THEN /\ answer = Next1
       /\ Issue(pairs[t].user, pairs[t].start)
       /\ unspent' = (unspent \ {t}) \cup {Next1}
       /\ UNCHANGED ended
  ELSE /\ answer = None
       /\ ended' = ended \cup {pairs[t].start}
       /\ UNCHANGED <<pairs, unspent>>

-----------------------------------------------------------------------------
(* Requests and their calls.                                               *)

\* A request comes in.  A page needs somebody signed in; only Ruby turns away
\* a sign-in of somebody who already is.
Begin(r, op, who) ==
  /\ ~Busy(r)
  /\ port \in OneAtATime => \A o \in Requests : ~Busy(o)
  /\ \/ op = "login" /\ (port = "ruby" => stored.user = "nobody")
     \/ op # "login" /\ stored.pair # None /\ who = stored.user
  /\ req' = [req EXCEPT ![r] = [Idle EXCEPT
       !.op = op,
       !.who = IF op = "login" THEN who ELSE "nobody",
       !.mine = IF port \in Live THEN Nobody ELSE stored,
       !.token = IF port \in Snapshot THEN stored.pair ELSE None]]
  /\ alone' = (alone /\ \A o \in Requests : ~Busy(o))
  /\ UNCHANGED <<port, server, stored, faults, left, late>>

\* A data request makes up to two calls.  C# asks who has signed in.
Turn(r, c) ==
  /\ Busy(r)
  /\ \/ c = 1
     \/ c = 2 /\ req[r].op = "data" /\ port \in SideBySide
     \/ c = 2 /\ req[r].op = "data" /\ Pc(r, 1) \in (IF port \in GoesOn THEN Over ELSE {"done"})
     \/ c = 2 /\ req[r].op = "login" /\ port = "csharp" /\ Pc(r, 1) = "done"

Token(r) ==
  IF req[r].op = "data" /\ port \in Snapshot THEN req[r].token ELSE Session(r).pair

\* A faulty variant: only the tokens are stored.
SignedInPartly(r) == [pair |-> Next1]

\* The identity a sign-in leaves: C# stores the tokens first.
SignedIn(r) ==
  [pair |-> Next1, user |-> IF port = "csharp" THEN Session(r).user ELSE req[r].who]

\* C# has been told whose the tokens are.
Named(r) == [Session(r) EXCEPT !.user = pairs[Session(r).pair].user]

\* One attempt of a call with access token t.  Refused is a wrong password, or
\* a token that has expired by now or whose sign-in is over.
Attempt(r, c, t, again) ==
  LET signIn  == req[r].op = "login" /\ c = 1
      done    == [ToDo EXCEPT !.pc = "done"]
      refused(recovers) ==
        IF recovers /\ ~again THEN [ToDo EXCEPT !.pc = "refused", !.token = t]
                              ELSE [ToDo EXCEPT !.pc = "failed", !.retried = again]
  IN \/ /\ signIn /\ ~again
        /\ Issue(req[r].who, Next1) /\ unspent' = unspent \cup {Next1}
        /\ Change(r, c, done, SignedIn(r))
        /\ UNCHANGED <<expired, ended>>
     \/ /\ ~signIn /\ Accepts(t)
        /\ ended' = IF req[r].op = "logout" THEN ended \cup {pairs[t].start} ELSE ended
        /\ IF req[r].op = "login" THEN Change(r, c, done, Named(r)) ELSE GoOn(r, c, done)
        /\ UNCHANGED <<pairs, expired, unspent>>
     \/ /\ expired' = IF signIn \/ ~Accepts(t) THEN expired ELSE expired \cup {t}
        /\ \E recovers \in Recovers(req[r].op, c) : GoOn(r, c, refused(recovers))
        /\ UNCHANGED <<pairs, unspent, ended>>

Ask(r, c) ==
  /\ Turn(r, c) /\ Pc(r, c) \in {"todo", "ready"}
  /\ Attempt(r, c, Token(r), FALSE)
  /\ UNCHANGED <<port, history, late>>

Again(r, c) ==
  /\ Pc(r, c) = "again"
  /\ Attempt(r, c, req[r].call[c].token, TRUE)
  /\ UNCHANGED <<port, history, late>>

\* The refresh token of the session is sent off.
Present(r, c, pc) ==
  \E answer \in 0..MaxPairs :
    /\ Spend(Session(r).pair, answer)
    /\ GoOn(r, c, [req[r].call[c] EXCEPT !.pc = pc, !.got = answer,
                                      !.seen = Session(r).user])

RefreshAhead(r, c) ==
  /\ Turn(r, c) /\ Pc(r, c) = "todo"
  /\ RefreshesAhead(req[r].op, c) /\ Session(r).pair # None
  /\ Present(r, c, "ahead")
  /\ UNCHANGED <<port, expired, faults, alone, late>>

\* Java's recoverFromUnauthorized: the session has moved past the token.
Moved(r, c) == port = "java" /\ Session(r).pair # req[r].call[c].token

\* A faulty variant: a session that has moved on means that nothing can be done.
GivesUp(r) == [ToDo EXCEPT !.pc = "failed"]

\* Without a refresh: again with the session's token, or nothing to go on with.
Unpresented(r) ==
  IF Session(r).pair = None THEN [ToDo EXCEPT !.pc = "failed"]
  ELSE [ToDo EXCEPT !.pc = "again", !.token = Session(r).pair]

\* A refresh begins while another call of the request awaits one.
Overlaps(r, c) == \E d \in Calls \ {c} : Pc(r, d) = "asked"

Recover(r, c) ==
  /\ Pc(r, c) = "refused"
  /\ IF Session(r).pair # None /\ ~Moved(r, c)
     THEN /\ Present(r, c, "asked")
          /\ alone' = (alone /\ ~Overlaps(r, c))
     ELSE /\ GoOn(r, c, Unpresented(r))
          /\ UNCHANGED <<pairs, unspent, ended, alone>>
  /\ UNCHANGED <<port, expired, faults, late>>

\* A faulty variant: only the tokens are written, whoever is signed in by then.
RotatedTokens(r, c) == [pair |-> req[r].call[c].got, user |-> Session(r).user]

\* The session with the new pair: Java writes the one it read, with new tokens.
Rotated(r, c) ==
  [pair |-> req[r].call[c].got,
   user |-> IF port = "java" THEN req[r].call[c].seen ELSE Session(r).user]

\* What a call does when the refresh gave it nothing.
Unrefreshed(r, c) == IF port = "ruby" /\ Pc(r, c) = "ahead" THEN "ready" ELSE "failed"

Answer(r, c) ==
  /\ Pc(r, c) \in {"asked", "ahead"}
  /\ LET got == req[r].call[c].got
         then(pc) == [ToDo EXCEPT !.pc = pc, !.token = got]
     IN IF got # None
        THEN Change(r, c, then(IF Pc(r, c) = "ahead" THEN "ready" ELSE "again"), Rotated(r, c))
        ELSE IF port = "python"
        THEN Change(r, c, then("failed"), Nobody)
        ELSE To(r, c, Unrefreshed(r, c))
  /\ UNCHANGED <<port, server, history, late>>

\* The backend has rotated the token, and its answer does not arrive.  C# catches
\* a connection that fails, but not a call that times out.
LoseAnswer(r, c) ==
  /\ Pc(r, c) \in {"asked", "ahead"} /\ req[r].call[c].got # None
  /\ Fault /\ alone' = FALSE
  /\ \E pc \in CASE port = "python" -> {"crashed"}
                 [] port = "csharp" -> {"failed", "broken"}
                 [] OTHER -> {Unrefreshed(r, c)} : To(r, c, pc)
  /\ UNCHANGED <<port, server, late>>

\* The access token a call is made with.
With(r, c) == IF Pc(r, c) = "again" THEN req[r].call[c].token ELSE Token(r)

\* A call fails otherwise than by a 401.  Only on C# does the session tell that
\* from a call that went well (or, on Python, from a response that does not
\* arrive): where it asks who has signed in, and where the call that signs out
\* times out, which the backend may have heard all the same.
Break(r, c) ==
  /\ port = "csharp" /\ Turn(r, c) /\ Pc(r, c) \in {"todo", "refused", "again"}
  /\ \/ req[r].op = "login" /\ c = 2
     \/ req[r].op = "logout"
  /\ Fault
  /\ To(r, c, "broken")
  /\ \/ UNCHANGED <<ended, alone>>
     \/ /\ req[r].op = "logout" /\ Pc(r, c) # "refused" /\ Accepts(With(r, c))
        /\ ended' = ended \cup {pairs[With(r, c)].start} /\ alone' = FALSE
  /\ UNCHANGED <<port, pairs, expired, unspent, late>>

-----------------------------------------------------------------------------
(* The end of a request.                                                   *)

Finished(r) ==
  /\ \A c \in Calls : Pc(r, c) \in Over \cup {"todo"}
  /\ req[r].op # "data" => Pc(r, 1) # "todo"
  /\ req[r].op = "login" /\ port = "csharp" /\ Pc(r, 1) = "done" => Pc(r, 2) # "todo"

\* The user is told that he is signed out; but for a sign-out that timed out on
\* C#, which is answered by the error page.
SignsOut(r) == req[r].op = "logout" /\ ~SomeCall(r, {"broken"})

\* A faulty variant: only a sign-out the backend confirmed clears the session.
ClearsWhenConfirmed(r) ==
  \/ req[r].op = "logout" /\ Pc(r, 1) = "done"
  \/ port = "csharp" /\ req[r].op = "login" /\ Pc(r, 2) = "failed"
  \/ port = "ruby" /\ req[r].op = "data" /\ SomeCall(r, {"failed"})

\* Signed out; a C# sign-in whose user could not be had; Ruby's last 401.
Clears(r) ==
  \/ SignsOut(r)
  \/ port = "csharp" /\ req[r].op = "login" /\ Pc(r, 2) = "failed"
  \/ port = "ruby" /\ req[r].op = "data" /\ SomeCall(r, {"failed"})

\* A faulty variant: Go does not save the session after a refresh.
CarriesNoRefresh(r) ==
  \/ Clears(r) \/ (req[r].changed /\ (port = "go" => req[r].op = "login"))
  \/ port = "python" /\ req[r].mine # Nobody
  \/ port = "ruby"

\* Whether a session goes back: Go and C# store one that changed, Python one
\* that is not empty as well, Ruby any.
Carries(r) ==
  \/ Clears(r) \/ req[r].changed
  \/ port = "python" /\ req[r].mine # Nobody
  \/ port = "ruby"

\* The stored session when r has been answered.
Final(r) ==
  IF Clears(r) THEN Nobody
  ELSE IF port \notin Live /\ Carries(r) THEN req[r].mine
  ELSE stored

Respond(r) ==
  /\ Busy(r) /\ Finished(r)
  /\ IF SignsOut(r)
     THEN /\ stored' = Final(r) /\ left' = TRUE
          /\ late' = {o \in Requests \ {r} : Busy(o)}
     ELSE Store(r, Final(r)) /\ late' = IF left' THEN late \ {r} ELSE {}
  /\ req' = [req EXCEPT ![r] = Idle]
  /\ UNCHANGED <<port, server, history>>

\* The response and its cookie do not arrive.  An error no Python route catches
\* is answered outside the middleware that writes the cookie: a last 401, a
\* refresh without an answer, or (as a fault) any other.
DropResponse(r) ==
  /\ port \in InCookie /\ Busy(r)
  /\ \/ Finished(r) /\ Fault
     \/ /\ port = "python" /\ SomeCall(r, {"failed", "crashed"})
        /\ UNCHANGED faults
  /\ alone' = (alone /\ ~req[r].changed /\ ~Clears(r))
  /\ req' = [req EXCEPT ![r] = Idle]
  /\ late' = late \ {r}
  /\ UNCHANGED <<port, server, stored, left>>

\* PHP's front controller, where no controller caught a 401: the session is emptied.
TurnAway(r) ==
  /\ port = "php" /\ req[r].op = "data" /\ Finished(r) /\ SomeCall(r, {"failed"})
  /\ Store(r, Nobody) /\ late' = IF left' THEN late \ {r} ELSE {}
  /\ req' = [req EXCEPT ![r] = Idle]
  /\ UNCHANGED <<port, server, history>>

\* Java's handler of a 401 no controller caught: sign out.
GiveUp(r) ==
  /\ port = "java" /\ req[r].op = "data" /\ Finished(r) /\ SomeCall(r, {"failed"})
  /\ req' = [req EXCEPT ![r].op = "logout", ![r].call = [c \in Calls |-> ToDo]]
  /\ UNCHANGED <<port, server, stored, history, left, late>>

Next ==
  \E r \in Requests :
    \/ \E op \in {"data", "login", "logout"} : \E who \in Users : Begin(r, op, who)
    \/ Respond(r) \/ DropResponse(r) \/ TurnAway(r) \/ GiveUp(r)
    \/ \E c \in Calls :
         \/ Ask(r, c) \/ Again(r, c) \/ RefreshAhead(r, c) \/ Recover(r, c)
         \/ Answer(r, c) \/ LoseAnswer(r, c) \/ Break(r, c)

Spec == Init /\ [][Next]_vars

-----------------------------------------------------------------------------
(* Properties.                                                             *)

Sessions == [pair : 0..MaxPairs, user : Users \cup {"nobody"}]
States   == Over \cup {"todo", "ahead", "ready", "refused", "asked", "again", "crashed"}
CallType == [pc : States, token : 0..MaxPairs, got : 0..MaxPairs,
             seen : Users \cup {"nobody"}, retried : BOOLEAN]
ReqType  == [op : {"none", "data", "login", "logout"}, who : Users \cup {"nobody"},
             mine : Sessions, changed : BOOLEAN, token : 0..MaxPairs,
             call : [Calls -> CallType]]

\* Type invariant.
TypeOK ==
  /\ port \in Ports
  /\ pairs \in Seq([user : Users, start : 1..MaxPairs]) /\ Len(pairs) <= MaxPairs
  /\ expired \subseteq DOMAIN pairs /\ unspent \subseteq DOMAIN pairs
  /\ ended \subseteq DOMAIN pairs
  /\ stored \in Sessions
  /\ req \in [Requests -> ReqType]
  /\ faults \in 0..MaxFaults /\ alone \in BOOLEAN
  /\ left \in BOOLEAN /\ late \subseteq Requests

\* As long as no two refreshes could overlap and no rotated pair was lost on its
\* way, no refresh is refused: every port stores a rotated pair before a later
\* call needs it, so that none presents a token that was spent (which would end
\* the sign-in) or one of a sign-in that is over.  A sign-out of C# that the
\* backend heard and that timed out ends the sign-in and keeps the session, and
\* is the third exception.
AloneIsRefreshed ==
  \A r \in Requests : \A c \in Calls :
    Pc(r, c) \in {"asked", "ahead"} /\ alone => req[r].call[c].got # None

\* The session names the user its tokens belong to, however refreshes, sign-ins
\* and sign-outs of overlapping requests fall (on C# unless the call that asks
\* for the user failed after the tokens were stored).
UserOwnsTokens ==
  stored.pair # None =>
    \/ stored.user = pairs[stored.pair].user
    \/ port = "csharp" /\ faults > 0

\* Once the user has been told that he is signed out the session stays empty
\* until somebody signs in, whether the remote sign-out succeeded, was refused or
\* failed; only a request that was already under way then can bring it back.  A
\* C# sign-out whose call timed out tells him nothing of the kind: LogoutAsync
\* catches no cancellation, the error page answers, and the session is kept
\* (against MudbaseAuthService.cs:98-100).
SignOutSticks == left => stored = Nobody

\* A page whose requests do not overlap, with no answer lost, is not told that
\* the session has expired before its call was tried with a token obtained
\* after the refusal (the calls Python gathers excepted).
AloneIsServed ==
  \A r \in Requests : \A c \in Calls :
    req[r].op = "data" /\ Pc(r, c) = "failed" /\ alone =>
      req[r].call[c].retried \/ (port = "python" /\ c = 2)

================================================================================
