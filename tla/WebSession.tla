------------------------------ MODULE WebSession ------------------------------
(***************************************************************************)
(* The session of the web application, in several tabs of one browser.     *)
(* The tabs share the stored token and nothing else: each has the token it *)
(* holds in memory and the session it shows.  Signing in and registering   *)
(* store no refresh token here, so a refused token is simply refused.      *)
(*                                                                         *)
(* The backend (external) issues one token for each sign-in, numbered in   *)
(* order; a token is its session.  A token may be refused at any time: it  *)
(* has expired, or its session has ended.                                  *)
(***************************************************************************)
EXTENDS Naturals

CONSTANTS
  Tabs,
  SignOuts,   \* presses of the sign-out button, in each tab
  MaxTokens,  \* bound: tokens issued
  MaxLoads    \* bound: pages loaded again

None   == 0
Tokens == 1..MaxTokens
Flows  == {"boot", "in"} \cup SignOuts

ASSUME WebConstants ==
  MaxTokens \in Nat \ {0} /\ MaxLoads \in Nat /\ {"boot", "in"} \cap SignOuts = {}

VARIABLES
  issued, ended,  \* backend: tokens issued, sessions ended
  stored,         \* localStorage, shared by the tabs
  token,          \* mudbase.ts: the token each tab holds
  session,        \* mudbase-provider.tsx: the session each tab shows
  loading,        \* mudbase-provider.tsx
  flow,           \* the calls under way in each tab
  loads,          \* pages loaded again so far
  crossed, failedOut  \* history, by tab

vars == <<issued, ended, stored, token, session, loading, flow, loads, crossed, failedOut>>
backend == <<issued, ended>>
browser == <<stored, token>>
history == <<crossed, failedOut>>

-----------------------------------------------------------------------------
(* A flow: a call of its own (login, register or logout), then the session *)
(* check that follows it.                                                  *)

Idle == [stage |-> "idle", pc |-> "none", token |-> None, ok |-> FALSE]

\* request() attaches the token held when the call is made.
Sent(stage, t) == [stage |-> stage, pc |-> "sent", token |-> t, ok |-> FALSE]

Under(x, f, stage, pc) == flow[x][f].stage = stage /\ flow[x][f].pc = pc
Set(x, f, record) == flow' = [flow EXCEPT ![x][f] = record]
Quiet(x) == \A f \in Flows : flow[x][f] = Idle

\* A faulty variant: clearing forgets the storage.
HoldInMemory(x, t) ==
  /\ token' = [token EXCEPT ![x] = t]
  /\ stored' = IF t = None THEN stored ELSE t

\* setToken and clearToken: memory and storage at once.
Hold(x, t) ==
  /\ token' = [token EXCEPT ![x] = t]
  /\ stored' = t

Init ==
  /\ issued = 0 /\ ended = {}
  /\ stored = None /\ token = [x \in Tabs |-> None]
  /\ session = [x \in Tabs |-> None] /\ loading = [x \in Tabs |-> FALSE]
  /\ flow = [x \in Tabs |-> [f \in Flows |-> Idle]]
  /\ loads = 0
  /\ crossed = [x \in Tabs |-> FALSE] /\ failedOut = [x \in Tabs |-> FALSE]

\* A page is loaded: the client takes the stored token, and the provider checks
\* it if there is one.
Load(x) ==
  /\ loads < MaxLoads /\ loads' = loads + 1
  /\ token' = [token EXCEPT ![x] = stored]
  /\ session' = [session EXCEPT ![x] = None]
  /\ loading' = [loading EXCEPT ![x] = stored # None]
  /\ flow' = [flow EXCEPT ![x] =
       [f \in Flows |-> IF f = "boot" /\ stored # None THEN Sent("check", stored) ELSE Idle]]
  /\ crossed' = [crossed EXCEPT ![x] = FALSE]
  /\ failedOut' = [failedOut EXCEPT ![x] = FALSE]
  /\ UNCHANGED <<backend, stored>>

\* Another flow of the tab is under way when this one begins.
Begin(x, f) ==
  /\ flow[x][f] = Idle
  /\ crossed' = [crossed EXCEPT ![x] = @ \/ ~Quiet(x)]
  /\ UNCHANGED <<backend, browser, session, loading, loads, failedOut>>

\* A faulty variant: the forms do not wait for the check at the start.
SubmitAtOnce(x, form) ==
  /\ Set(x, "in", Sent(form, None))
  /\ Begin(x, "in")

\* The login and register forms: their button is disabled while loading.
Submit(x, form) ==
  /\ ~loading[x]
  /\ Set(x, "in", Sent(form, None))
  /\ Begin(x, "in")

\* The header's button, there for whoever is shown as signed in, never disabled.
SignOut(x, f) ==
  /\ session[x] # None
  /\ Set(x, f, Sent("logout", token[x]))
  /\ Begin(x, f)

-----------------------------------------------------------------------------
(* The backend.                                                            *)

Accepts(t) == t # None /\ t \notin ended

Reply(x, f, t, ok) ==
  /\ flow[x][f].pc = "sent"
  /\ Set(x, f, [flow[x][f] EXCEPT !.pc = "answered", !.token = t, !.ok = ok])
  /\ UNCHANGED <<browser, session, loading, loads, history>>

\* A registration whose account awaits verification brings no token.
Issues(x, f) ==
  /\ flow[x][f].stage \in {"login", "register"}
  /\ \/ issued < MaxTokens /\ issued' = issued + 1 /\ Reply(x, f, issued + 1, TRUE)
     \/ flow[x][f].stage = "register" /\ UNCHANGED issued /\ Reply(x, f, None, TRUE)
  /\ UNCHANGED ended

Accept(x, f) ==
  /\ flow[x][f].stage \in {"check", "logout"} /\ Accepts(flow[x][f].token)
  /\ Reply(x, f, flow[x][f].token, TRUE)
  /\ ended' = IF flow[x][f].stage = "logout" THEN ended \cup {flow[x][f].token} ELSE ended
  /\ UNCHANGED issued

\* Refused (token, password, verification), or the call failed.
Refuse(x, f) ==
  /\ Reply(x, f, flow[x][f].token, FALSE)
  /\ UNCHANGED backend

-----------------------------------------------------------------------------
(* The application.                                                        *)

\* login and register keep the token, then check the session with it.
SignedIn(x) ==
  /\ flow[x]["in"].stage \in {"login", "register"} /\ flow[x]["in"].pc = "answered"
  /\ LET answer == flow[x]["in"] IN
     IF answer.ok /\ answer.token # None
     THEN Hold(x, answer.token) /\ Set(x, "in", Sent("check", answer.token))
     ELSE Set(x, "in", Idle) /\ UNCHANGED browser
  /\ UNCHANGED <<backend, session, loading, loads, history>>

\* A faulty variant: what follows the sign-out is a check of no kind there is.
LoggedOutUnchecked(x, f) ==
  /\ Under(x, f, "logout", "answered")
  /\ Hold(x, None)
  /\ Set(x, f, IF flow[x][f].ok THEN Sent("session", None) ELSE Idle)
  /\ failedOut' = [failedOut EXCEPT ![x] = ~flow[x][f].ok]
  /\ UNCHANGED <<backend, session, loading, loads, crossed>>

\* logout clears the token whatever the answer; a failed call is thrown on, and
\* the session check after it is not made.
LoggedOut(x, f) ==
  /\ Under(x, f, "logout", "answered")
  /\ Hold(x, None)
  /\ Set(x, f, IF flow[x][f].ok THEN Sent("check", None) ELSE Idle)
  /\ failedOut' = [failedOut EXCEPT ![x] = ~flow[x][f].ok]
  /\ UNCHANGED <<backend, session, loading, loads, crossed>>

\* A faulty variant: the token of a failed check is kept.
CheckedKeeping(x, f) ==
  /\ Under(x, f, "check", "answered")
  /\ session' = [session EXCEPT ![x] = IF flow[x][f].ok THEN flow[x][f].token ELSE None]
  /\ loading' = [loading EXCEPT ![x] = @ /\ f # "boot"]
  /\ Set(x, f, Idle)
  /\ UNCHANGED <<backend, browser, loads, history>>

\* refreshSession of the provider: show the session, or clear whatever is held.
Checked(x, f) ==
  /\ Under(x, f, "check", "answered")
  /\ IF flow[x][f].ok
     THEN session' = [session EXCEPT ![x] = flow[x][f].token] /\ UNCHANGED browser
     ELSE session' = [session EXCEPT ![x] = None] /\ Hold(x, None)
  /\ loading' = [loading EXCEPT ![x] = @ /\ f # "boot"]
  /\ Set(x, f, Idle)
  /\ UNCHANGED <<backend, loads, history>>

Works ==
  \E x \in Tabs :
    \/ \E f \in Flows : Issues(x, f) \/ Accept(x, f) \/ Refuse(x, f) \/ Checked(x, f)
    \/ SignedIn(x)
    \/ \E f \in SignOuts : LoggedOut(x, f)

Asks ==
  \E x \in Tabs :
    \/ Load(x)
    \/ \E form \in {"login", "register"} : Submit(x, form)
    \/ \E f \in SignOuts : SignOut(x, f)

Next == Works \/ Asks

Spec == Init /\ [][Next]_vars

-----------------------------------------------------------------------------
(* Properties.                                                             *)

\* Every variable has its type.
TypeOK ==
  /\ issued \in 0..MaxTokens /\ ended \subseteq Tokens
  /\ stored \in 0..MaxTokens /\ token \in [Tabs -> 0..MaxTokens]
  /\ session \in [Tabs -> 0..MaxTokens] /\ loading \in [Tabs -> BOOLEAN]
  /\ flow \in [Tabs -> [Flows -> [stage : {"idle", "login", "register", "logout", "check"},
                                  pc : {"none", "sent", "answered"},
                                  token : 0..MaxTokens, ok : BOOLEAN]]]
  /\ loads \in 0..MaxLoads
  /\ {crossed, failedOut} \subseteq [Tabs -> BOOLEAN]

\* A tab at rest shows the session of the token it holds, and nobody when it
\* holds none (mudbase-provider.tsx:26-48); after a failed sign-out it shows a
\* session it has no token for.  Flows of the tab that overlap are apart.
ShownIsHeld ==
  \A x \in Tabs :
    Quiet(x) /\ ~crossed[x] => session[x] = token[x] \/ (failedOut[x] /\ token[x] = None)

\* Once every tab has let go of its token none is left in the storage they
\* share, so loading a page signs nobody in again (mudbase.ts:127-147, 237-243).
NothingLeftBehind == (\A x \in Tabs : token[x] = None) => stored = None

\* A session check that fails clears the token it was made with and no other
\* (mudbase-provider.tsx:30-33): the check at the start of a page never undoes a
\* sign-in made meanwhile in that tab.
CheckClearsItsOwn ==
  [][\A x \in Tabs : \A f \in Flows :
       Checked(x, f) /\ ~flow[x][f].ok /\ (crossed[x] => f = "boot") =>
         token[x] = flow[x][f].token]_vars

=============================================================================
