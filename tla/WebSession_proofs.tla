--------------------------- MODULE WebSession_proofs ---------------------------
(***************************************************************************)
(* The tabs of the web client leave no token behind in the storage they    *)
(* share, a session check that fails clears no other token than its own,   *)
(* and a tab at rest shows the session it holds: for any tabs and presses  *)
(* of the sign-out button, any number of sign-ins and of pages loaded      *)
(* again.                                                                  *)
(*                                                                         *)
(* The arguments: the stored token is always one that some tab holds,      *)
(* since a tab writes the storage only together with its own token, and    *)
(* loading a page takes what is stored.  And while the check of a page's   *)
(* start is under way nothing else can begin in its tab.                   *)
(***************************************************************************)
EXTENDS WebSession, TLAPS

-----------------------------------------------------------------------------
(* Types.                                                                  *)

Held == 0..MaxTokens
Flow == [stage : {"idle", "login", "register", "logout", "check"},
         pc : {"none", "sent", "answered"}, token : Held, ok : BOOLEAN]

LEMMA Small ==
  /\ MaxTokens \in Nat /\ MaxLoads \in Nat /\ None = 0 /\ None \in Held /\ Tokens \subseteq Held
  /\ {"boot", "in"} \subseteq Flows /\ SignOuts \subseteq Flows
  /\ Idle \in Flow
  /\ \A stage \in {"login", "register", "logout", "check"} : \A t \in Held :
       Sent(stage, t) \in Flow
BY WebConstants DEF None, Held, Tokens, Flows, Idle, Flow, Sent

FlowsTyped == flow \in [Tabs -> [Flows -> Flow]]

LEMMA SetTyped ==
  ASSUME FlowsTyped, NEW x \in Tabs, NEW f \in Flows, NEW record \in Flow, Set(x, f, record)
  PROVE  FlowsTyped'
BY DEF FlowsTyped, Set

LEMMA HoldTyped ==
  ASSUME token \in [Tabs -> Held], NEW x \in Tabs, NEW t \in Held, Hold(x, t)
  PROVE  token' \in [Tabs -> Held] /\ stored' \in Held
BY DEF Hold

LEMMA FlowTyped ==
  ASSUME FlowsTyped, NEW x \in Tabs, NEW f \in Flows
  PROVE  flow[x][f] \in Flow
BY DEF FlowsTyped

LEMMA ReplyTyped ==
  ASSUME TypeOK, NEW x \in Tabs, NEW f \in Flows, NEW t \in Held, NEW ok \in BOOLEAN,
         Reply(x, f, t, ok), issued' \in 0..MaxTokens, ended' \subseteq Tokens
  PROVE  TypeOK'
<1>1. FlowsTyped /\ flow[x][f] \in Flow
  BY DEF TypeOK, FlowsTyped, Flow, Held
<1>2. [flow[x][f] EXCEPT !.pc = "answered", !.token = t, !.ok = ok] \in Flow
  BY <1>1 DEF Flow
<1>3. FlowsTyped'
  BY <1>1, <1>2, SetTyped DEF Reply
<1> QED
  BY <1>3 DEF TypeOK, Reply, browser, history, FlowsTyped, Flow, Held

LEMMA Typing == TypeOK /\ [Next]_vars => TypeOK'
<1> USE Small
<1> SUFFICES ASSUME TypeOK, [Next]_vars PROVE TypeOK'
  OBVIOUS
<1> DEFINE Rest == /\ issued' \in 0..MaxTokens /\ ended' \subseteq Tokens
                   /\ stored' \in Held /\ token' \in [Tabs -> Held]
                   /\ session' \in [Tabs -> Held] /\ loading' \in [Tabs -> BOOLEAN]
                   /\ loads' \in 0..MaxLoads
                   /\ crossed' \in [Tabs -> BOOLEAN] /\ failedOut' \in [Tabs -> BOOLEAN]
<1>1. FlowsTyped' /\ Rest => TypeOK'
  BY DEF TypeOK, FlowsTyped, Flow, Held
<1>2. /\ FlowsTyped /\ issued \in 0..MaxTokens /\ ended \subseteq Tokens
      /\ stored \in Held /\ token \in [Tabs -> Held]
      /\ session \in [Tabs -> Held] /\ loading \in [Tabs -> BOOLEAN]
      /\ loads \in 0..MaxLoads
      /\ crossed \in [Tabs -> BOOLEAN] /\ failedOut \in [Tabs -> BOOLEAN]
  BY DEF TypeOK, FlowsTyped, Flow, Held
<1> HIDE DEF Rest
<1>3. CASE UNCHANGED vars
  BY <1>3 DEF vars, TypeOK
<1>4. ASSUME NEW x \in Tabs, Load(x) PROVE TypeOK'
  <2>1. Rest
    BY <1>2, <1>4 DEF Load, backend, Rest
  <2>2. [f \in Flows |-> IF f = "boot" /\ stored # None THEN Sent("check", stored) ELSE Idle]
          \in [Flows -> Flow]
    BY <1>2
  <2>3. FlowsTyped'
    BY <1>2, <1>4, <2>2 DEF Load, FlowsTyped
  <2> QED
    BY <1>1, <2>1, <2>3
<1>5. ASSUME NEW x \in Tabs, NEW form \in {"login", "register"}, Submit(x, form) PROVE TypeOK'
  <2>1. Rest
    BY <1>2, <1>5 DEF Submit, Begin, backend, browser, Rest
  <2>2. FlowsTyped'
    BY <1>2, <1>5, SetTyped DEF Submit
  <2> QED
    BY <1>1, <2>1, <2>2
<1>6. ASSUME NEW x \in Tabs, NEW f \in SignOuts, SignOut(x, f) PROVE TypeOK'
  <2>1. Rest
    BY <1>2, <1>6 DEF SignOut, Begin, backend, browser, Rest
  <2>2. f \in Flows /\ Sent("logout", token[x]) \in Flow
    BY <1>2
  <2>3. FlowsTyped'
    BY <1>2, <1>6, <2>2, SetTyped DEF SignOut
  <2> QED
    BY <1>1, <2>1, <2>3
<1>7. ASSUME NEW x \in Tabs, NEW f \in Flows, Issues(x, f) \/ Accept(x, f) \/ Refuse(x, f)
      PROVE  TypeOK'
  <2>1. flow[x][f].token \in Held
    BY <1>2, FlowTyped DEF Flow
  <2>2. CASE Issues(x, f)
    <3>1. CASE issued < MaxTokens /\ issued' = issued + 1 /\ Reply(x, f, issued + 1, TRUE)
               /\ UNCHANGED ended
      <4>1. issued + 1 \in Held /\ issued' \in 0..MaxTokens
        BY <1>2, <3>1 DEF Held
      <4> QED
        BY <1>2, <3>1, <4>1, ReplyTyped
    <3>2. CASE UNCHANGED issued /\ Reply(x, f, None, TRUE) /\ UNCHANGED ended
      BY <1>2, <3>2, ReplyTyped
    <3> QED
      BY <2>2, <3>1, <3>2 DEF Issues
  <2>3. CASE Accept(x, f)
    <3>1. flow[x][f].token \in Tokens
      BY <2>1, <2>3 DEF Accept, Accepts, Tokens, Held
    <3>2. ended' \subseteq Tokens /\ issued' \in 0..MaxTokens
      BY <1>2, <2>3, <3>1 DEF Accept
    <3> QED
      BY <2>1, <2>3, <3>2, ReplyTyped DEF Accept
  <2>4. CASE Refuse(x, f)
    BY <1>2, <2>1, <2>4, ReplyTyped DEF Refuse, backend
  <2> QED
    BY <1>7, <2>2, <2>3, <2>4
<1>8. ASSUME NEW x \in Tabs, SignedIn(x) PROVE TypeOK'
  <2>1. flow[x]["in"].token \in Held
    BY <1>2, FlowTyped DEF Flow
  <2>2. UNCHANGED <<issued, ended, session, loading, loads, crossed, failedOut>>
    BY <1>8 DEF SignedIn, backend, history
  <2>3. CASE flow[x]["in"].ok /\ flow[x]["in"].token # None
    <3>1. Hold(x, flow[x]["in"].token) /\ Set(x, "in", Sent("check", flow[x]["in"].token))
      BY <1>8, <2>3 DEF SignedIn
    <3>2. Rest
      BY <1>2, <2>1, <2>2, <3>1, HoldTyped DEF Rest
    <3>3. FlowsTyped'
      BY <1>2, <2>1, <3>1, SetTyped
    <3> QED
      BY <1>1, <3>2, <3>3
  <2>4. CASE ~(flow[x]["in"].ok /\ flow[x]["in"].token # None)
    <3>1. Set(x, "in", Idle) /\ UNCHANGED <<stored, token>>
      BY <1>8, <2>4 DEF SignedIn, browser
    <3>2. Rest
      BY <1>2, <2>2, <3>1 DEF Rest
    <3>3. FlowsTyped'
      BY <1>2, <3>1, SetTyped
    <3> QED
      BY <1>1, <3>2, <3>3
  <2> QED
    BY <2>3, <2>4
<1>9. ASSUME NEW x \in Tabs, NEW f \in SignOuts, LoggedOut(x, f) PROVE TypeOK'
  <2>1. (IF flow[x][f].ok THEN Sent("check", None) ELSE Idle) \in Flow /\ flow[x][f].ok \in BOOLEAN
    BY <1>2, FlowTyped DEF Flow
  <2>2. FlowsTyped'
    BY <1>2, <1>9, <2>1, SetTyped DEF LoggedOut
  <2>3. token' \in [Tabs -> Held] /\ stored' \in Held
    BY <1>2, <1>9, HoldTyped DEF LoggedOut
  <2>4. Rest
    BY <1>2, <1>9, <2>1, <2>3 DEF LoggedOut, backend, Rest
  <2> QED
    BY <1>1, <2>2, <2>4
<1>10. ASSUME NEW x \in Tabs, NEW f \in Flows, Checked(x, f) PROVE TypeOK'
  <2>1. flow[x][f].token \in Held
    BY <1>2, FlowTyped DEF Flow
  <2>2. FlowsTyped'
    BY <1>2, <1>10, SetTyped DEF Checked
  <2>3. token' \in [Tabs -> Held] /\ stored' \in Held /\ session' \in [Tabs -> Held]
    BY <1>2, <1>10, <2>1, HoldTyped DEF Checked, browser
  <2>4. Rest
    BY <1>2, <1>10, <2>3 DEF Checked, backend, history, Rest
  <2> QED
    BY <1>1, <2>2, <2>4
<1> QED
  BY <1>3, <1>4, <1>5, <1>6, <1>7, <1>8, <1>9, <1>10 DEF Next, Works, Asks

-----------------------------------------------------------------------------
(* The theorems.                                                           *)

LEMMA InitTyped == Init => TypeOK
BY Small DEF Init, TypeOK, Held, Flow

\* Every variable keeps its type: what a tab sends, holds, stores or shows is a
\* token that was issued, or none.
THEOREM WebTypes == Spec => []TypeOK
BY InitTyped, Typing, PTL DEF Spec

\* What is stored is held by some tab.
StoredIsHeld == stored # None => \E x \in Tabs : token[x] = stored

LEMMA StoredStaysHeld ==
  ASSUME TypeOK, StoredIsHeld, [Next]_vars
  PROVE  StoredIsHeld'
<1> USE DEF StoredIsHeld
<1>1. token \in [Tabs -> Held]
  BY DEF TypeOK, Held
<1>2. CASE UNCHANGED browser
  BY <1>2 DEF browser
<1>3. ASSUME NEW x \in Tabs, NEW t, Hold(x, t) PROVE StoredIsHeld'
  BY <1>1, <1>3 DEF Hold
<1>4. ASSUME NEW x \in Tabs, Load(x) PROVE StoredIsHeld'
  BY <1>1, <1>4 DEF Load
<1>5. ASSUME NEW x \in Tabs, NEW f \in Flows, Issues(x, f) \/ Accept(x, f) \/ Refuse(x, f)
      PROVE  StoredIsHeld'
  BY <1>2, <1>5 DEF Issues, Accept, Refuse, Reply
<1>6. ASSUME NEW x \in Tabs, NEW f \in Flows,
             Checked(x, f) \/ SignedIn(x) \/ LoggedOut(x, f)
      PROVE  StoredIsHeld'
  BY <1>2, <1>3, <1>6 DEF Checked, SignedIn, LoggedOut
<1>7. ASSUME NEW x \in Tabs, NEW f \in Flows, NEW form,
             Submit(x, form) \/ SignOut(x, f)
      PROVE  StoredIsHeld'
  BY <1>2, <1>7 DEF Submit, SignOut, Begin
<1>8. CASE UNCHANGED vars
  BY <1>2, <1>8 DEF vars, browser
<1> QED
  BY <1>4, <1>5, <1>6, <1>7, <1>8, Small DEF Next, Works, Asks

\* Once every tab has let go of its token, none is left in the storage, so that
\* loading a page signs nobody in again.
THEOREM WebLeavesNothing == Spec => []NothingLeftBehind
<1>1. Init => TypeOK /\ StoredIsHeld
  BY InitTyped DEF Init, StoredIsHeld
<1>2. TypeOK /\ StoredIsHeld /\ [Next]_vars => TypeOK' /\ StoredIsHeld'
  BY Typing, StoredStaysHeld
<1>3. StoredIsHeld => NothingLeftBehind
  BY DEF StoredIsHeld, NothingLeftBehind
<1> QED
  BY <1>1, <1>2, <1>3, PTL DEF Spec

\* While the start's check is under way, the tab is loading and does nothing else.
Starting(x) ==
  flow[x]["boot"] # Idle =>
    /\ loading[x] /\ session[x] = None
    /\ flow[x]["boot"].stage = "check" /\ flow[x]["boot"].token = token[x]
    /\ \A f \in Flows : f # "boot" => flow[x][f] = Idle

\* Flows of a tab that never overlapped come one after another, each check with
\* the token that is held.
OneByOne(x) ==
  ~crossed[x] =>
    /\ \A f, g \in Flows : flow[x][f] # Idle /\ flow[x][g] # Idle => f = g
    /\ \A f \in Flows : flow[x][f].stage = "check" => flow[x][f].token = token[x]

Checking == \A x \in Tabs : Starting(x) /\ OneByOne(x)

\* Nothing of the tab has changed that the two parts speak of.
LEMMA Unchanged ==
  ASSUME Checking, NEW x \in Tabs, flow'[x] = flow[x], loading'[x] = loading[x],
         session'[x] = session[x], token'[x] = token[x], crossed'[x] = crossed[x]
  PROVE  Starting(x)' /\ OneByOne(x)'
BY DEF Checking, Starting, OneByOne

\* A flow of tab x goes on as `record`: one that is at its end, or whose call has
\* been answered, or that now checks the token the tab holds.
LEMMA GoesOn ==
  ASSUME TypeOK, Checking, NEW x \in Tabs, NEW f \in Flows, NEW record \in Flow,
         flow[x][f] # Idle, Set(x, f, record), crossed' = crossed,
         \A o \in Tabs : o # x => /\ token'[o] = token[o] /\ session'[o] = session[o]
                                 /\ loading'[o] = loading[o],
         record.stage = "check" => record.token = token'[x] \/ (crossed[x] /\ f # "boot"),
         f = "boot" => \/ record = Idle
                       \/ /\ record.stage = "check" /\ session'[x] = session[x]
                          /\ loading'[x] = loading[x]
  PROVE  Checking'
<1> USE Small
<1>1. FlowsTyped /\ FlowsTyped'
  <2>1. FlowsTyped
    BY DEF TypeOK, FlowsTyped, Flow, Held
  <2> QED
    BY <2>1, SetTyped
<1>2. /\ flow'[x][f] = record /\ \A g \in Flows : g # f => flow'[x][g] = flow[x][g]
      /\ \A o \in Tabs : o # x => flow'[o] = flow[o]
  BY <1>1 DEF FlowsTyped, Set
<1>3. Idle.stage = "idle"
  BY DEF Idle
<1>4. ASSUME NEW o \in Tabs, o # x PROVE Starting(o)' /\ OneByOne(o)'
  BY <1>2, <1>4, Unchanged
<1>5. Starting(x)'
  <2>1. CASE f = "boot"
    BY <1>2, <2>1 DEF Checking, Starting
  <2>2. CASE f # "boot"
    <3>1. flow[x]["boot"] = Idle
      BY <2>2 DEF Checking, Starting
    <3> QED
      BY <1>2, <2>2, <3>1 DEF Starting
  <2> QED
    BY <2>1, <2>2
<1>6. OneByOne(x)'
  <2> SUFFICES ASSUME ~crossed[x]
               PROVE  /\ \A g, k \in Flows : flow'[x][g] # Idle /\ flow'[x][k] # Idle => g = k
                      /\ \A g \in Flows : flow'[x][g].stage = "check" => flow'[x][g].token = token'[x]
    BY DEF OneByOne
  <2>1. \A g \in Flows : g # f => flow[x][g] = Idle
    BY DEF Checking, OneByOne
  <2> QED
    BY <1>2, <1>3, <2>1
<1> QED
  BY <1>4, <1>5, <1>6 DEF Checking

LEMMA Begins ==
  ASSUME TypeOK, Checking, NEW x \in Tabs, NEW f \in Flows, NEW record \in Flow,
         flow[x]["boot"] = Idle, f # "boot", record.stage # "check",
         Set(x, f, record), Begin(x, f)
  PROVE  Checking'
<1> USE Small
<1>1. FlowsTyped /\ crossed \in [Tabs -> BOOLEAN]
  BY DEF TypeOK, FlowsTyped, Flow, Held
<1>2. /\ flow'[x][f] = record /\ \A g \in Flows : g # f => flow'[x][g] = flow[x][g]
      /\ \A o \in Tabs : o # x => flow'[o] = flow[o]
  BY <1>1 DEF FlowsTyped, Set
<1>3. /\ UNCHANGED <<token, session, loading>>
      /\ crossed'[x] = (crossed[x] \/ ~Quiet(x))
      /\ \A o \in Tabs : o # x => crossed'[o] = crossed[o]
  BY <1>1 DEF Begin, browser
<1>4. ASSUME NEW o \in Tabs, o # x PROVE Starting(o)' /\ OneByOne(o)'
  BY <1>2, <1>3, <1>4, Unchanged
<1>5. Starting(x)'
  BY <1>2 DEF Starting
<1>6. OneByOne(x)'
  <2> SUFFICES ASSUME Quiet(x) PROVE OneByOne(x)'
    BY <1>3 DEF OneByOne
  <2>1. \A g \in Flows : g # f => flow'[x][g] = Idle /\ Idle.stage = "idle"
    BY <1>2 DEF Quiet, Idle
  <2> QED
    BY <1>2, <2>1 DEF OneByOne
<1> QED
  BY <1>4, <1>5, <1>6 DEF Checking

LEMMA CheckingKept ==
  ASSUME TypeOK, Checking, [Next]_vars
  PROVE  Checking'
<1> USE Small
<1>1. /\ FlowsTyped /\ token \in [Tabs -> Held] /\ session \in [Tabs -> Held]
      /\ loading \in [Tabs -> BOOLEAN] /\ crossed \in [Tabs -> BOOLEAN] /\ stored \in Held
  BY DEF TypeOK, FlowsTyped, Flow, Held
<1>2. Idle.pc = "none" /\ Idle.stage = "idle"
  BY DEF Idle
<1>3. ASSUME NEW x \in Tabs, Load(x) PROVE Checking'
  <2>1. ASSUME NEW o \in Tabs, o # x PROVE Starting(o)' /\ OneByOne(o)'
    BY <1>1, <1>3, <2>1, Unchanged DEF Load, FlowsTyped
  <2>2. /\ token'[x] = stored /\ session'[x] = None /\ loading'[x] = (stored # None)
        /\ \A f \in Flows :
             flow'[x][f] = IF f = "boot" /\ stored # None THEN Sent("check", stored) ELSE Idle
    BY <1>1, <1>3 DEF Load, FlowsTyped
  <2>3. Sent("check", stored).stage = "check" /\ Sent("check", stored).token = stored
    BY DEF Sent
  <2>4. Starting(x)' /\ OneByOne(x)'
    BY <1>2, <2>2, <2>3 DEF Starting, OneByOne
  <2> QED
    BY <2>1, <2>4 DEF Checking
<1>4. ASSUME NEW x \in Tabs, NEW form \in {"login", "register"}, Submit(x, form) PROVE Checking'
  <2>1. flow[x]["boot"] = Idle
    BY <1>4 DEF Submit, Checking, Starting
  <2>2. Sent(form, None) \in Flow /\ Sent(form, None).stage # "check"
    BY DEF Sent
  <2>3. "in" # "boot" /\ "in" \in Flows
    OBVIOUS
  <2> QED
    BY <1>4, <2>1, <2>2, <2>3, Begins DEF Submit
<1>5. ASSUME NEW x \in Tabs, NEW f \in SignOuts, SignOut(x, f) PROVE Checking'
  <2>1. flow[x]["boot"] = Idle
    BY <1>5 DEF SignOut, Checking, Starting
  <2>2. Sent("logout", token[x]) \in Flow /\ Sent("logout", token[x]).stage # "check"
    BY <1>1 DEF Sent
  <2>3. f \in Flows /\ f # "boot"
    BY WebConstants
  <2> QED
    BY <1>5, <2>1, <2>2, <2>3, Begins DEF SignOut
<1>6. ASSUME NEW x \in Tabs, NEW f \in Flows, Issues(x, f) \/ Accept(x, f) \/ Refuse(x, f)
      PROVE  Checking'
  <2>1. PICK t \in Held, ok \in BOOLEAN :
          /\ Reply(x, f, t, ok)
          /\ flow[x][f].stage = "check" => t = flow[x][f].token
    <3>1. flow[x][f].token \in Held
      BY <1>1, FlowTyped DEF Flow
    <3>2. issued < MaxTokens => issued + 1 \in Held
      BY DEF TypeOK, Held
    <3> QED
      BY <1>6, <3>1, <3>2 DEF Issues, Accept, Refuse
  <2> DEFINE record == [flow[x][f] EXCEPT !.pc = "answered", !.token = t, !.ok = ok]
  <2>2. flow[x][f] \in Flow /\ flow[x][f].pc = "sent" /\ Set(x, f, record)
        /\ UNCHANGED <<token, session, loading, crossed>>
    BY <1>1, <2>1, FlowTyped DEF Reply, browser, history
  <2>3. record \in Flow /\ record.stage = flow[x][f].stage /\ record.token = t
    BY <2>2 DEF Flow
  <2>4. flow[x][f] # Idle
    BY <1>2, <2>2
  <2>5. flow[x][f].stage = "check" /\ ~crossed[x] => flow[x][f].token = token[x]
    BY DEF Checking, OneByOne
  <2>6. f = "boot" => flow[x][f].stage = "check" /\ flow[x][f].token = token[x]
    BY <2>4 DEF Checking, Starting
  <2> HIDE DEF record
  <2> QED
    BY <2>1, <2>2, <2>3, <2>4, <2>5, <2>6, GoesOn
<1>7. ASSUME NEW x \in Tabs, SignedIn(x) PROVE Checking'
  <2>1. flow[x]["in"] \in Flow /\ flow[x]["in"] # Idle /\ "in" \in Flows
    BY <1>1, <1>2, <1>7, FlowTyped DEF SignedIn
  <2>2. UNCHANGED <<session, loading, crossed>>
    BY <1>7 DEF SignedIn, history
  <2>3. CASE flow[x]["in"].ok /\ flow[x]["in"].token # None
    <3> DEFINE t == flow[x]["in"].token
    <3>1. Hold(x, t) /\ Set(x, "in", Sent("check", t)) /\ t \in Held
      BY <1>7, <2>1, <2>3 DEF SignedIn, Flow
    <3>2. Sent("check", t) \in Flow /\ Sent("check", t).token = t
      BY <3>1 DEF Sent
    <3>3. token'[x] = t /\ \A o \in Tabs : o # x => token'[o] = token[o]
      BY <1>1, <3>1 DEF Hold
    <3> HIDE DEF t
    <3> QED
      BY <2>1, <2>2, <3>1, <3>2, <3>3, GoesOn
  <2>4. CASE ~(flow[x]["in"].ok /\ flow[x]["in"].token # None)
    <3>1. Set(x, "in", Idle) /\ UNCHANGED token
      BY <1>7, <2>4 DEF SignedIn, browser
    <3> QED
      BY <1>2, <2>1, <2>2, <3>1, GoesOn
  <2> QED
    BY <2>3, <2>4
<1>8. ASSUME NEW x \in Tabs, NEW f \in SignOuts, LoggedOut(x, f) PROVE Checking'
  <2> DEFINE record == IF flow[x][f].ok THEN Sent("check", None) ELSE Idle
  <2>1. flow[x][f] # Idle /\ f \in Flows /\ f # "boot"
    BY <1>2, <1>8, WebConstants DEF LoggedOut, Under
  <2>2. record \in Flow /\ (record.stage = "check" => record.token = None)
    BY <1>2 DEF Sent
  <2>3. /\ Set(x, f, record) /\ UNCHANGED <<session, loading, crossed>>
        /\ token'[x] = None /\ \A o \in Tabs : o # x => token'[o] = token[o]
    BY <1>1, <1>8 DEF LoggedOut, Hold
  <2> HIDE DEF record
  <2> QED
    BY <2>1, <2>2, <2>3, GoesOn
<1>9. ASSUME NEW x \in Tabs, NEW f \in Flows, Checked(x, f) PROVE Checking'
  <2>1. flow[x][f] # Idle /\ Set(x, f, Idle) /\ UNCHANGED crossed
    BY <1>2, <1>9 DEF Checked, Under, history
  <2>2. \A o \in Tabs : o # x => /\ token'[o] = token[o] /\ session'[o] = session[o]
                                 /\ loading'[o] = loading[o]
    BY <1>1, <1>9 DEF Checked, Hold, browser
  <2> QED
    BY <1>2, <2>1, <2>2, GoesOn
<1>10. CASE UNCHANGED vars
  BY <1>10, Unchanged DEF vars, Checking
<1> QED
  BY <1>3, <1>4, <1>5, <1>6, <1>7, <1>8, <1>9, <1>10 DEF Next, Works, Asks

\* A session check that fails clears the token it was made with and no other:
\* the check of a page's start never undoes a sign-in, whatever the other tabs do.
THEOREM WebCheckClearsItsOwn == Spec => CheckClearsItsOwn
<1>1. Init => TypeOK /\ Checking
  BY InitTyped, Small DEF Init, Checking, Starting, OneByOne, Idle
<1>2. TypeOK /\ Checking /\ [Next]_vars => TypeOK' /\ Checking'
  BY Typing, CheckingKept
<1>3. TypeOK /\ Checking =>
        \A x \in Tabs : \A f \in Flows :
          Checked(x, f) /\ ~flow[x][f].ok /\ (crossed[x] => f = "boot") =>
            token[x] = flow[x][f].token
  <2> SUFFICES ASSUME Checking, NEW x \in Tabs, NEW f \in Flows, Checked(x, f),
                      crossed[x] => f = "boot"
               PROVE  token[x] = flow[x][f].token
    OBVIOUS
  <2>1. flow[x][f].stage = "check" /\ flow[x][f] # Idle
    BY DEF Checked, Under, Idle
  <2> QED
    BY <2>1 DEF Checking, Starting, OneByOne
<1> QED
  BY <1>1, <1>2, <1>3, PTL DEF Spec, CheckClearsItsOwn

-----------------------------------------------------------------------------
(* What a tab shows.                                                       *)

\* Unless a check is under way, or flows of the tab have overlapped, the tab
\* shows the session of its token.
Shown(x) ==
  ~crossed[x] => \/ \E f \in Flows : flow[x][f].stage = "check"
                 \/ session[x] = token[x]
                 \/ failedOut[x] /\ token[x] = None

Showing == \A x \in Tabs : Shown(x)

\* Nothing of the tab has changed that Shown speaks of.
LEMMA ShownStays ==
  ASSUME Showing, NEW x \in Tabs, flow'[x] = flow[x], session'[x] = session[x],
         token'[x] = token[x], crossed'[x] = crossed[x], failedOut'[x] = failedOut[x]
  PROVE  Shown(x)'
BY DEF Showing, Shown

\* Flow f of tab x goes on as `record', in none of the other tabs anything.
LEMMA OnlyHere ==
  ASSUME TypeOK, Showing, NEW x \in Tabs, NEW f \in Flows, NEW record \in Flow,
         Set(x, f, record),
         \A o \in Tabs : o # x => /\ token'[o] = token[o] /\ session'[o] = session[o]
                                 /\ crossed'[o] = crossed[o] /\ failedOut'[o] = failedOut[o]
  PROVE  /\ flow'[x][f] = record /\ \A g \in Flows : g # f => flow'[x][g] = flow[x][g]
         /\ Shown(x)' => Showing'
<1>1. FlowsTyped
  BY DEF TypeOK, FlowsTyped, Flow, Held
<1>2. /\ flow'[x][f] = record /\ \A g \in Flows : g # f => flow'[x][g] = flow[x][g]
      /\ \A o \in Tabs : o # x => flow'[o] = flow[o]
  BY <1>1 DEF FlowsTyped, Set
<1>3. \A o \in Tabs : o # x => Shown(o)'
  BY <1>2, ShownStays
<1> QED
  BY <1>2, <1>3 DEF Showing

LEMMA ShowingKept ==
  ASSUME TypeOK, Checking, Showing, [Next]_vars
  PROVE  Showing'
<1> USE Small
<1>1. /\ FlowsTyped /\ token \in [Tabs -> Held] /\ session \in [Tabs -> Held]
      /\ crossed \in [Tabs -> BOOLEAN] /\ failedOut \in [Tabs -> BOOLEAN] /\ stored \in Held
  BY DEF TypeOK, FlowsTyped, Flow, Held
<1>2. Idle.pc = "none" /\ Idle.stage = "idle"
  BY DEF Idle
<1>3. ASSUME NEW x \in Tabs, Load(x) PROVE Showing'
  <2>1. ASSUME NEW o \in Tabs, o # x PROVE Shown(o)'
    BY <1>1, <1>3, <2>1, ShownStays DEF Load, FlowsTyped
  <2>2. /\ token'[x] = stored /\ session'[x] = None
        /\ flow'[x]["boot"] = IF stored # None THEN Sent("check", stored) ELSE Idle
    BY <1>1, <1>3 DEF Load, FlowsTyped
  <2>3. Sent("check", stored).stage = "check"
    BY DEF Sent
  <2>4. Shown(x)'
    BY <2>2, <2>3 DEF Shown
  <2> QED
    BY <2>1, <2>4 DEF Showing
<1>4. ASSUME NEW x \in Tabs, NEW f \in Flows, NEW record \in Flow,
             Set(x, f, record), Begin(x, f)
      PROVE  Showing'
  <2>1. /\ UNCHANGED <<token, session, failedOut>>
        /\ crossed'[x] = (crossed[x] \/ ~Quiet(x))
        /\ \A o \in Tabs : o # x => crossed'[o] = crossed[o]
    BY <1>1, <1>4 DEF Begin, browser
  <2>2. Quiet(x) /\ ~crossed[x] => session[x] = token[x] \/ (failedOut[x] /\ token[x] = None)
    BY <1>2 DEF Showing, Shown, Quiet
  <2>3. Shown(x)'
    BY <2>1, <2>2 DEF Shown
  <2> QED
    BY <1>4, <2>1, <2>3, OnlyHere
<1>5. ASSUME NEW x \in Tabs, NEW form \in {"login", "register"}, Submit(x, form) PROVE Showing'
  <2>1. Sent(form, None) \in Flow /\ "in" \in Flows
    OBVIOUS
  <2> QED
    BY <1>4, <1>5, <2>1 DEF Submit
<1>6. ASSUME NEW x \in Tabs, NEW f \in SignOuts, SignOut(x, f) PROVE Showing'
  <2>1. Sent("logout", token[x]) \in Flow /\ f \in Flows
    BY <1>1
  <2> QED
    BY <1>4, <1>6, <2>1 DEF SignOut
<1>7. ASSUME NEW x \in Tabs, NEW f \in Flows, Issues(x, f) \/ Accept(x, f) \/ Refuse(x, f)
      PROVE  Showing'
  <2>1. PICK t \in Held, ok \in BOOLEAN : Reply(x, f, t, ok)
    <3>1. flow[x][f].token \in Held
      BY <1>1, FlowTyped DEF Flow
    <3>2. issued < MaxTokens => issued + 1 \in Held
      BY DEF TypeOK, Held
    <3> QED
      BY <1>7, <3>1, <3>2 DEF Issues, Accept, Refuse
  <2> DEFINE record == [flow[x][f] EXCEPT !.pc = "answered", !.token = t, !.ok = ok]
  <2>2. flow[x][f] \in Flow /\ Set(x, f, record) /\ UNCHANGED <<token, session, crossed, failedOut>>
    BY <1>1, <2>1, FlowTyped DEF Reply, browser, history
  <2>3. record \in Flow /\ record.stage = flow[x][f].stage
    BY <2>2 DEF Flow
  <2> HIDE DEF record
  <2>4. /\ flow'[x][f] = record /\ \A g \in Flows : g # f => flow'[x][g] = flow[x][g]
        /\ Shown(x)' => Showing'
    BY <2>2, <2>3, OnlyHere
  <2>5. Shown(x)'
    BY <2>2, <2>3, <2>4 DEF Showing, Shown
  <2> QED
    BY <2>4, <2>5
<1>8. ASSUME NEW x \in Tabs, SignedIn(x) PROVE Showing'
  <2>1. /\ flow[x]["in"] \in Flow /\ flow[x]["in"] # Idle /\ "in" \in Flows
        /\ flow[x]["in"].stage # "check" /\ UNCHANGED <<session, crossed, failedOut>>
    BY <1>1, <1>2, <1>8, FlowTyped DEF SignedIn, history
  <2>2. CASE flow[x]["in"].ok /\ flow[x]["in"].token # None
    <3> DEFINE t == flow[x]["in"].token
    <3>1. Hold(x, t) /\ Set(x, "in", Sent("check", t)) /\ t \in Held
      BY <1>8, <2>1, <2>2 DEF SignedIn, Flow
    <3>2. Sent("check", t) \in Flow /\ Sent("check", t).stage = "check"
      BY <3>1 DEF Sent
    <3>3. \A o \in Tabs : o # x => token'[o] = token[o]
      BY <1>1, <3>1 DEF Hold
    <3> HIDE DEF t
    <3>4. flow'[x]["in"] = Sent("check", t) /\ (Shown(x)' => Showing')
      BY <2>1, <3>1, <3>2, <3>3, OnlyHere
    <3> QED
      BY <2>1, <3>2, <3>4 DEF Shown
  <2>3. CASE ~(flow[x]["in"].ok /\ flow[x]["in"].token # None)
    <3>1. Set(x, "in", Idle) /\ UNCHANGED token
      BY <1>8, <2>3 DEF SignedIn, browser
    <3>2. /\ \A g \in Flows : g # "in" => flow'[x][g] = flow[x][g]
          /\ Shown(x)' => Showing'
      BY <2>1, <3>1, OnlyHere
    <3> QED
      BY <2>1, <3>1, <3>2 DEF Showing, Shown
  <2> QED
    BY <2>2, <2>3
<1>9. ASSUME NEW x \in Tabs, NEW f \in SignOuts, LoggedOut(x, f) PROVE Showing'
  <2> DEFINE record == IF flow[x][f].ok THEN Sent("check", None) ELSE Idle
  <2>1. f \in Flows /\ record \in Flow /\ (flow[x][f].ok => record.stage = "check")
    BY DEF Sent
  <2>2. /\ Set(x, f, record) /\ UNCHANGED <<session, crossed>>
        /\ token'[x] = None /\ failedOut'[x] = ~flow[x][f].ok
        /\ \A o \in Tabs : o # x => token'[o] = token[o] /\ failedOut'[o] = failedOut[o]
    BY <1>1, <1>9 DEF LoggedOut, Hold
  <2> HIDE DEF record
  <2>3. flow'[x][f] = record /\ (Shown(x)' => Showing')
    BY <2>1, <2>2, OnlyHere
  <2> QED
    BY <2>1, <2>2, <2>3 DEF Shown
<1>10. ASSUME NEW x \in Tabs, NEW f \in Flows, Checked(x, f) PROVE Showing'
  <2>1. Set(x, f, Idle) /\ UNCHANGED <<crossed, failedOut>>
    BY <1>10 DEF Checked, history
  <2>2. \A o \in Tabs : o # x => token'[o] = token[o] /\ session'[o] = session[o]
    BY <1>1, <1>10 DEF Checked, Hold, browser
  <2>3. ~crossed[x] => session'[x] = token'[x]
    <3>1. flow[x][f].stage = "check"
      BY <1>10 DEF Checked, Under
    <3>2. ~crossed[x] => flow[x][f].token = token[x]
      BY <3>1 DEF Checking, OneByOne
    <3> QED
      BY <1>1, <1>10, <3>2 DEF Checked, Hold, browser
  <2>4. Shown(x)' => Showing'
    BY <2>1, <2>2, OnlyHere
  <2> QED
    BY <2>1, <2>3, <2>4 DEF Shown
<1>11. CASE UNCHANGED vars
  BY <1>11, ShownStays DEF vars, Showing
<1> QED
  BY <1>3, <1>5, <1>6, <1>7, <1>8, <1>9, <1>10, <1>11 DEF Next, Works, Asks

\* A tab at rest shows the session of the token it holds, but for a sign-out that
\* failed, however the tabs' flows interleave.
THEOREM WebShownIsHeld == Spec => []ShownIsHeld
<1>1. Init => TypeOK /\ Checking /\ Showing
  BY InitTyped, Small DEF Init, Checking, Starting, OneByOne, Idle, Showing, Shown
<1>2. TypeOK /\ Checking /\ Showing /\ [Next]_vars => TypeOK' /\ Checking' /\ Showing'
  BY Typing, CheckingKept, ShowingKept
<1>3. Showing => ShownIsHeld
  BY DEF Showing, Shown, ShownIsHeld, Quiet, Idle
<1> QED
  BY <1>1, <1>2, <1>3, PTL DEF Spec

================================================================================
