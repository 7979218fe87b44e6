-------------------------- MODULE ServerSession_proofs --------------------------
(***************************************************************************)
(* The session of a server port names the user its tokens belong to, and   *)
(* stays empty once the user has been told that he is signed out: for any  *)
(* of the six ports, any number of overlapping requests, users, pairs and  *)
(* faults.                                                                 *)
(*                                                                         *)
(* The argument: whatever a request holds of a session (its copy, the      *)
(* answer to a refresh) names the owner of its tokens, save between the    *)
(* two calls of a C# sign-in.  And once somebody has signed out, every     *)
(* request under way is a sign-in or was under way then.                   *)
(*                                                                         *)
(* Requests that do not overlap have their refreshes taken and their pages *)
(* served.  The argument: a pair still to be spent is in the session of    *)
(* the one request under way, or is the answer it waits for, and between   *)
(* requests it is in the stored session.                                   *)
(***************************************************************************)
EXTENDS ServerSession, TLAPS

-----------------------------------------------------------------------------
(* The invariant.                                                          *)

\* The pairs handed out so far, and none.
Given == {None} \cup DOMAIN pairs

\* Nothing holds a pair that was not handed out.
Known ==
  /\ stored.pair \in Given
  /\ \A r \in Requests :
       /\ req[r].mine.pair \in Given /\ req[r].token \in Given
       /\ \A c \in Calls : req[r].call[c].token \in Given /\ req[r].call[c].got \in Given

\* Between the two calls of a C# sign-in.
Asking(r) ==
  port = "csharp" /\ req[r].op = "login" /\ Pc(r, 1) = "done" /\ Pc(r, 2) # "done"

\* The second call of a request may be under way.
Second(r) ==
  \/ req[r].op = "data" /\ (port = "csharp" \/ Pc(r, 1) \in Over)
  \/ req[r].op = "login" /\ port = "csharp" /\ Pc(r, 1) = "done"

\* How the calls of a request follow one another.
InOrder(r) ==
  /\ ~Busy(r) => \A c \in Calls : Pc(r, c) = "todo"
  /\ \A c \in Calls : Pc(r, c) \notin {"asked", "ahead"} => req[r].call[c].got = None
  /\ Pc(r, 2) # "todo" => Second(r)
  /\ port = "csharp" /\ req[r].op = "login" /\ Pc(r, 1) = "done" => req[r].mine.pair # None
  /\ req[r].op = "login" => req[r].who \in Users
  /\ port = "csharp" /\ req[r].op = "login" /\ Pc(r, 2) = "broken" => faults > 0

Ordered == \A r \in Requests : InOrder(r)

Owns(s) == s.pair # None => s.user = pairs[s.pair].user

\* The answer to a refresh belongs to whom the session will be written for.
OwnAnswer(r, c) ==
  req[r].call[c].got # None =>
    \/ Asking(r) /\ c = 2
    \/ pairs[req[r].call[c].got].user =
         IF port = "java" THEN req[r].call[c].seen ELSE req[r].mine.user

Owning ==
  ~(port = "csharp" /\ faults > 0) =>
    /\ Owns(stored)
    /\ \A r \in Requests :
         /\ port # "java" => Asking(r) \/ Owns(req[r].mine)
         /\ \A c \in Calls : OwnAnswer(r, c)

Leaving ==
  left => /\ stored = Nobody
          /\ \A r \in Requests : Busy(r) => r \in late \/ req[r].op = "login"

-----------------------------------------------------------------------------
(* Types, and what a step of a call changes.                               *)

LEMMA Small ==
  /\ Calls = {1, 2} /\ None = 0 /\ None \in 0..MaxPairs
  /\ ToDo \in CallType /\ Nobody \in Sessions /\ Idle \in ReqType
  /\ \A p \in States : [ToDo EXCEPT !.pc = p] \in CallType
<1>1. Calls = {1, 2} /\ None = 0 /\ None \in 0..MaxPairs
  BY ServerConstants DEF Calls, None
<1>2. "todo" \in States /\ "nobody" \in Users \cup {"nobody"}
  BY DEF States
<1>3. ToDo \in CallType
  BY <1>1, <1>2 DEF ToDo, CallType
<1>4. \A p \in States : [ToDo EXCEPT !.pc = p] \in CallType
  BY <1>3 DEF CallType
<1>5. Nobody \in Sessions
  BY <1>1 DEF Nobody, Sessions
<1>6. Idle \in ReqType
  BY <1>1, <1>3, <1>5 DEF Idle, ReqType
<1> QED
  BY <1>1, <1>3, <1>4, <1>5, <1>6

\* One call of one request has become `call`; the request is what it was, but
\* for its copy of the session.
Stepped(r, c, call) ==
  /\ req' \in [Requests -> ReqType]
  /\ \A o \in Requests \ {r} : req'[o] = req[o]
  /\ req'[r].call[c] = call
  /\ \A d \in Calls \ {c} : req'[r].call[d] = req[r].call[d]
  /\ req'[r].op = req[r].op /\ req'[r].who = req[r].who /\ req'[r].token = req[r].token

LEMMA GoOnSteps ==
  ASSUME req \in [Requests -> ReqType], NEW r \in Requests, NEW c \in Calls,
         NEW call \in CallType, GoOn(r, c, call)
  PROVE  /\ Stepped(r, c, call) /\ req'[r].mine = req[r].mine
         /\ stored' = stored /\ left' = left
<1>1. req' = [req EXCEPT ![r] = [req[r] EXCEPT !.call = [req[r].call EXCEPT ![c] = call]]]
  BY DEF GoOn
<1>2. req[r] \in ReqType
  OBVIOUS
<1>3. [req[r] EXCEPT !.call = [req[r].call EXCEPT ![c] = call]] \in ReqType
  BY <1>2 DEF ReqType
<1> QED
  BY <1>1, <1>2, <1>3 DEF GoOn, Stepped, ReqType

LEMMA ChangeSteps ==
  ASSUME req \in [Requests -> ReqType], NEW r \in Requests, NEW c \in Calls,
         NEW call \in CallType, NEW s \in Sessions, Change(r, c, call, s)
  PROVE  /\ Stepped(r, c, call)
         /\ port = "java" => req'[r].mine = req[r].mine /\ Store(r, s)
         /\ port # "java" => req'[r].mine = s /\ stored' = stored /\ left' = left
<1>2. req[r] \in ReqType
  OBVIOUS
<1>3. [req[r] EXCEPT !.call = [req[r].call EXCEPT ![c] = call]] \in ReqType
  BY <1>2 DEF ReqType
<1>4. [req[r] EXCEPT !.call = [req[r].call EXCEPT ![c] = call], !.mine = s, !.changed = TRUE]
        \in ReqType
  BY <1>2 DEF ReqType
<1>5. CASE port = "java"
  <2>1. req' = [req EXCEPT ![r] = [req[r] EXCEPT !.call = [req[r].call EXCEPT ![c] = call]]]
    BY <1>5 DEF Change, Live
  <2> QED
    BY <1>2, <1>3, <1>5, <2>1 DEF Change, Live, Stepped, ReqType
<1>6. CASE port # "java"
  <2>1. req' = [req EXCEPT ![r] = [req[r] EXCEPT !.call = [req[r].call EXCEPT ![c] = call],
                                                 !.mine = s, !.changed = TRUE]]
    BY <1>6 DEF Change, Live
  <2> QED
    BY <1>2, <1>4, <1>6, <2>1 DEF Change, Live, Stepped, ReqType
<1> QED
  BY <1>5, <1>6

-----------------------------------------------------------------------------
(* The backend.                                                            *)

Pair == [user : Users, start : 1..MaxPairs]

ServerTyped ==
  /\ pairs \in Seq(Pair) /\ Len(pairs) <= MaxPairs
  /\ expired \subseteq DOMAIN pairs /\ unspent \subseteq DOMAIN pairs
  /\ ended \subseteq DOMAIN pairs

\* The sign-in of a pair began with a pair that was handed out.
Rooted == \A t \in DOMAIN pairs : pairs[t].start \in DOMAIN pairs

\* Pairs are only added.
Grows ==
  /\ DOMAIN pairs \subseteq DOMAIN pairs'
  /\ \A t \in DOMAIN pairs : pairs'[t] = pairs[t]

LEMMA Unissued == UNCHANGED pairs => Grows /\ Given' = Given /\ (Rooted => Rooted')
BY DEF Grows, Given, Rooted

LEMMA IssueGrows ==
  ASSUME ServerTyped, Rooted, NEW user \in Users, NEW start \in DOMAIN pairs \cup {Next1},
         Issue(user, start)
  PROVE  /\ Grows /\ Rooted'
         /\ pairs' \in Seq(Pair) /\ Len(pairs') <= MaxPairs
         /\ Next1 \in DOMAIN pairs' /\ Next1 \in 1..MaxPairs
         /\ pairs'[Next1].user = user
<1> DEFINE new == [user |-> user, start |-> start]
<1>1. pairs \in Seq(Pair) /\ Len(pairs) \in Nat /\ DOMAIN pairs = 1..Len(pairs)
  BY DEF ServerTyped
<1>2. pairs' = Append(pairs, new) /\ Len(pairs) < MaxPairs
  BY DEF Issue
<1>3. Next1 = Len(pairs) + 1 /\ Next1 \in 1..MaxPairs
  BY <1>1, <1>2, ServerConstants DEF Next1
<1>4. start \in 1..MaxPairs
  BY <1>1, <1>2, <1>3, ServerConstants
<1>5. new \in Pair
  BY <1>4 DEF Pair
<1>6. /\ pairs' \in Seq(Pair) /\ Len(pairs') = Len(pairs) + 1
      /\ DOMAIN pairs' = 1..(Len(pairs) + 1)
      /\ \A t \in 1..Len(pairs) : pairs'[t] = pairs[t]
      /\ pairs'[Len(pairs) + 1] = new
  <2> HIDE DEF new
  <2> QED
    BY <1>1, <1>2, <1>5
<1>7. DOMAIN pairs \subseteq DOMAIN pairs' /\ Next1 \in DOMAIN pairs'
  BY <1>1, <1>3, <1>6
<1>8. Grows
  BY <1>1, <1>6, <1>7 DEF Grows
<1>9. Rooted'
  <2> SUFFICES ASSUME NEW t \in DOMAIN pairs' PROVE pairs'[t].start \in DOMAIN pairs'
    BY DEF Rooted
  <2>1. CASE t \in DOMAIN pairs
    BY <1>1, <1>6, <1>7, <2>1 DEF Rooted
  <2>2. CASE t \notin DOMAIN pairs
    <3>1. t = Len(pairs) + 1
      BY <1>1, <1>6, <2>2
    <3> QED
      BY <1>6, <1>7, <3>1
  <2> QED
    BY <2>1, <2>2
<1>10. pairs'[Next1].user = user
  BY <1>3, <1>6
<1> QED
  BY <1>2, <1>1, <1>3, <1>6, <1>7, <1>8, <1>9, <1>10

LEMMA SpendGrows ==
  ASSUME ServerTyped, Rooted, NEW t \in DOMAIN pairs, NEW answer, Spend(t, answer),
         UNCHANGED expired
  PROVE  /\ Grows /\ ServerTyped' /\ Rooted' /\ answer \in Given' /\ answer \in 0..MaxPairs
         /\ answer # None => pairs'[answer].user = pairs[t].user
<1>1. pairs[t] \in Pair
  BY DEF ServerTyped
<1>2. CASE t \in unspent /\ pairs[t].start \notin ended
  <2>1. answer = Next1 /\ Issue(pairs[t].user, pairs[t].start)
        /\ unspent' = (unspent \ {t}) \cup {Next1} /\ ended' = ended
    BY <1>2 DEF Spend
  <2>2. pairs[t].user \in Users /\ pairs[t].start \in DOMAIN pairs
    BY <1>1 DEF Pair, Rooted
  <2>3. /\ Grows /\ Rooted'
        /\ pairs' \in Seq(Pair) /\ Len(pairs') <= MaxPairs
        /\ Next1 \in DOMAIN pairs' /\ Next1 \in 1..MaxPairs
        /\ pairs'[Next1].user = pairs[t].user
    BY <2>1, <2>2, IssueGrows
  <2>4. ServerTyped'
    BY <2>1, <2>3 DEF ServerTyped, Grows
  <2>5. answer \in Given' /\ answer \in 0..MaxPairs
    BY <2>1, <2>3 DEF Given
  <2> QED
    BY <2>1, <2>3, <2>4, <2>5
<1>3. CASE ~(t \in unspent /\ pairs[t].start \notin ended)
  <2>1. answer = None /\ ended' = ended \cup {pairs[t].start} /\ UNCHANGED <<pairs, unspent>>
    BY <1>3 DEF Spend
  <2>2. answer \in Given' /\ answer \in 0..MaxPairs
    BY <2>1, ServerConstants DEF Given, None
  <2>3. ServerTyped'
    BY <2>1 DEF ServerTyped, Rooted
  <2> QED
    BY <2>1, <2>2, <2>3, Unissued
<1> QED
  BY <1>2, <1>3

-----------------------------------------------------------------------------
(* A step of a call keeps the types and the order of the calls.            *)

Sane == TypeOK /\ Rooted /\ Known /\ Ordered

\* Call c of r is under way; it becomes `call`, and neither the pairs it holds
\* nor those of the session are made up.
CallStep(r, c, call) ==
  /\ Stepped(r, c, call) /\ call \in CallType
  /\ Busy(r) /\ Pc(r, c) \notin Over /\ (c = 2 => Second(r))
  /\ port' = port /\ late' = late /\ left' \in BOOLEAN /\ alone' \in BOOLEAN
  /\ faults' \in 0..MaxFaults /\ faults <= faults'
  /\ Grows /\ ServerTyped' /\ Rooted'
  /\ stored' \in Sessions /\ stored'.pair \in Given'
  /\ req'[r].mine.pair \in Given' /\ call.token \in Given' /\ call.got \in Given'
  /\ call.pc \notin {"asked", "ahead"} => call.got = None
  /\ port = "csharp" /\ req[r].op = "login" /\ req'[r].call[1].pc = "done"
       => req'[r].mine.pair # None
  /\ port = "csharp" /\ req[r].op = "login" /\ c = 2 /\ call.pc = "broken" => faults' > 0

LEMMA CallStepSane ==
  ASSUME Sane, NEW r \in Requests, NEW c \in Calls, NEW call, CallStep(r, c, call)
  PROVE  Sane'
<1> USE Small
<1>1. /\ req \in [Requests -> ReqType] /\ req' \in [Requests -> ReqType]
      /\ req'[r].call[c] = call /\ req'[r].op = req[r].op /\ req'[r].token = req[r].token
      /\ \A o \in Requests \ {r} : req'[o] = req[o]
      /\ \A d \in Calls \ {c} : req'[r].call[d] = req[r].call[d]
  BY DEF Sane, TypeOK, CallStep, Stepped
<1>2. TypeOK'
  BY <1>1 DEF CallStep, Sane, TypeOK, ServerTyped, Pair
<1>3. Given \subseteq Given'
  BY DEF CallStep, Grows, Given
<1>4. Known'
  <2>1. stored'.pair \in Given'
    BY DEF CallStep
  <2>2. ASSUME NEW o \in Requests
        PROVE  /\ req'[o].mine.pair \in Given' /\ req'[o].token \in Given'
               /\ \A d \in Calls : req'[o].call[d].token \in Given' /\ req'[o].call[d].got \in Given'
    <3>1. CASE o # r
      BY <1>1, <1>3, <3>1 DEF Sane, Known
    <3>2. CASE o = r
      <4>1. req'[r].mine.pair \in Given' /\ req'[r].token \in Given'
        BY <1>1, <1>3 DEF Sane, Known, CallStep
      <4>2. call.token \in Given' /\ call.got \in Given'
        BY DEF CallStep
      <4>3. ASSUME NEW d \in Calls
            PROVE  req'[r].call[d].token \in Given' /\ req'[r].call[d].got \in Given'
        BY <1>1, <1>3, <4>2 DEF Sane, Known
      <4> QED
        BY <3>2, <4>1, <4>3
    <3> QED
      BY <3>1, <3>2
  <2> QED
    BY <2>1, <2>2 DEF Known
<1>5. ASSUME NEW o \in Requests PROVE InOrder(o)'
  <2>1. InOrder(o) /\ port' = port /\ faults \in Nat /\ faults' \in Nat /\ faults <= faults'
    BY DEF Sane, Ordered, CallStep, TypeOK
  <2>2. CASE o # r
    <3>1. req'[o] = req[o]
      BY <1>1, <2>2
    <3> QED
      BY <2>1, <3>1 DEF InOrder, Busy, Pc, Second
  <2>3. CASE o = r
    <3>1. Busy(r) /\ Busy(r)'
      BY <1>1 DEF CallStep, Busy
    <3>2. ASSUME NEW d \in Calls, req'[r].call[d].pc \notin {"asked", "ahead"}
          PROVE  req'[r].call[d].got = None
      BY <1>1, <2>1, <2>3, <3>2 DEF CallStep, InOrder, Pc
    <3>3. req'[r].call[2].pc # "todo" => Second(r)'
      <4>1. CASE c = 2
        BY <1>1, <2>1, <4>1 DEF CallStep, Second, Pc
      <4>2. CASE c = 1
        <5>1. Pc(r, 1) \notin Over /\ (Pc(r, 2) # "todo" => Second(r))
          BY <2>1, <2>3, <4>2 DEF CallStep, InOrder
        <5>2. req'[r].call[2] = req[r].call[2]
          BY <1>1, <4>2
        <5> QED
          BY <1>1, <2>1, <5>1, <5>2 DEF Second, Pc, Over
      <4> QED
        BY <4>1, <4>2
    <3>4. port' = "csharp" /\ req'[r].op = "login" /\ req'[r].call[1].pc = "done"
            => req'[r].mine.pair # None
      BY <1>1, <2>1 DEF CallStep
    <3>5. port' = "csharp" /\ req'[r].op = "login" /\ req'[r].call[2].pc = "broken" => faults' > 0
      BY <1>1, <2>1, <2>3 DEF CallStep, InOrder, Pc
    <3>6. req'[r].op = "login" => req'[r].who \in Users
      BY <2>1, <2>3 DEF CallStep, Stepped, InOrder
    <3> QED
      BY <2>3, <3>1, <3>2, <3>3, <3>4, <3>5, <3>6 DEF InOrder, Pc, Busy
  <2> QED
    BY <2>2, <2>3
<1> QED
  BY <1>2, <1>4, <1>5 DEF Sane, Ordered, CallStep

-----------------------------------------------------------------------------
(* The steps of a call.                                                    *)

\* What the calls of a request rest on.
LEMMA SaneCall ==
  ASSUME Sane, NEW r \in Requests, NEW c \in Calls
  PROVE  /\ port \in Ports
         /\ req \in [Requests -> ReqType] /\ req[r] \in ReqType /\ req[r].call[c] \in CallType
         /\ stored \in Sessions /\ stored.pair \in Given
         /\ req[r].mine \in Sessions /\ req[r].mine.pair \in Given
         /\ Session(r) \in Sessions /\ Session(r).pair \in Given
         /\ Token(r) \in Given /\ Token(r) \in 0..MaxPairs
         /\ req[r].call[c].token \in Given /\ req[r].call[c].token \in 0..MaxPairs
         /\ req[r].call[c].got \in Given /\ req[r].call[c].got \in 0..MaxPairs
         /\ faults \in 0..MaxFaults /\ alone \in BOOLEAN /\ left \in BOOLEAN
         /\ ServerTyped /\ Rooted /\ InOrder(r)
<1>1. req \in [Requests -> ReqType] /\ stored \in Sessions
  BY DEF Sane, TypeOK
<1>2. req[r] \in ReqType
  BY <1>1
<1>3. req[r].call[c] \in CallType /\ req[r].mine \in Sessions /\ req[r].token \in 0..MaxPairs
  BY <1>2 DEF ReqType
<1>4. /\ stored.pair \in Given /\ req[r].mine.pair \in Given /\ req[r].token \in Given
      /\ req[r].call[c].token \in Given /\ req[r].call[c].got \in Given
  BY DEF Sane, Known
<1>5. Session(r) \in Sessions /\ Session(r).pair \in Given
  BY <1>1, <1>3, <1>4 DEF Session
<1>6. Session(r).pair \in 0..MaxPairs
  BY <1>5 DEF Sessions
<1>7. Token(r) \in Given /\ Token(r) \in 0..MaxPairs
  BY <1>3, <1>4, <1>5, <1>6 DEF Token
<1>8. req[r].call[c].token \in 0..MaxPairs /\ req[r].call[c].got \in 0..MaxPairs
  BY <1>3 DEF CallType
<1>9. ServerTyped /\ Rooted /\ InOrder(r)
  BY DEF Sane, TypeOK, ServerTyped, Pair, Ordered
<1> QED
  BY <1>1, <1>2, <1>3, <1>4, <1>5, <1>7, <1>8, <1>9 DEF Sane, TypeOK

\* Call c of r is under way.
Ready(r, c) == Busy(r) /\ Pc(r, c) \notin Over /\ (c = 2 => Second(r))

LEMMA IsReady ==
  ASSUME Sane, NEW r \in Requests, NEW c \in Calls, Pc(r, c) \notin Over,
         Turn(r, c) \/ Pc(r, c) # "todo"
  PROVE  Ready(r, c)
<1>1. InOrder(r)
  BY DEF Sane, Ordered
<1>2. CASE Turn(r, c)
  BY <1>2 DEF Ready, Turn, Second, SideBySide, Over
<1>3. CASE Pc(r, c) # "todo"
  <2>1. Busy(r)
    BY <1>1, <1>3 DEF InOrder
  <2> QED
    BY <1>1, <1>3, <2>1 DEF Ready, InOrder
<1> QED
  BY <1>2, <1>3

\* What lies around the requests has changed as a step of a call may change it.
Around ==
  /\ port' = port /\ late' = late /\ alone' \in BOOLEAN
  /\ faults' \in 0..MaxFaults /\ faults <= faults'
  /\ Grows /\ ServerTyped' /\ Rooted'

Made(r, c, call) ==
  /\ call \in CallType /\ call.token \in Given' /\ call.got \in Given'
  /\ call.pc \notin {"asked", "ahead"} => call.got = None
  /\ port = "csharp" /\ req[r].op = "login" /\ c = 2 /\ call.pc = "broken" => faults' > 0

\* The properties below hold where no call of a C# sign-in broke.
Whole == ~(port = "csharp" /\ faults > 0)

\* After the step the session of r still names its owner.
Rightful(r) ==
  /\ Owns(stored)'
  /\ port # "java" => Asking(r)' \/ Owns(req[r].mine)'
  /\ \A d \in Calls : OwnAnswer(r, d)'

\* The stored session is left alone, or written by r.
Gentle(r) == (stored' = stored /\ left' = left) \/ Store(r, stored')

\* All that is needed of a step of call c of r.
Fine(r, c) ==
  \E call : CallStep(r, c, call) /\ (Owning /\ Whole => Rightful(r)) /\ Gentle(r)

LEMMA GoOnStep ==
  ASSUME Sane, NEW r \in Requests, NEW c \in Calls, NEW call,
         Ready(r, c), Around, Made(r, c, call), GoOn(r, c, call),
         port = "csharp" /\ req[r].op = "login" => call.pc # "done",
         Owning /\ Whole /\ call.got # None =>
           \/ Asking(r) /\ c = 2
           \/ pairs'[call.got].user = IF port = "java" THEN call.seen ELSE req[r].mine.user
  PROVE  Fine(r, c)
<1> USE Small
<1>1. /\ req \in [Requests -> ReqType] /\ stored \in Sessions /\ stored.pair \in Given
      /\ req[r].mine.pair \in Given /\ left \in BOOLEAN /\ InOrder(r)
      /\ \A d \in Calls : req[r].call[d].got \in Given
  BY SaneCall
<1>2. /\ Stepped(r, c, call) /\ req'[r].mine = req[r].mine
      /\ stored' = stored /\ left' = left
  BY <1>1, GoOnSteps DEF Made
<1>3. /\ req'[r].call[c] = call /\ req'[r].op = req[r].op /\ port' = port
      /\ \A d \in Calls \ {c} : req'[r].call[d] = req[r].call[d]
  BY <1>2 DEF Stepped, Around
<1>4. Given \subseteq Given'
  BY DEF Around, Grows, Given
<1>5. port = "csharp" /\ req[r].op = "login" /\ req'[r].call[1].pc = "done"
        => req'[r].mine.pair # None
  BY <1>1, <1>2, <1>3 DEF InOrder, Pc
<1>6. CallStep(r, c, call)
  BY <1>1, <1>2, <1>4, <1>5 DEF CallStep, Ready, Around, Made
<1>7. ASSUME Owning, Whole PROVE Rightful(r)
  <2>1. \A s : s.pair \in Given /\ Owns(s) => (s.pair # None => s.user = pairs'[s.pair].user)
    BY DEF Around, Grows, Given, Owns
  <2>2. Owns(stored)'
    BY <1>1, <1>2, <1>7, <2>1 DEF Owning, Whole, Owns
  <2>3. Asking(r) => Asking(r)'
    BY <1>1, <1>3 DEF Asking, Pc, Ready, Over
  <2>4. port # "java" => Asking(r)' \/ Owns(req[r].mine)'
    BY <1>1, <1>2, <1>7, <2>1, <2>3 DEF Owning, Whole, Owns
  <2>5. ASSUME NEW d \in Calls PROVE OwnAnswer(r, d)'
    <3>1. CASE d = c
      BY <1>2, <1>3, <1>7, <2>3, <3>1 DEF OwnAnswer
    <3>2. CASE d # c
      <4>1. req'[r].call[d] = req[r].call[d] /\ OwnAnswer(r, d)
        BY <1>3, <1>7, <3>2 DEF Owning, Whole
      <4>2. req[r].call[d].got # None =>
              pairs'[req[r].call[d].got] = pairs[req[r].call[d].got]
        BY <1>1 DEF Around, Grows, Given
      <4> QED
        BY <1>2, <1>3, <2>3, <4>1, <4>2 DEF OwnAnswer
    <3> QED
      BY <3>1, <3>2
  <2> QED
    BY <2>2, <2>4, <2>5 DEF Rightful
<1> QED
  BY <1>2, <1>6, <1>7 DEF Fine, Gentle

LEMMA ChangeStep ==
  ASSUME Sane, NEW r \in Requests, NEW c \in Calls, NEW call, NEW s \in Sessions,
         Ready(r, c), Around, Made(r, c, call), Change(r, c, call, s),
         s.pair \in Given', call.got = None,
         port = "csharp" /\ req[r].op = "login" => s.pair # None,
         Owning /\ Whole =>
           /\ \/ s.pair # None => s.user = pairs'[s.pair].user
              \/ port # "java" /\ Asking(r)'
           /\ \/ port = "java" \/ s.user = req[r].mine.user
              \/ \A d \in Calls \ {c} : req[r].call[d].got = None
           /\ Asking(r) => Asking(r)' \/ \A d \in Calls \ {c} : req[r].call[d].got = None
  PROVE  Fine(r, c)
<1> USE Small
<1>1. /\ req \in [Requests -> ReqType] /\ stored \in Sessions /\ stored.pair \in Given
      /\ req[r].mine.pair \in Given /\ left \in BOOLEAN /\ InOrder(r)
      /\ \A d \in Calls : req[r].call[d].got \in Given
  BY SaneCall
<1>2. /\ Stepped(r, c, call)
      /\ port = "java" => req'[r].mine = req[r].mine /\ Store(r, s)
      /\ port # "java" => req'[r].mine = s /\ stored' = stored /\ left' = left
  BY <1>1, ChangeSteps DEF Made
<1>3. /\ req'[r].call[c] = call /\ req'[r].op = req[r].op /\ port' = port
      /\ \A d \in Calls \ {c} : req'[r].call[d] = req[r].call[d]
  BY <1>2 DEF Stepped, Around
<1>4. Given \subseteq Given'
  BY DEF Around, Grows, Given
<1>5. stored' \in Sessions /\ stored'.pair \in Given' /\ left' \in BOOLEAN
      /\ req'[r].mine.pair \in Given'
  <2>1. CASE port = "java"
    BY <1>1, <1>2, <1>4, <2>1 DEF Store
  <2>2. CASE port # "java"
    BY <1>1, <1>2, <1>4, <2>2
  <2> QED
    BY <2>1, <2>2
<1>6. CallStep(r, c, call)
  BY <1>2, <1>5 DEF CallStep, Ready, Around, Made
<1>7. ASSUME Owning, Whole PROVE Rightful(r)
  <2>1. \A o : o.pair \in Given /\ Owns(o) => (o.pair # None => o.user = pairs'[o.pair].user)
    BY DEF Around, Grows, Given, Owns
  <2>2. Owns(stored)'
    <3>1. CASE port = "java"
      BY <1>2, <1>7, <3>1 DEF Store, Owns
    <3>2. CASE port # "java"
      BY <1>1, <1>2, <1>7, <2>1, <3>2 DEF Owning, Whole, Owns
    <3> QED
      BY <3>1, <3>2
  <2>3. port # "java" => Asking(r)' \/ Owns(req[r].mine)'
    BY <1>2, <1>7 DEF Owns
  <2>4. ASSUME NEW d \in Calls PROVE OwnAnswer(r, d)'
    <3>1. CASE d = c
      BY <1>3, <3>1 DEF OwnAnswer
    <3>2. CASE d # c
      <4>1. req'[r].call[d] = req[r].call[d] /\ OwnAnswer(r, d)
        BY <1>3, <1>7, <3>2 DEF Owning, Whole
      <4>2. req[r].call[d].got # None =>
              pairs'[req[r].call[d].got] = pairs[req[r].call[d].got]
        BY <1>1 DEF Around, Grows, Given
      <4> QED
        BY <1>2, <1>3, <1>7, <3>2, <4>1, <4>2 DEF OwnAnswer
    <3> QED
      BY <3>1, <3>2
  <2> QED
    BY <2>2, <2>3, <2>4 DEF Rightful
<1>8. Gentle(r)
  <2>1. CASE port = "java"
    BY <1>2, <2>1 DEF Gentle, Store
  <2>2. CASE port # "java"
    BY <1>2, <2>2 DEF Gentle
  <2> QED
    BY <2>1, <2>2
<1> QED
  BY <1>2, <1>6, <1>7, <1>8 DEF Fine

\* A refresh is asked for.
LEMMA PresentFine ==
  ASSUME Sane, NEW r \in Requests, NEW c \in Calls, NEW pc \in {"asked", "ahead"},
         Ready(r, c), Session(r).pair # None, Present(r, c, pc),
         UNCHANGED <<port, expired, faults, late>>, alone' \in BOOLEAN
  PROVE  Fine(r, c)
<1> USE Small
<1>1. PICK answer \in 0..MaxPairs :
        /\ Spend(Session(r).pair, answer)
        /\ GoOn(r, c, [req[r].call[c] EXCEPT !.pc = pc, !.got = answer, !.seen = Session(r).user])
  BY DEF Present
<1> DEFINE call == [req[r].call[c] EXCEPT !.pc = pc, !.got = answer, !.seen = Session(r).user]
<1>2. /\ req[r].call[c] \in CallType /\ req[r].call[c].token \in Given
      /\ Session(r) \in Sessions /\ Session(r).pair \in DOMAIN pairs
      /\ faults \in 0..MaxFaults /\ ServerTyped /\ Rooted
  BY SaneCall DEF Given
<1>3. /\ Grows /\ ServerTyped' /\ Rooted' /\ answer \in Given'
      /\ answer # None => pairs'[answer].user = pairs[Session(r).pair].user
  BY <1>1, <1>2, SpendGrows
<1>4. call \in CallType
  <2>1. pc \in States
    BY DEF States
  <2> QED
    BY <1>2, <2>1 DEF CallType, Sessions
<1>5. call.token = req[r].call[c].token /\ call.got = answer /\ call.pc = pc
      /\ call.seen = Session(r).user
  BY <1>2 DEF CallType
<1>6. Around
  BY <1>2, <1>3 DEF Around
<1>7. Made(r, c, call)
  BY <1>2, <1>3, <1>4, <1>5 DEF Made, Grows, Given
<1>8. Owning /\ Whole /\ call.got # None =>
           \/ Asking(r) /\ c = 2
           \/ pairs'[call.got].user = IF port = "java" THEN call.seen ELSE req[r].mine.user
  <2> SUFFICES ASSUME Owning, Whole, answer # None, ~(Asking(r) /\ c = 2)
               PROVE  pairs'[answer].user = IF port = "java" THEN Session(r).user ELSE req[r].mine.user
    BY <1>5
  <2>1. ~Asking(r)
    BY DEF Asking, Ready, Over
  <2>2. Owns(Session(r))
    BY <2>1 DEF Owning, Whole, Session, Live
  <2>3. port # "java" => Session(r) = req[r].mine
    BY DEF Session, Live
  <2> QED
    BY <1>3, <2>2, <2>3 DEF Owns
<1> HIDE DEF call
<1> QED
  BY <1>1, <1>5, <1>6, <1>7, <1>8, GoOnStep DEF call

LEMMA RefreshAheadFine ==
  ASSUME Sane, NEW r \in Requests, NEW c \in Calls, RefreshAhead(r, c)
  PROVE  Fine(r, c)
<1>1. Pc(r, c) \notin Over /\ Turn(r, c)
  BY DEF RefreshAhead, Over
<1>2. Ready(r, c)
  BY <1>1, IsReady
<1>3. alone' \in BOOLEAN
  BY SaneCall DEF RefreshAhead
<1> QED
  BY <1>2, <1>3, PresentFine DEF RefreshAhead

\* Without a call to the backend, or with one that changes nothing of its own.
LEMMA PlainFine ==
  ASSUME Sane, NEW r \in Requests, NEW c \in Calls, NEW call \in CallType,
         Ready(r, c), GoOn(r, c, call), UNCHANGED <<port, pairs, unspent, late>>,
         UNCHANGED ended \/ ended' \subseteq DOMAIN pairs,
         expired' \subseteq DOMAIN pairs, alone' \in BOOLEAN,
         faults' \in 0..MaxFaults, faults <= faults',
         call.token \in Given, call.got = None,
         port = "csharp" /\ req[r].op = "login" => call.pc # "done",
         call.pc = "broken" => faults' > 0
  PROVE  Fine(r, c)
<1> USE Small
<1>1. ServerTyped /\ Rooted
  BY SaneCall
<1>2. Around
  BY <1>1, Unissued DEF Around, ServerTyped
<1>3. Made(r, c, call)
  BY Unissued DEF Made, Given
<1> QED
  BY <1>2, <1>3, GoOnStep

LEMMA RecoverFine ==
  ASSUME Sane, NEW r \in Requests, NEW c \in Calls, Recover(r, c)
  PROVE  Fine(r, c)
<1> USE Small
<1>1. Pc(r, c) = "refused" /\ UNCHANGED <<port, expired, faults, late>>
  BY DEF Recover
<1>2. Ready(r, c)
  BY <1>1, IsReady DEF Over
<1>3. /\ alone \in BOOLEAN /\ faults \in 0..MaxFaults /\ ServerTyped
      /\ Session(r) \in Sessions /\ Session(r).pair \in Given
  BY SaneCall
<1>4. CASE Session(r).pair # None /\ ~Moved(r, c)
  <2>1. Present(r, c, "asked") /\ alone' = (alone /\ ~Overlaps(r, c))
    BY <1>4 DEF Recover
  <2> QED
    BY <1>1, <1>2, <1>4, <2>1, PresentFine
<1>5. CASE ~(Session(r).pair # None /\ ~Moved(r, c))
  <2>1. GoOn(r, c, Unpresented(r)) /\ UNCHANGED <<pairs, unspent, ended, alone>>
    BY <1>5 DEF Recover
  <2>2. /\ Unpresented(r) \in CallType /\ Unpresented(r).token \in Given
        /\ Unpresented(r).got = None /\ Unpresented(r).pc \in {"failed", "again"}
    <3>1. "failed" \in States /\ "again" \in States /\ Session(r).pair \in 0..MaxPairs
      BY <1>3 DEF States, Over, Sessions
    <3> QED
      BY <1>3, <3>1 DEF Unpresented, ToDo, CallType, Given
  <2>3. expired' \subseteq DOMAIN pairs /\ faults' \in 0..MaxFaults /\ faults <= faults'
    BY <1>1, <1>3, ServerConstants DEF ServerTyped
  <2> QED
    BY <1>1, <1>2, <1>3, <2>1, <2>2, <2>3, PlainFine
<1> QED
  BY <1>4, <1>5

LEMMA LoseAnswerFine ==
  ASSUME Sane, NEW r \in Requests, NEW c \in Calls, LoseAnswer(r, c)
  PROVE  Fine(r, c)
<1> USE Small
<1>1. /\ Pc(r, c) \in {"asked", "ahead"} /\ Fault /\ alone' = FALSE
      /\ UNCHANGED <<port, pairs, expired, unspent, ended, late>>
  BY DEF LoseAnswer, server
<1>2. Ready(r, c)
  BY <1>1, IsReady DEF Over
<1>3. PICK pc \in {"crashed", "ready", "failed", "broken"} : To(r, c, pc)
  BY DEF LoseAnswer, Unrefreshed
<1>4. faults \in 0..MaxFaults /\ ServerTyped
  BY SaneCall
<1>5. faults' \in 0..MaxFaults /\ faults <= faults' /\ faults' > 0
  BY <1>1, <1>4, ServerConstants DEF Fault
<1>6. GoOn(r, c, [ToDo EXCEPT !.pc = pc]) /\ pc \in States
  BY <1>3 DEF To, States, Over
<1>7. /\ [ToDo EXCEPT !.pc = pc] \in CallType /\ [ToDo EXCEPT !.pc = pc].token \in Given
      /\ [ToDo EXCEPT !.pc = pc].got = None /\ [ToDo EXCEPT !.pc = pc].pc = pc
  BY <1>6 DEF ToDo, Given
<1>8. expired' \subseteq DOMAIN pairs
  BY <1>1, <1>4 DEF ServerTyped
<1> QED
  BY <1>1, <1>2, <1>3, <1>5, <1>6, <1>7, <1>8, PlainFine

LEMMA BreakFine ==
  ASSUME Sane, NEW r \in Requests, NEW c \in Calls, Break(r, c)
  PROVE  Fine(r, c)
<1> USE Small
<1>1. /\ Pc(r, c) \notin Over /\ Turn(r, c) /\ Fault
      /\ UNCHANGED <<port, pairs, expired, unspent, late>>
      /\ GoOn(r, c, [ToDo EXCEPT !.pc = "broken"])
  BY DEF Break, Over, To
<1>2. Ready(r, c)
  BY <1>1, IsReady
<1>3. /\ faults \in 0..MaxFaults /\ ServerTyped /\ Rooted /\ alone \in BOOLEAN
      /\ With(r, c) \in Given
  BY SaneCall DEF With
<1>4. faults' \in 0..MaxFaults /\ faults <= faults' /\ faults' > 0
  BY <1>1, <1>3, ServerConstants DEF Fault
<1>5. "broken" \in States
  BY DEF States, Over
<1>6. /\ [ToDo EXCEPT !.pc = "broken"] \in CallType /\ [ToDo EXCEPT !.pc = "broken"].token \in Given
      /\ [ToDo EXCEPT !.pc = "broken"].got = None /\ [ToDo EXCEPT !.pc = "broken"].pc = "broken"
  BY <1>5 DEF ToDo, Given
<1>7. expired' \subseteq DOMAIN pairs
  BY <1>1, <1>3 DEF ServerTyped
<1>8. ended' \subseteq DOMAIN pairs /\ alone' \in BOOLEAN
  <2>1. CASE UNCHANGED <<ended, alone>>
    BY <1>3, <2>1 DEF ServerTyped
  <2>2. CASE /\ Accepts(With(r, c))
             /\ ended' = ended \cup {pairs[With(r, c)].start} /\ alone' = FALSE
    BY <1>3, <2>2 DEF ServerTyped, Rooted, Given, Accepts
  <2> QED
    BY <2>1, <2>2 DEF Break
<1> QED
  BY <1>1, <1>2, <1>4, <1>6, <1>7, <1>8, PlainFine

Then(pc, t) == [ToDo EXCEPT !.pc = pc, !.token = t]

LEMMA ThenMade ==
  ASSUME NEW pc \in States, NEW t \in 0..MaxPairs
  PROVE  /\ Then(pc, t) \in CallType /\ Then(pc, t).pc = pc /\ Then(pc, t).token = t
         /\ Then(pc, t).got = None
BY Small DEF Then, CallType, ToDo

\* Save on a C# page, one call at a time awaits a refresh; and nobody is asked
\* who has signed in before the sign-in is done.
LEMMA OneAwaits ==
  ASSUME Sane, NEW r \in Requests, NEW c \in Calls, Ready(r, c),
         port # "csharp" \/ req[r].op = "login"
  PROVE  /\ \A d \in Calls \ {c} : req[r].call[d].got = None
         /\ c = 1 => Pc(r, 2) = "todo"
<1> USE Small
<1>1. InOrder(r)
  BY SaneCall
<1>2. CASE c = 1
  <2>1. Pc(r, 2) = "todo"
    BY <1>1, <1>2 DEF InOrder, Second, Ready, Over
  <2> QED
    BY <1>1, <1>2, <2>1 DEF InOrder
<1>3. CASE c = 2
  <2>1. Pc(r, 1) \in Over
    BY <1>3 DEF Ready, Second, Over
  <2> QED
    BY <1>1, <1>3, <2>1 DEF InOrder, Over
<1> QED
  BY <1>2, <1>3

LEMMA AnswerFine ==
  ASSUME Sane, NEW r \in Requests, NEW c \in Calls, Answer(r, c)
  PROVE  Fine(r, c)
<1> USE Small
<1> DEFINE got == req[r].call[c].got
<1>1. Pc(r, c) \in {"asked", "ahead"}
      /\ UNCHANGED <<port, pairs, expired, unspent, ended, faults, alone, late>>
  BY DEF Answer, server, history
<1>2. Ready(r, c)
  BY <1>1, IsReady DEF Over
<1>3. /\ got \in Given /\ got \in 0..MaxPairs /\ faults \in 0..MaxFaults /\ alone \in BOOLEAN
      /\ Session(r) \in Sessions /\ req[r].call[c] \in CallType /\ InOrder(r)
      /\ req \in [Requests -> ReqType] /\ ServerTyped /\ Rooted
  BY SaneCall
<1>4. Around
  BY <1>1, <1>3, Unissued, ServerConstants DEF Around, ServerTyped
<1>5. "ready" \in States /\ "again" \in States /\ "failed" \in States
  BY DEF States, Over
<1>6. CASE got # None
  <2> DEFINE pc   == IF Pc(r, c) = "ahead" THEN "ready" ELSE "again"
             call == Then(pc, got)
             s    == Rotated(r, c)
  <2>1. Change(r, c, call, s)
    BY <1>6 DEF Answer, Then
  <2>2. pc \in {"ready", "again"} /\ pc \in States
    BY <1>5
  <2>3. call \in CallType /\ call.pc = pc /\ call.token = got /\ call.got = None
    BY <1>3, <2>2, ThenMade
  <2>4. /\ s \in Sessions /\ s.pair = got
        /\ s.user = IF port = "java" THEN req[r].call[c].seen ELSE Session(r).user
    BY <1>3 DEF Rotated, Sessions, CallType
  <2>5. got \in Given'
    BY <1>1, <1>3, Unissued
  <2> HIDE DEF call, s, got, pc
  <2>10. Made(r, c, call)
    BY <2>2, <2>3, <2>5 DEF Made, Given
  <2>6. Stepped(r, c, call)
    BY <1>3, <2>1, <2>3, <2>4, ChangeSteps
  <2>7. Asking(r) => /\ Asking(r)'
                     /\ \A d \in Calls \ {c} : req[r].call[d].got = None
    <3> SUFFICES ASSUME Asking(r) PROVE Asking(r)' /\ \A d \in Calls \ {c} : req[r].call[d].got = None
      OBVIOUS
    <3>1. c = 2 /\ Pc(r, 1) = "done"
      BY <1>2 DEF Asking, Ready, Over
    <3>2. req'[r].call[1] = req[r].call[1] /\ req'[r].call[2].pc # "done" /\ req'[r].op = req[r].op
      BY <2>2, <2>3, <2>6, <3>1 DEF Stepped
    <3> QED
      BY <1>1, <1>2, <3>1, <3>2, OneAwaits DEF Asking, Pc
  <2>8. ASSUME Owning, Whole
        PROVE  (s.pair # None => s.user = pairs'[s.pair].user) \/ (port # "java" /\ Asking(r)')
    <3>1. OwnAnswer(r, c)
      BY <2>8 DEF Owning, Whole
    <3>2. port # "java" => Session(r) = req[r].mine
      BY DEF Session, Live
    <3>3. Asking(r) => port # "java"
      BY DEF Asking
    <3> QED
      BY <1>1, <1>6, <2>4, <2>7, <3>1, <3>2, <3>3 DEF OwnAnswer, got
  <2>9. port = "java" \/ s.user = req[r].mine.user
    BY <2>4 DEF Session, Live
  <2> QED
    BY <1>2, <1>4, <1>6, <2>1, <2>3, <2>4, <2>5, <2>10, <2>7, <2>8, <2>9, ChangeStep
<1>7. CASE got = None /\ port = "python"
  <2>1. Change(r, c, Then("failed", got), Nobody)
    BY <1>7 DEF Answer, Then
  <2>2. /\ Then("failed", got) \in CallType /\ Then("failed", got).pc = "failed"
        /\ Then("failed", got).token = got /\ Then("failed", got).got = None
    BY <1>3, <1>5, ThenMade
  <2>3. Made(r, c, Then("failed", got))
    <3> DEFINE call == Then("failed", got)
    <3>1. call \in CallType /\ call.pc = "failed" /\ call.token \in Given' /\ call.got \in Given'
          /\ call.got = None
      BY <1>1, <1>3, <2>2, Unissued DEF Given
    <3> HIDE DEF call
    <3>2. Made(r, c, call)
      BY <3>1 DEF Made
    <3> QED
      BY <3>2 DEF call
  <2>4. \A d \in Calls \ {c} : req[r].call[d].got = None
    BY <1>2, <1>7, OneAwaits
  <2>5. Nobody.pair = None /\ None \in Given'
    BY DEF Nobody, Given
  <2> QED
    BY <1>1, <1>2, <1>4, <1>7, <2>1, <2>2, <2>3, <2>4, <2>5, ChangeStep
<1>8. CASE got = None /\ port # "python"
  <2> DEFINE pc == Unrefreshed(r, c)
  <2>1. GoOn(r, c, [ToDo EXCEPT !.pc = pc])
    BY <1>8 DEF Answer, To
  <2>2. pc \in {"ready", "failed"} /\ pc \in States
    BY <1>5 DEF Unrefreshed
  <2> HIDE DEF pc
  <2>3. /\ [ToDo EXCEPT !.pc = pc] \in CallType /\ [ToDo EXCEPT !.pc = pc].token \in Given
        /\ [ToDo EXCEPT !.pc = pc].got = None /\ [ToDo EXCEPT !.pc = pc].pc = pc
    BY <2>2 DEF ToDo, Given
  <2>4. expired' \subseteq DOMAIN pairs /\ faults' \in 0..MaxFaults /\ faults <= faults'
        /\ alone' \in BOOLEAN
    BY <1>1, <1>3, ServerConstants DEF ServerTyped
  <2> QED
    BY <1>1, <1>2, <2>1, <2>2, <2>3, <2>4, PlainFine
<1> QED
  BY <1>6, <1>7, <1>8

\* An attempt of a call, the first or the second.
LEMMA AttemptFine ==
  ASSUME Sane, NEW r \in Requests, NEW c \in Calls, NEW t \in Given, NEW again \in BOOLEAN,
         t \in 0..MaxPairs, Ready(r, c), Attempt(r, c, t, again), UNCHANGED <<port, history, late>>
  PROVE  Fine(r, c)
<1> USE Small
<1> DEFINE done == [ToDo EXCEPT !.pc = "done"]
           signIn == req[r].op = "login" /\ c = 1
           refused(recovers) ==
             IF recovers /\ ~again THEN [ToDo EXCEPT !.pc = "refused", !.token = t]
                                   ELSE [ToDo EXCEPT !.pc = "failed", !.retried = again]
<1>1. /\ faults' = faults /\ alone' = alone /\ port' = port /\ late' = late
      /\ faults' \in 0..MaxFaults /\ faults <= faults' /\ alone' \in BOOLEAN
  BY SaneCall, ServerConstants DEF history
<1>2. /\ Session(r) \in Sessions /\ Session(r).pair \in Given /\ InOrder(r)
      /\ req \in [Requests -> ReqType] /\ ServerTyped /\ Rooted /\ req[r] \in ReqType
  BY SaneCall
<1>3. "done" \in States /\ "refused" \in States /\ "failed" \in States
  BY DEF States, Over
<1>4. done \in CallType /\ done.pc = "done" /\ done.token = None /\ done.got = None
  BY <1>3 DEF ToDo
<1>5. None \in Given /\ None \in Given'
  BY DEF Given
<1>6. CASE /\ signIn /\ Issue(req[r].who, Next1) /\ unspent' = unspent \cup {Next1}
           /\ Change(r, c, done, SignedIn(r)) /\ UNCHANGED <<expired, ended>>
  <2> DEFINE s == SignedIn(r)
  <2>1. req[r].who \in Users
    BY <1>2, <1>6 DEF InOrder
  <2>2. /\ Grows /\ Rooted' /\ pairs' \in Seq(Pair) /\ Len(pairs') <= MaxPairs
        /\ Next1 \in DOMAIN pairs' /\ Next1 \in 1..MaxPairs /\ pairs'[Next1].user = req[r].who
    BY <1>2, <1>6, <2>1, IssueGrows
  <2>3. Around
    BY <1>1, <1>2, <1>6, <2>2 DEF Around, ServerTyped, Grows
  <2>4. /\ s \in Sessions /\ s.pair = Next1 /\ s.pair # None /\ s.pair \in Given'
        /\ s.user = IF port = "csharp" THEN Session(r).user ELSE req[r].who
    BY <1>2, <2>1, <2>2 DEF SignedIn, Sessions, Given
  <2>5. Made(r, c, done)
    BY <1>4, <1>5 DEF Made
  <2> HIDE DEF done, s
  <2>6. Stepped(r, c, done)
    BY <1>2, <1>4, <1>6, <2>4, ChangeSteps DEF s
  <2>7. (\A d \in Calls \ {c} : req[r].call[d].got = None) /\ Pc(r, 2) = "todo"
    BY <1>6, OneAwaits
  <2>8. port = "csharp" => Asking(r)'
    <3>1. req'[r].call[1] = done /\ req'[r].call[2] = req[r].call[2] /\ req'[r].op = "login"
      BY <1>6, <2>6 DEF Stepped
    <3> QED
      BY <1>1, <1>4, <2>7, <3>1 DEF Asking, Pc
  <2>9. (s.pair # None => s.user = pairs'[s.pair].user) \/ (port # "java" /\ Asking(r)')
    BY <2>2, <2>4, <2>8
  <2> QED
    BY <1>4, <1>6, <2>3, <2>4, <2>5, <2>7, <2>9, ChangeStep DEF s
<1>7. CASE /\ ~signIn /\ Accepts(t) /\ UNCHANGED <<pairs, expired, unspent>>
           /\ ended' = IF req[r].op = "logout" THEN ended \cup {pairs[t].start} ELSE ended
           /\ IF req[r].op = "login" THEN Change(r, c, done, Named(r)) ELSE GoOn(r, c, done)
  <2>1. t \in DOMAIN pairs /\ ended' \subseteq DOMAIN pairs
    BY <1>2, <1>7 DEF Accepts, Given, Rooted, ServerTyped
  <2>2. CASE req[r].op = "login"
    <3> DEFINE s == Named(r)
    <3>1. c = 2 /\ port = "csharp" /\ Pc(r, 1) = "done"
      BY <1>7, <2>2 DEF Ready, Second
    <3>2. Session(r) = req[r].mine /\ Session(r).pair \in DOMAIN pairs
      BY <1>2, <2>2, <3>1 DEF InOrder, Session, Live, Given
    <3>3. pairs[Session(r).pair].user \in Users
      <4>1. pairs[Session(r).pair] \in Pair
        BY <1>2, <3>2 DEF ServerTyped
      <4> QED
        BY <4>1 DEF Pair
    <3>4. /\ s \in Sessions /\ s.pair = Session(r).pair
          /\ s.user = pairs[Session(r).pair].user
      BY <1>2, <3>3 DEF Named, Sessions
    <3>5. Around
      BY <1>1, <1>2, <1>7, <2>1, Unissued DEF Around, ServerTyped
    <3>6. Made(r, c, done)
      BY <1>4, <1>5 DEF Made
    <3>7. Change(r, c, done, s)
      BY <1>7, <2>2
    <3>8. \A d \in Calls \ {c} : req[r].call[d].got = None
      BY <2>2, OneAwaits
    <3>9. s.pair \in Given' /\ s.pair # None /\ s.user = pairs'[s.pair].user
      <4>1. s.pair # None
        BY <1>2, <2>2, <3>1, <3>2, <3>4 DEF InOrder
      <4> QED
        BY <1>7, <3>2, <3>4, <4>1, Unissued DEF Given
    <3> HIDE DEF s, done
    <3> QED
      BY <1>4, <3>4, <3>5, <3>6, <3>7, <3>8, <3>9, ChangeStep
  <2>3. CASE req[r].op # "login"
    <3>1. GoOn(r, c, done)
      BY <1>7, <2>3
    <3>2. expired' \subseteq DOMAIN pairs
      BY <1>2, <1>7 DEF ServerTyped
    <3> HIDE DEF done
    <3> QED
      BY <1>1, <1>4, <1>5, <1>7, <2>1, <2>3, <3>1, <3>2, PlainFine
  <2> QED
    BY <2>2, <2>3
<1>8. CASE /\ expired' = IF signIn \/ ~Accepts(t) THEN expired ELSE expired \cup {t}
           /\ \E recovers \in Recovers(req[r].op, c) : GoOn(r, c, refused(recovers))
           /\ UNCHANGED <<pairs, unspent, ended>>
  <2>1. expired' \subseteq DOMAIN pairs
    BY <1>2, <1>8 DEF Accepts, Given, ServerTyped
  <2>2. PICK recovers \in Recovers(req[r].op, c) : GoOn(r, c, refused(recovers))
    BY <1>8
  <2>3. /\ refused(recovers) \in CallType /\ refused(recovers).token \in Given
        /\ refused(recovers).got = None /\ refused(recovers).pc \in {"refused", "failed"}
    BY <1>3, <1>5 DEF ToDo, CallType
  <2> HIDE DEF refused
  <2> QED
    BY <1>1, <1>8, <2>1, <2>2, <2>3, PlainFine
<1> QED
  BY <1>6, <1>7, <1>8 DEF Attempt

LEMMA AskFine ==
  ASSUME Sane, NEW r \in Requests, NEW c \in Calls, Ask(r, c) \/ Again(r, c)
  PROVE  Fine(r, c)
<1>1. CASE Ask(r, c)
  <2>1. Ready(r, c)
    BY <1>1, IsReady DEF Ask, Over
  <2> QED
    BY <1>1, <2>1, SaneCall, AttemptFine DEF Ask
<1>2. CASE Again(r, c)
  <2>1. Ready(r, c)
    BY <1>2, IsReady DEF Again, Over
  <2> QED
    BY <1>2, <2>1, SaneCall, AttemptFine DEF Again
<1> QED
  BY <1>1, <1>2

CallAction(r, c) ==
  \/ Ask(r, c) \/ Again(r, c) \/ RefreshAhead(r, c) \/ Recover(r, c)
  \/ Answer(r, c) \/ LoseAnswer(r, c) \/ Break(r, c)

LEMMA CallsFine ==
  ASSUME Sane, NEW r \in Requests, NEW c \in Calls, CallAction(r, c)
  PROVE  Fine(r, c)
BY AskFine, RefreshAheadFine, RecoverFine, AnswerFine, LoseAnswerFine, BreakFine DEF CallAction

-----------------------------------------------------------------------------
(* What is kept by the steps of the calls.                                 *)

LEMMA FineOwning ==
  ASSUME Sane, Owning, NEW r \in Requests, NEW c \in Calls, Fine(r, c)
  PROVE  Owning'
<1>1. PICK call : CallStep(r, c, call) /\ (Owning /\ Whole => Rightful(r)) /\ Gentle(r)
  BY DEF Fine
<1>2. port' = port /\ faults <= faults' /\ faults \in Nat /\ faults' \in Nat /\ Grows
      /\ \A o \in Requests \ {r} : req'[o] = req[o]
  BY <1>1 DEF CallStep, Stepped, Sane, TypeOK
<1> SUFFICES ASSUME ~(port = "csharp" /\ faults' > 0)
             PROVE  /\ Owns(stored)'
                    /\ \A o \in Requests :
                         /\ port # "java" => Asking(o)' \/ Owns(req[o].mine)'
                         /\ \A d \in Calls : OwnAnswer(o, d)'
  BY <1>2 DEF Owning
<1>3. Whole
  BY <1>2 DEF Whole
<1>4. Rightful(r)
  BY <1>1, <1>3
<1>5. ASSUME NEW o \in Requests, o # r
      PROVE  /\ port # "java" => Asking(o)' \/ Owns(req[o].mine)'
             /\ \A d \in Calls : OwnAnswer(o, d)'
  <2>1. req'[o] = req[o]
    BY <1>2, <1>5
  <2>2. \A t \in Given : t # None => pairs'[t] = pairs[t]
    BY <1>2 DEF Grows, Given
  <2>3. req[o].mine.pair \in Given /\ \A d \in Calls : req[o].call[d].got \in Given
    BY DEF Sane, Known
  <2>4. Asking(o) <=> Asking(o)'
    BY <1>2, <2>1 DEF Asking, Pc
  <2>5. /\ port # "java" => Asking(o) \/ Owns(req[o].mine)
        /\ \A d \in Calls : OwnAnswer(o, d)
    BY <1>3 DEF Owning, Whole
  <2>6. port # "java" => Asking(o)' \/ Owns(req[o].mine)'
    BY <2>1, <2>2, <2>3, <2>4, <2>5 DEF Owns
  <2>7. ASSUME NEW d \in Calls PROVE OwnAnswer(o, d)'
    BY <1>2, <2>1, <2>2, <2>3, <2>4, <2>5 DEF OwnAnswer
  <2> QED
    BY <2>6, <2>7
<1> QED
  BY <1>4, <1>5 DEF Rightful

LEMMA FineLeaving ==
  ASSUME Sane, Leaving, NEW r \in Requests, NEW c \in Calls, Fine(r, c)
  PROVE  Leaving'
<1>1. PICK call : CallStep(r, c, call) /\ Gentle(r)
  BY DEF Fine
<1>2. \A o \in Requests : req'[o].op = req[o].op
  BY <1>1 DEF CallStep, Stepped
<1>3. late' = late /\ Busy(r)
  BY <1>1 DEF CallStep
<1> SUFFICES ASSUME left'
             PROVE  /\ stored' = Nobody
                    /\ \A o \in Requests : Busy(o)' => o \in late \/ req[o].op = "login"
  BY <1>2, <1>3 DEF Leaving
<1>4. left /\ (stored' = stored \/ stored' = Nobody \/ (req[r].op # "login" /\ r \notin late))
  BY <1>1 DEF Gentle, Store
<1> QED
  BY <1>2, <1>3, <1>4 DEF Leaving, Busy

-----------------------------------------------------------------------------
(* A request comes, and goes.                                              *)

\* Request r becomes q, none of whose calls was made.
RequestStep(r, q) ==
  /\ q \in ReqType /\ req' = [req EXCEPT ![r] = q] /\ q.call = [c \in Calls |-> ToDo]
  /\ UNCHANGED <<port, server>>
  /\ stored' \in Sessions /\ stored'.pair \in Given
  /\ faults' \in 0..MaxFaults /\ faults <= faults'
  /\ alone' \in BOOLEAN /\ left' \in BOOLEAN /\ late' \subseteq Requests
  /\ q.mine.pair \in Given /\ q.token \in Given /\ (q.op = "login" => q.who \in Users)

LEMMA RequestStepSane ==
  ASSUME Sane, NEW r \in Requests, NEW q, RequestStep(r, q)
  PROVE  Sane'
<1> USE Small
<1>1. /\ req \in [Requests -> ReqType] /\ req' \in [Requests -> ReqType] /\ req'[r] = q
      /\ \A o \in Requests : o # r => req'[o] = req[o]
  BY DEF RequestStep, Sane, TypeOK
<1>2. UNCHANGED <<port, pairs, expired, unspent, ended>> /\ Given' = Given
  BY Unissued DEF RequestStep, server
<1>3. TypeOK'
  BY <1>1, <1>2 DEF RequestStep, Sane, TypeOK
<1>4. Rooted'
  BY <1>2, Unissued DEF Sane
<1>5. \A d \in Calls : q.call[d] = ToDo /\ ToDo.got = None /\ ToDo.token = None /\ ToDo.pc = "todo"
  BY DEF RequestStep, ToDo
<1>6. Known'
  <2>1. ASSUME NEW o \in Requests
        PROVE  /\ req'[o].mine.pair \in Given /\ req'[o].token \in Given
               /\ \A d \in Calls : req'[o].call[d].token \in Given /\ req'[o].call[d].got \in Given
    <3>1. CASE o = r
      BY <1>1, <1>5, <3>1 DEF RequestStep, Given
    <3>2. CASE o # r
      BY <1>1, <3>2 DEF Sane, Known
    <3> QED
      BY <3>1, <3>2
  <2> QED
    BY <1>2, <2>1 DEF Known, RequestStep
<1>7. ASSUME NEW o \in Requests PROVE InOrder(o)'
  <2>1. CASE o = r
    BY <1>1, <1>5, <2>1 DEF InOrder, Pc, RequestStep
  <2>2. CASE o # r
    <3>1. req'[o] = req[o] /\ InOrder(o) /\ faults \in Nat /\ faults' \in Nat /\ faults <= faults'
      BY <1>1, <2>2 DEF Sane, Ordered, TypeOK, RequestStep
    <3> QED
      BY <1>2, <3>1 DEF InOrder, Busy, Pc, Second
  <2> QED
    BY <2>1, <2>2
<1> QED
  BY <1>3, <1>4, <1>6, <1>7 DEF Sane, Ordered

LEMMA RequestStepOwning ==
  ASSUME Sane, Owning, NEW r \in Requests, NEW q, RequestStep(r, q),
         Whole => Owns(stored') /\ (port # "java" => Owns(q.mine))
  PROVE  Owning'
<1> USE Small
<1>1. /\ req \in [Requests -> ReqType] /\ req'[r] = q
      /\ \A o \in Requests : o # r => req'[o] = req[o]
  BY DEF RequestStep, Sane, TypeOK
<1>2. port' = port /\ pairs' = pairs /\ faults <= faults' /\ faults \in Nat /\ faults' \in Nat
  BY DEF RequestStep, server, Sane, TypeOK
<1>3. \A d \in Calls : q.call[d].got = None
  BY DEF RequestStep, ToDo
<1> SUFFICES ASSUME Whole, NEW o \in Requests
             PROVE  /\ Owns(stored)'
                    /\ port # "java" => Asking(o)' \/ Owns(req[o].mine)'
                    /\ \A d \in Calls : OwnAnswer(o, d)'
  <2>1. Whole' => Whole
    BY <1>2 DEF Whole
  <2> QED
    BY <1>2, <2>1 DEF Owning, Whole
<1>4. Owns(stored)'
  BY <1>2 DEF Owns
<1>5. CASE o = r
  BY <1>1, <1>2, <1>3, <1>5 DEF Owns, OwnAnswer
<1>6. CASE o # r
  <2>1. req'[o] = req[o]
    BY <1>1, <1>6
  <2>2. /\ port # "java" => Asking(o) \/ Owns(req[o].mine)
        /\ \A d \in Calls : OwnAnswer(o, d)
    BY DEF Owning, Whole
  <2> QED
    BY <1>2, <2>1, <2>2 DEF Owns, OwnAnswer, Asking, Pc
<1> QED
  BY <1>4, <1>5, <1>6

LEMMA BeginStep ==
  ASSUME Sane, NEW r \in Requests, NEW op \in {"data", "login", "logout"}, NEW who \in Users,
         Begin(r, op, who)
  PROVE  /\ \E q : RequestStep(r, q) /\ (Owning /\ Whole => Owns(stored') /\ (port # "java" => Owns(q.mine)))
         /\ Leaving => Leaving'
<1> USE Small
<1> DEFINE q == [Idle EXCEPT
       !.op = op,
       !.who = IF op = "login" THEN who ELSE "nobody",
       !.mine = IF port \in Live THEN Nobody ELSE stored,
       !.token = IF port \in Snapshot THEN stored.pair ELSE None]
<1>1. /\ ~Busy(r) /\ req' = [req EXCEPT ![r] = q]
      /\ op = "login" \/ stored.pair # None
      /\ UNCHANGED <<port, server, stored, faults, left, late>>
      /\ alone' = (alone /\ \A o \in Requests : ~Busy(o))
  BY DEF Begin
<1>2. /\ stored \in Sessions /\ stored.pair \in Given /\ stored.pair \in 0..MaxPairs
      /\ Nobody.pair = None /\ None \in Given /\ req \in [Requests -> ReqType]
      /\ faults \in 0..MaxFaults /\ alone \in BOOLEAN /\ left \in BOOLEAN /\ late \subseteq Requests
  BY DEF Sane, TypeOK, Known, Sessions, Given, Nobody
<1>3. /\ q \in ReqType /\ q.op = op /\ q.call = [c \in Calls |-> ToDo]
      /\ q.mine = IF port \in Live THEN Nobody ELSE stored
      /\ q.token \in Given /\ q.who = IF op = "login" THEN who ELSE "nobody"
  BY <1>2 DEF Idle, ReqType
<1> HIDE DEF q
<1>4. RequestStep(r, q)
  BY <1>1, <1>2, <1>3, ServerConstants DEF RequestStep
<1>5. ASSUME Owning, Whole PROVE Owns(stored') /\ (port # "java" => Owns(q.mine))
  BY <1>1, <1>2, <1>3, <1>5 DEF Owning, Whole, Owns
<1>6. ASSUME Leaving PROVE Leaving'
  <2>1. left => op = "login"
    BY <1>1, <1>2, <1>6 DEF Leaving
  <2>2. req'[r] = q /\ \A o \in Requests : o # r => req'[o] = req[o]
    BY <1>1, <1>2
  <2> QED
    BY <1>1, <1>3, <1>6, <2>1, <2>2 DEF Leaving, Busy
<1> QED
  BY <1>4, <1>5, <1>6

LEMMA RespondStep ==
  ASSUME Sane, NEW r \in Requests, Respond(r)
  PROVE  /\ RequestStep(r, Idle) /\ (Owning /\ Whole => Owns(stored'))
         /\ Leaving => Leaving'
<1> USE Small
<1>1. /\ stored \in Sessions /\ stored.pair \in Given /\ req[r].mine \in Sessions
      /\ req[r].mine.pair \in Given /\ InOrder(r) /\ left \in BOOLEAN
      /\ faults \in 0..MaxFaults /\ alone \in BOOLEAN /\ req \in [Requests -> ReqType]
  BY SaneCall
<1>2. /\ Busy(r) /\ Finished(r) /\ req' = [req EXCEPT ![r] = Idle] /\ stored' = Final(r)
      /\ UNCHANGED <<port, server, faults, alone>>
  BY DEF Respond, Store, history
<1>3. Nobody.pair = None /\ None \in Given /\ late \subseteq Requests
  BY DEF Nobody, Given, Sane, TypeOK
<1>4. Final(r) \in {Nobody, stored, req[r].mine} /\ stored' \in Sessions /\ stored'.pair \in Given
  BY <1>1, <1>2, <1>3 DEF Final
<1>5. left' \in BOOLEAN /\ late' \subseteq Requests
  BY <1>1, <1>3 DEF Respond, Store
<1>6. RequestStep(r, Idle)
  <2>1. Idle.mine.pair = None /\ Idle.token = None /\ Idle.call = [c \in Calls |-> ToDo]
        /\ Idle.op = "none"
    BY <1>3 DEF Idle
  <2> QED
    BY <1>1, <1>2, <1>3, <1>4, <1>5, <2>1, ServerConstants DEF RequestStep
<1>7. ASSUME Owning, Whole PROVE Owns(stored')
  <2>1. CASE Clears(r)
    BY <1>2, <1>3, <2>1 DEF Final, Owns
  <2>2. CASE ~Clears(r) /\ port # "java"
    <3>1. ~Asking(r)
      <4> SUFFICES ASSUME Asking(r) PROVE FALSE
        OBVIOUS
      <4>1. /\ port = "csharp" /\ req[r].op = "login" /\ Pc(r, 1) = "done"
            /\ Pc(r, 2) \in {"failed", "broken"}
        BY <1>2 DEF Asking, Finished, Over
      <4>2. Pc(r, 2) = "broken" => faults > 0
        BY <1>1, <4>1 DEF InOrder
      <4> QED
        BY <1>7, <2>2, <4>1, <4>2 DEF Clears, Whole
    <3> QED
      BY <1>2, <1>7, <2>2, <3>1 DEF Owning, Whole, Final, Owns
  <2>3. CASE ~Clears(r) /\ port = "java"
    BY <1>2, <1>7, <2>3 DEF Final, Live, Owning, Whole
  <2> QED
    BY <2>1, <2>2, <2>3
<1>8. ASSUME Leaving PROVE Leaving'
  <2>1. ~Busy(r)' /\ \A o \in Requests : o # r => req'[o] = req[o]
    BY <1>1, <1>2 DEF Busy, Idle
  <2> SUFFICES ASSUME left'
               PROVE  /\ stored' = Nobody
                      /\ \A o \in Requests \ {r} : Busy(o) => o \in late' \/ req[o].op = "login"
    BY <2>1 DEF Leaving, Busy
  <2>2. CASE SignsOut(r)
    BY <1>2, <2>2 DEF Respond, Final, Clears
  <2>3. CASE ~SignsOut(r)
    <3>1. Store(r, Final(r)) /\ late' = late \ {r}
      BY <2>3 DEF Respond
    <3>2. left /\ (Final(r) = Nobody \/ (req[r].op # "login" /\ r \notin late))
      BY <3>1 DEF Store
    <3> QED
      BY <1>2, <1>8, <3>1, <3>2 DEF Leaving
  <2> QED
    BY <2>2, <2>3
<1> QED
  BY <1>6, <1>7, <1>8

LEMMA DropStep ==
  ASSUME Sane, NEW r \in Requests, DropResponse(r)
  PROVE  /\ RequestStep(r, Idle) /\ (Owning /\ Whole => Owns(stored'))
         /\ Leaving => Leaving'
<1> USE Small
<1>1. /\ stored \in Sessions /\ stored.pair \in Given /\ left \in BOOLEAN
      /\ faults \in 0..MaxFaults /\ alone \in BOOLEAN /\ req \in [Requests -> ReqType]
      /\ late \subseteq Requests
  BY SaneCall DEF Sane, TypeOK
<1>2. /\ req' = [req EXCEPT ![r] = Idle] /\ UNCHANGED <<port, server, stored, left>>
      /\ late' = late \ {r} /\ alone' = (alone /\ ~req[r].changed /\ ~Clears(r))
      /\ Fault \/ UNCHANGED faults
  BY DEF DropResponse
<1>3. faults' \in 0..MaxFaults /\ faults <= faults'
  BY <1>1, <1>2, ServerConstants DEF Fault
<1>4. /\ Idle.mine.pair = None /\ Idle.token = None /\ Idle.call = [c \in Calls |-> ToDo]
      /\ Idle.op = "none" /\ None \in Given
  BY DEF Idle, Nobody, Given
<1>5. RequestStep(r, Idle)
  BY <1>1, <1>2, <1>3, <1>4 DEF RequestStep
<1>6. Owning /\ Whole => Owns(stored')
  BY <1>2 DEF Owning, Whole
<1>7. ASSUME Leaving PROVE Leaving'
  <2>1. ~Busy(r)' /\ \A o \in Requests : o # r => req'[o] = req[o]
    BY <1>1, <1>2 DEF Busy, Idle
  <2> QED
    BY <1>2, <1>7, <2>1 DEF Leaving, Busy
<1> QED
  BY <1>5, <1>6, <1>7

LEMMA TurnAwayStep ==
  ASSUME Sane, NEW r \in Requests, TurnAway(r)
  PROVE  /\ RequestStep(r, Idle) /\ (Owning /\ Whole => Owns(stored'))
         /\ Leaving => Leaving'
<1> USE Small
<1>1. /\ left \in BOOLEAN /\ faults \in 0..MaxFaults /\ alone \in BOOLEAN
      /\ req \in [Requests -> ReqType] /\ late \subseteq Requests
  BY SaneCall DEF Sane, TypeOK
<1>2. /\ req' = [req EXCEPT ![r] = Idle] /\ UNCHANGED <<port, server, faults, alone>>
      /\ stored' = Nobody /\ left' = left /\ late' = IF left' THEN late \ {r} ELSE {}
  BY <1>1 DEF TurnAway, Store, history
<1>3. /\ Idle.mine.pair = None /\ Idle.token = None /\ Idle.call = [c \in Calls |-> ToDo]
      /\ Idle.op = "none" /\ None \in Given /\ Nobody.pair = None
  BY DEF Idle, Nobody, Given
<1>4. RequestStep(r, Idle)
  BY <1>1, <1>2, <1>3, ServerConstants DEF RequestStep
<1>5. Owns(stored')
  BY <1>2, <1>3 DEF Owns
<1>6. ASSUME Leaving PROVE Leaving'
  <2>1. ~Busy(r)' /\ \A o \in Requests : o # r => req'[o] = req[o]
    BY <1>1, <1>2 DEF Busy, Idle
  <2> QED
    BY <1>2, <1>6, <2>1 DEF Leaving, Busy
<1> QED
  BY <1>4, <1>5, <1>6

LEMMA GiveUpStep ==
  ASSUME Sane, NEW r \in Requests, GiveUp(r)
  PROVE  /\ \E q : RequestStep(r, q) /\ port = "java" /\ stored' = stored
         /\ Leaving => Leaving'
<1> USE Small
<1> DEFINE q == [req[r] EXCEPT !.op = "logout", !.call = [c \in Calls |-> ToDo]]
<1>1. /\ stored \in Sessions /\ stored.pair \in Given /\ left \in BOOLEAN
      /\ faults \in 0..MaxFaults /\ alone \in BOOLEAN /\ req \in [Requests -> ReqType]
      /\ req[r] \in ReqType /\ req[r].mine.pair \in Given
  BY SaneCall
<1>2. req[r].token \in Given /\ late \subseteq Requests
  BY DEF Sane, Known, TypeOK
<1>3. /\ req' = [req EXCEPT ![r] = q] /\ port = "java" /\ req[r].op = "data"
      /\ UNCHANGED <<port, server, stored, faults, alone, left, late>>
  <2>1. req' = [req EXCEPT ![r].op = "logout", ![r].call = [c \in Calls |-> ToDo]]
    BY DEF GiveUp
  <2> QED
    BY <1>1, <2>1 DEF GiveUp, history, ReqType
<1>4. /\ q \in ReqType /\ q.op = "logout" /\ q.call = [c \in Calls |-> ToDo]
      /\ q.mine = req[r].mine /\ q.token = req[r].token
  BY <1>1 DEF ReqType
<1> HIDE DEF q
<1>5. RequestStep(r, q)
  BY <1>1, <1>2, <1>3, <1>4, ServerConstants DEF RequestStep
<1>6. ASSUME Leaving PROVE Leaving'
  <2>1. req'[r] = q /\ \A o \in Requests : o # r => req'[o] = req[o]
    BY <1>1, <1>3
  <2> QED
    BY <1>3, <1>6, <2>1 DEF Leaving, Busy
<1> QED
  BY <1>3, <1>5, <1>6

-----------------------------------------------------------------------------
(* The theorems.                                                           *)

LEMMA Start == Init => Sane /\ Owning /\ Leaving
<1> USE Small
<1> SUFFICES ASSUME Init PROVE Sane /\ Owning /\ Leaving
  OBVIOUS
<1>1. /\ port \in Ports /\ pairs = <<>> /\ expired = {} /\ unspent = {} /\ ended = {}
      /\ stored = Nobody /\ req = [r \in Requests |-> Idle] /\ faults = 0 /\ alone = TRUE
      /\ left = FALSE /\ late = {}
  BY DEF Init
<1>2. \A r \in Requests : req[r] = Idle
  BY <1>1
<1>3. /\ Idle.op = "none" /\ Idle.mine = Nobody /\ Idle.token = None
      /\ \A c \in Calls : Idle.call[c] = ToDo
      /\ ToDo.pc = "todo" /\ ToDo.got = None /\ ToDo.token = None /\ Nobody.pair = None
  BY DEF Idle, ToDo, Nobody
<1>4. TypeOK
  <2>1. pairs \in Seq([user : Users, start : 1..MaxPairs]) /\ Len(pairs) = 0 /\ DOMAIN pairs = {}
    BY <1>1
  <2>2. Len(pairs) <= MaxPairs /\ faults \in 0..MaxFaults
    BY <1>1, <2>1, ServerConstants
  <2>3. req \in [Requests -> ReqType] /\ stored \in Sessions
    BY <1>1
  <2> QED
    BY <1>1, <2>1, <2>2, <2>3 DEF TypeOK
<1>5. Rooted /\ Known
  BY <1>1, <1>2, <1>3 DEF Rooted, Known, Given
<1>6. Ordered
  BY <1>2, <1>3 DEF Ordered, InOrder, Pc
<1>7. Owning
  BY <1>1, <1>2, <1>3 DEF Owning, Owns, OwnAnswer
<1>8. Leaving
  BY <1>1 DEF Leaving
<1> QED
  BY <1>4, <1>5, <1>6, <1>7, <1>8 DEF Sane

LEMMA Steps ==
  ASSUME Sane, [Next]_vars
  PROVE  Sane' /\ (Owning => Owning') /\ (Leaving => Leaving')
<1>1. CASE UNCHANGED vars
  <2>1. UNCHANGED <<port, pairs, expired, unspent, ended, stored, req, faults, alone, left, late>>
    BY <1>1 DEF vars, server, history
  <2>2. Sane'
    BY <2>1 DEF Sane, TypeOK, Rooted, Known, Given, Ordered, InOrder, Busy, Pc, Second
  <2>3. Owning => Owning'
    BY <2>1 DEF Owning, Owns, OwnAnswer, Asking, Pc
  <2>4. Leaving => Leaving'
    BY <2>1 DEF Leaving, Busy
  <2> QED
    BY <2>2, <2>3, <2>4
<1>2. ASSUME NEW r \in Requests, NEW c \in Calls, CallAction(r, c)
      PROVE  Sane' /\ (Owning => Owning') /\ (Leaving => Leaving')
  <2>1. Fine(r, c)
    BY <1>2, CallsFine
  <2>2. Sane'
    BY <2>1, CallStepSane DEF Fine
  <2> QED
    BY <2>1, <2>2, FineOwning, FineLeaving
<1>3. ASSUME NEW r \in Requests, NEW op \in {"data", "login", "logout"}, NEW who \in Users,
             Begin(r, op, who)
      PROVE  Sane' /\ (Owning => Owning') /\ (Leaving => Leaving')
  <2>1. PICK q : RequestStep(r, q) /\ (Owning /\ Whole => Owns(stored') /\ (port # "java" => Owns(q.mine)))
    BY <1>3, BeginStep
  <2>2. Leaving => Leaving'
    BY <1>3, BeginStep
  <2> QED
    BY <2>1, <2>2, RequestStepSane, RequestStepOwning
<1>4. Owns(Idle.mine)
  BY DEF Owns, Idle, Nobody
<1>5. ASSUME NEW r \in Requests, Respond(r)
      PROVE  Sane' /\ (Owning => Owning') /\ (Leaving => Leaving')
  BY <1>4, <1>5, RespondStep, RequestStepSane, RequestStepOwning
<1>6. ASSUME NEW r \in Requests, DropResponse(r)
      PROVE  Sane' /\ (Owning => Owning') /\ (Leaving => Leaving')
  BY <1>4, <1>6, DropStep, RequestStepSane, RequestStepOwning
<1>7. ASSUME NEW r \in Requests, GiveUp(r)
      PROVE  Sane' /\ (Owning => Owning') /\ (Leaving => Leaving')
  <2>1. PICK q : RequestStep(r, q) /\ port = "java" /\ stored' = stored
    BY <1>7, GiveUpStep
  <2>2. Owning /\ Whole => Owns(stored')
    BY <2>1 DEF Owning, Whole
  <2> QED
    BY <1>7, <2>1, <2>2, GiveUpStep, RequestStepSane, RequestStepOwning
<1>8. ASSUME NEW r \in Requests, TurnAway(r)
      PROVE  Sane' /\ (Owning => Owning') /\ (Leaving => Leaving')
  BY <1>4, <1>8, TurnAwayStep, RequestStepSane, RequestStepOwning
<1> QED
  BY <1>1, <1>2, <1>3, <1>5, <1>6, <1>7, <1>8 DEF Next, CallAction

\* Every variable keeps its type, and no request holds a pair of tokens that was
\* not handed out.
THEOREM ServerTypes == Spec => []TypeOK
<1>1. Init => Sane
  BY Start
<1>2. Sane /\ [Next]_vars => Sane'
  BY Steps
<1>3. Sane => TypeOK
  BY DEF Sane
<1> QED
  BY <1>1, <1>2, <1>3, PTL DEF Spec

\* The stored session names the user its tokens belong to, however the requests
\* of a browser and their refreshes overlap: what a request writes back was read
\* together, or is the answer to the refresh of what it read.  (On C# unless
\* the call that asks who has signed in broke.)
THEOREM ServerUserOwnsTokens == Spec => []UserOwnsTokens
<1>1. Init => Sane /\ Owning
  BY Start
<1>2. Sane /\ Owning /\ [Next]_vars => Sane' /\ Owning'
  BY Steps
<1>3. Sane /\ Owning => UserOwnsTokens
  BY DEF Owning, Owns, UserOwnsTokens
<1> QED
  BY <1>1, <1>2, <1>3, PTL DEF Spec

\* Once the user has been told that he is signed out the session stays empty
\* until somebody signs in, save by a request that was under way at the time.
\* A C# sign-out that timed out, which the error page answers, is not told so.
THEOREM ServerSignOutSticks == Spec => []SignOutSticks
<1>1. Init => Sane /\ Leaving
  BY Start
<1>2. Sane /\ Leaving /\ [Next]_vars => Sane' /\ Leaving'
  BY Steps
<1>3. Leaving => SignOutSticks
  BY DEF Leaving, SignOutSticks
<1> QED
  BY <1>1, <1>2, <1>3, PTL DEF Spec

-----------------------------------------------------------------------------
(* Requests that do not overlap.                                           *)

\* A pair whose refresh token would be taken.
Good(p) == p # None => p \in unspent /\ pairs[p].start \notin ended

Waits(r, c) == Pc(r, c) \in {"asked", "ahead"}

\* The sign-in is over, and the session will be.
Gone(r) == req[r].op = "logout" /\ Pc(r, 1) = "done"

\* What a request holds that nothing overlaps.
Holding(r) ==
  /\ port # "java" /\ ~req[r].changed => req[r].mine = stored
  /\ req[r].op = "data" => Session(r).pair # None
  /\ Gone(r) \/ (\E c \in Calls : Waits(r, c)) \/ Good(Session(r).pair)
  /\ \A c \in Calls : Waits(r, c) =>
       /\ req[r].call[c].got # None /\ Good(req[r].call[c].got)
       /\ \A d \in Calls \ {c} : ~Waits(r, d)
  /\ \A c \in Calls : req[r].op = "data" /\ Pc(r, c) = "failed" =>
       req[r].call[c].retried \/ (port = "python" /\ c = 2)
  /\ port = "python" /\ Pc(r, 1) = "failed" => Pc(r, 2) = "todo"
  /\ \A c \in Calls : Pc(r, c) # "crashed" /\ (Pc(r, c) = "ahead" => port # "csharp")

\* As long as nothing overlapped or was lost, one request is under way at a time,
\* and holds what it needs; between requests the stored session does.
Undisturbed ==
  alone =>
    /\ \A r, o \in Requests : Busy(r) /\ Busy(o) => r = o
    /\ (\A r \in Requests : ~Busy(r)) => Good(stored.pair)
    /\ \A r \in Requests : Busy(r) => Holding(r)

\* What call c has become, when it does not wait.
Settled(r, c, call) ==
  /\ call.pc \notin {"asked", "ahead", "crashed"}
  /\ req[r].op = "data" /\ call.pc = "failed" => call.retried \/ (port = "python" /\ c = 2)
  /\ port = "python" /\ c = 2 => Pc(r, 1) # "failed"

LEMMA GoOnKeeps ==
  ASSUME Sane, NEW r \in Requests, NEW c \in Calls, NEW call \in CallType, Ready(r, c),
         Holding(r), GoOn(r, c, call), ~Waits(r, c), Settled(r, c, call),
         UNCHANGED <<port, pairs, unspent>>,
         ended' = ended \/ (req[r].op = "logout" /\ call.pc = "done")
  PROVE  Holding(r)'
<1> USE Small
<1>1. /\ req \in [Requests -> ReqType] /\ InOrder(r)
  BY SaneCall
<1>2. /\ Stepped(r, c, call) /\ req'[r].mine = req[r].mine /\ stored' = stored
      /\ req'[r].changed = req[r].changed
  <2>1. req[r] \in ReqType /\ req' = [req EXCEPT ![r] = [req[r] EXCEPT !.call = [req[r].call EXCEPT ![c] = call]]]
    BY <1>1 DEF GoOn
  <2> QED
    BY <1>1, <2>1, GoOnSteps DEF ReqType
<1>3. /\ req'[r].call[c] = call /\ req'[r].op = req[r].op /\ port' = port
      /\ \A d \in Calls \ {c} : req'[r].call[d] = req[r].call[d]
  BY <1>2 DEF Stepped
<1>4. Session(r)' = Session(r)
  BY <1>2 DEF Session
<1>5. \A d \in Calls : Waits(r, d)' <=> (Waits(r, d) /\ d # c)
  BY <1>3 DEF Waits, Pc, Settled
<1>6. CASE req[r].op = "logout" /\ call.pc = "done"
  <2>1. c = 1
    BY <1>6 DEF Ready, Second
  <2>2. Gone(r)'
    BY <1>3, <1>6, <2>1 DEF Gone, Pc
  <2>3. \A d \in Calls : ~Waits(r, d)'
    <3>1. Pc(r, 2) = "todo"
      BY <1>1, <1>6 DEF InOrder, Second
    <3> QED
      BY <1>5, <2>1, <3>1 DEF Waits
  <2>4. port = "python" => Pc(r, 1)' # "failed"
    BY <1>3, <1>6, <2>1 DEF Pc
  <2>5. \A d \in Calls : Pc(r, d)' # "crashed" /\ (Pc(r, d)' = "ahead" => port' # "csharp")
    BY <1>3, <1>6 DEF Holding, Pc
  <2> QED
    BY <1>2, <1>3, <1>6, <2>2, <2>3, <2>4, <2>5 DEF Holding
<1>7. CASE ended' = ended
  <2>1. \A p : Good(p)' <=> Good(p)
    BY <1>7 DEF Good
  <2>2. Gone(r)' \/ (\E d \in Calls : Waits(r, d)') \/ Good(Session(r).pair)'
    <3>1. ~Gone(r)
      BY DEF Gone, Ready, Over, Second, Pc
    <3> QED
      BY <1>4, <1>5, <2>1, <3>1 DEF Holding, Waits
  <2>3. \A d \in Calls : Waits(r, d)' =>
           /\ req'[r].call[d].got # None /\ Good(req[r].call[d].got)'
           /\ \A e \in Calls \ {d} : ~Waits(r, e)'
    BY <1>3, <1>5, <2>1 DEF Holding
  <2>4. \A d \in Calls : req'[r].op = "data" /\ Pc(r, d)' = "failed" =>
           req'[r].call[d].retried \/ (port' = "python" /\ d = 2)
    BY <1>3 DEF Holding, Pc, Settled
  <2>5. port' = "python" /\ Pc(r, 1)' = "failed" => Pc(r, 2)' = "todo"
    <3>1. CASE c = 2
      BY <1>3, <3>1 DEF Pc, Settled
    <3>2. CASE c = 1
      <4>1. port = "python" => Pc(r, 2) = "todo"
        BY <1>1, <3>2 DEF InOrder, Second, Ready
      <4> QED
        BY <1>3, <3>2, <4>1 DEF Pc
    <3> QED
      BY <3>1, <3>2
  <2>6. req'[r].op = "data" => Session(r)'.pair # None
    BY <1>3, <1>4 DEF Holding
  <2>7. port' # "java" /\ ~req'[r].changed => req'[r].mine = stored'
    BY <1>2, <1>3 DEF Holding
  <2>8. \A d \in Calls : Pc(r, d)' # "crashed" /\ (Pc(r, d)' = "ahead" => port' # "csharp")
    BY <1>3 DEF Holding, Pc, Settled
  <2> QED
    BY <2>2, <2>3, <2>4, <2>5, <2>6, <2>7, <2>8 DEF Holding
<1> QED
  BY <1>6, <1>7

LEMMA ChangeKeeps ==
  ASSUME Sane, NEW r \in Requests, NEW c \in Calls, NEW call \in CallType, NEW s \in Sessions,
         Ready(r, c), Holding(r), Change(r, c, call, s), Settled(r, c, call), port' = port,
         s.pair # None => s.pair \in unspent' /\ pairs'[s.pair].start \notin ended',
         req[r].op = "data" => s.pair # None,
         \A d \in Calls \ {c} : ~Waits(r, d)
  PROVE  Holding(r)'
<1> USE Small
<1>1. /\ req \in [Requests -> ReqType] /\ InOrder(r)
  BY SaneCall
<1>2. /\ Stepped(r, c, call)
      /\ port = "java" => stored' = s
      /\ port # "java" => req'[r].mine = s /\ req'[r].changed = TRUE
  <2>1. Stepped(r, c, call) /\ (port = "java" => stored' = s)
    BY <1>1, ChangeSteps DEF Store
  <2>2. ASSUME port # "java"
        PROVE  req'[r].mine = s /\ req'[r].changed = TRUE
    <3>1. req' = [req EXCEPT ![r] = [req[r] EXCEPT !.call = [req[r].call EXCEPT ![c] = call],
                                                 !.mine = s, !.changed = TRUE]]
      BY <2>2 DEF Change, Live
    <3>2. req[r] \in ReqType
      BY <1>1
    <3> QED
      BY <1>1, <3>1, <3>2 DEF ReqType
  <2> QED
    BY <2>1, <2>2
<1>3. /\ req'[r].call[c] = call /\ req'[r].op = req[r].op
      /\ \A d \in Calls \ {c} : req'[r].call[d] = req[r].call[d]
  BY <1>2 DEF Stepped
<1>4. Session(r)' = s
  BY <1>2 DEF Session, Live
<1>5. \A d \in Calls : ~Waits(r, d)'
  BY <1>3 DEF Waits, Pc, Settled
<1>6. Good(Session(r).pair)'
  BY <1>4 DEF Good
<1>7. \A d \in Calls : req'[r].op = "data" /\ Pc(r, d)' = "failed" =>
         req'[r].call[d].retried \/ (port' = "python" /\ d = 2)
  BY <1>3 DEF Holding, Pc, Settled
<1>8. port' = "python" /\ Pc(r, 1)' = "failed" => Pc(r, 2)' = "todo"
  <2>1. CASE c = 2
    BY <1>3, <2>1 DEF Pc, Settled
  <2>2. CASE c = 1
    <3>1. port = "python" => Pc(r, 2) = "todo"
      BY <1>1, <2>2 DEF InOrder, Second, Ready
    <3> QED
      BY <1>3, <2>2, <3>1 DEF Pc
  <2> QED
    BY <2>1, <2>2
<1>9. \A d \in Calls : Pc(r, d)' # "crashed" /\ (Pc(r, d)' = "ahead" => port' # "csharp")
  BY <1>3 DEF Holding, Pc, Settled
<1> QED
  BY <1>2, <1>3, <1>4, <1>5, <1>6, <1>7, <1>8, <1>9 DEF Holding

\* What is issued is new.
LEMMA IssueNew ==
  ASSUME ServerTyped, NEW user \in Users, NEW start \in DOMAIN pairs \cup {Next1}, Issue(user, start)
  PROVE  Next1 # None /\ Next1 \notin DOMAIN pairs /\ pairs'[Next1].start = start
<1>1. pairs \in Seq(Pair) /\ Len(pairs) \in Nat /\ DOMAIN pairs = 1..Len(pairs)
  BY DEF ServerTyped
<1>2. pairs' = Append(pairs, [user |-> user, start |-> start]) /\ Len(pairs) < MaxPairs
  BY DEF Issue
<1>3. Next1 = Len(pairs) + 1 /\ start \in 1..MaxPairs
  BY <1>1, <1>2, ServerConstants DEF Next1
<1>4. [user |-> user, start |-> start] \in Pair
  BY <1>3 DEF Pair
<1>5. pairs'[Next1] = [user |-> user, start |-> start]
  BY <1>1, <1>2, <1>3, <1>4
<1>6. Next1 # None /\ Next1 \notin DOMAIN pairs
  BY <1>1, <1>3 DEF None
<1> QED
  BY <1>5, <1>6

\* A refresh token that is good is taken, and its successor is good.
LEMMA SpendGood ==
  ASSUME ServerTyped, Rooted, NEW t \in DOMAIN pairs, t # None, Good(t), NEW answer, Spend(t, answer)
  PROVE  answer # None /\ Good(answer)'
<1>1. t \in unspent /\ pairs[t].start \notin ended
  BY DEF Good
<1>2. /\ answer = Next1 /\ Issue(pairs[t].user, pairs[t].start)
      /\ unspent' = (unspent \ {t}) \cup {Next1} /\ ended' = ended
  BY <1>1 DEF Spend
<1>3. pairs[t].user \in Users /\ pairs[t].start \in DOMAIN pairs
  <2>1. pairs[t] \in Pair
    BY DEF ServerTyped
  <2> QED
    BY <2>1 DEF Pair, Rooted
<1>4. Next1 # None /\ pairs'[Next1].start = pairs[t].start
  BY <1>2, <1>3, IssueNew
<1> QED
  BY <1>1, <1>2, <1>4 DEF Good

LEMMA PresentKeeps ==
  ASSUME Sane, NEW r \in Requests, NEW c \in Calls, NEW pc \in {"asked", "ahead"},
         Ready(r, c), Holding(r), Session(r).pair # None, Present(r, c, pc),
         \A d \in Calls : ~Waits(r, d), port = "python" /\ c = 2 => Pc(r, 1) # "failed",
         pc = "ahead" => port # "csharp", UNCHANGED port
  PROVE  Holding(r)'
<1> USE Small
<1>1. PICK answer \in 0..MaxPairs :
        /\ Spend(Session(r).pair, answer)
        /\ GoOn(r, c, [req[r].call[c] EXCEPT !.pc = pc, !.got = answer, !.seen = Session(r).user])
  BY DEF Present
<1> DEFINE call == [req[r].call[c] EXCEPT !.pc = pc, !.got = answer, !.seen = Session(r).user]
<1>2. /\ req[r].call[c] \in CallType /\ Session(r) \in Sessions /\ Session(r).pair \in DOMAIN pairs
      /\ ServerTyped /\ Rooted /\ InOrder(r) /\ req \in [Requests -> ReqType]
  BY SaneCall DEF Given
<1>3. answer # None /\ Good(answer)'
  <2>1. ~Gone(r)
    BY DEF Gone, Ready, Over, Second
  <2>2. Good(Session(r).pair)
    BY <2>1 DEF Holding
  <2> QED
    BY <1>1, <1>2, <2>2, SpendGood
<1>4. call \in CallType /\ call.pc = pc /\ call.got = answer
  <2>1. pc \in States
    BY DEF States
  <2> QED
    BY <1>2, <2>1 DEF CallType, Sessions
<1> HIDE DEF call
<1>5. /\ Stepped(r, c, call) /\ req'[r].mine = req[r].mine /\ stored' = stored
      /\ req'[r].changed = req[r].changed
  <2>0. GoOn(r, c, call)
    BY <1>1 DEF call
  <2>1. req[r] \in ReqType /\ req' = [req EXCEPT ![r] = [req[r] EXCEPT !.call = [req[r].call EXCEPT ![c] = call]]]
    BY <1>2, <2>0 DEF GoOn
  <2> QED
    BY <1>2, <1>4, <2>0, <2>1, GoOnSteps DEF ReqType
<1>6. /\ req'[r].call[c] = call /\ req'[r].op = req[r].op
      /\ \A d \in Calls \ {c} : req'[r].call[d] = req[r].call[d]
  BY <1>5 DEF Stepped
<1>7. Session(r)' = Session(r)
  BY <1>5 DEF Session
<1>8. \A d \in Calls : Waits(r, d)' <=> d = c
  BY <1>4, <1>6 DEF Waits, Pc
<1>9. \A d \in Calls : Waits(r, d)' =>
         /\ req'[r].call[d].got # None /\ Good(req[r].call[d].got)'
         /\ \A e \in Calls \ {d} : ~Waits(r, e)'
  BY <1>3, <1>4, <1>6, <1>8 DEF Good
<1>10. \A d \in Calls : req'[r].op = "data" /\ Pc(r, d)' = "failed" =>
          req'[r].call[d].retried \/ (port' = "python" /\ d = 2)
  BY <1>4, <1>6 DEF Holding, Pc
<1>11. port' = "python" /\ Pc(r, 1)' = "failed" => Pc(r, 2)' = "todo"
  BY <1>4, <1>6 DEF Holding, Pc
<1>12. /\ req'[r].op = "data" => Session(r)'.pair # None
       /\ port' # "java" /\ ~req'[r].changed => req'[r].mine = stored'
  BY <1>5, <1>6, <1>7 DEF Holding
<1>13. \A d \in Calls : Pc(r, d)' # "crashed" /\ (Pc(r, d)' = "ahead" => port' # "csharp")
  BY <1>4, <1>6 DEF Holding, Pc
<1> QED
  BY <1>8, <1>9, <1>10, <1>11, <1>12, <1>13 DEF Holding

\* On Python a second call follows one that went well.
LEMMA AfterSuccess ==
  ASSUME Sane, NEW r \in Requests, NEW c \in Calls, Holding(r), Turn(r, c) \/ Pc(r, c) # "todo",
         port = "python", c = 2
  PROVE  Pc(r, 1) # "failed"
BY DEF Turn, Holding, SideBySide, GoesOn

LEMMA RefreshAheadKeeps ==
  ASSUME Sane, NEW r \in Requests, NEW c \in Calls, Holding(r), RefreshAhead(r, c)
  PROVE  Holding(r)'
<1> USE Small
<1>1. Pc(r, c) = "todo" /\ Turn(r, c) /\ port \in {"python", "ruby"} /\ port' = port
      /\ Session(r).pair # None /\ Present(r, c, "ahead")
  BY DEF RefreshAhead, RefreshesAhead
<1>2. Ready(r, c)
  BY <1>1, IsReady DEF Over
<1>3. \A d \in Calls : ~Waits(r, d)
  <2>1. \A d \in Calls \ {c} : req[r].call[d].got = None
    BY <1>1, <1>2, OneAwaits
  <2> QED
    BY <1>1, <2>1 DEF Holding, Waits
<1>4. port = "python" /\ c = 2 => Pc(r, 1) # "failed"
  BY <1>1, AfterSuccess
<1> QED
  BY <1>1, <1>2, <1>3, <1>4, PresentKeeps

LEMMA RecoverKeeps ==
  ASSUME Sane, NEW r \in Requests, NEW c \in Calls, Holding(r), Recover(r, c), alone'
  PROVE  Holding(r)'
<1> USE Small
<1>1. Pc(r, c) = "refused" /\ port' = port
  BY DEF Recover
<1>2. Ready(r, c) /\ (port = "python" /\ c = 2 => Pc(r, 1) # "failed")
  BY <1>1, IsReady, AfterSuccess DEF Over
<1>3. InOrder(r) /\ Session(r) \in Sessions /\ Session(r).pair \in 0..MaxPairs
  BY SaneCall DEF Sessions
<1>4. CASE Session(r).pair # None /\ ~Moved(r, c)
  <2>1. Present(r, c, "asked") /\ ~Overlaps(r, c)
    BY <1>4 DEF Recover
  <2>2. \A d \in Calls : ~Waits(r, d)
    <3>1. \A d \in Calls : Pc(r, d) # "ahead"
      <4>1. CASE port = "csharp"
        BY <4>1 DEF Holding
      <4>2. CASE port # "csharp"
        <5>1. \A d \in Calls \ {c} : req[r].call[d].got = None
          BY <1>2, <4>2, OneAwaits
        <5> QED
          BY <1>1, <5>1 DEF Holding, Waits
      <4> QED
        BY <4>1, <4>2
    <3>2. \A d \in Calls : Pc(r, d) # "asked"
      BY <1>1, <2>1 DEF Overlaps
    <3> QED
      BY <3>1, <3>2 DEF Waits
  <2> QED
    BY <1>1, <1>2, <1>4, <2>1, <2>2, PresentKeeps
<1>5. CASE ~(Session(r).pair # None /\ ~Moved(r, c))
  <2>1. GoOn(r, c, Unpresented(r)) /\ UNCHANGED <<pairs, unspent, ended>>
    BY <1>5 DEF Recover
  <2>2. "failed" \in States /\ "again" \in States
    BY DEF States, Over
  <2>3. /\ Unpresented(r) \in CallType
        /\ Unpresented(r).pc = IF Session(r).pair = None THEN "failed" ELSE "again"
    BY <1>3, <2>2 DEF Unpresented, ToDo, CallType
  <2>4. Settled(r, c, Unpresented(r))
    BY <1>2, <2>3 DEF Settled, Holding
  <2>5. ~Waits(r, c)
    BY <1>1 DEF Waits
  <2> QED
    BY <1>1, <1>2, <2>1, <2>3, <2>4, <2>5, GoOnKeeps
<1> QED
  BY <1>4, <1>5

LEMMA AnswerKeeps ==
  ASSUME Sane, NEW r \in Requests, NEW c \in Calls, Holding(r), Answer(r, c)
  PROVE  Holding(r)'
<1> USE Small
<1> DEFINE got  == req[r].call[c].got
           pc   == IF Pc(r, c) = "ahead" THEN "ready" ELSE "again"
           call == Then(pc, got)
           s    == Rotated(r, c)
<1>1. Pc(r, c) \in {"asked", "ahead"} /\ UNCHANGED <<port, pairs, expired, unspent, ended>>
  BY DEF Answer, server
<1>2. Ready(r, c) /\ (port = "python" /\ c = 2 => Pc(r, 1) # "failed")
  BY <1>1, IsReady, AfterSuccess DEF Over
<1>3. got # None /\ Good(got) /\ \A d \in Calls \ {c} : ~Waits(r, d)
  BY <1>1 DEF Holding, Waits
<1>4. /\ got \in 0..MaxPairs /\ Session(r) \in Sessions /\ req[r].call[c] \in CallType
  BY SaneCall
<1>5. Change(r, c, call, s)
  BY <1>3 DEF Answer, Then
<1>6. pc \in {"ready", "again"} /\ pc \in States
  BY DEF States
<1>7. call \in CallType /\ call.pc = pc
  BY <1>4, <1>6, ThenMade
<1>8. s \in Sessions /\ s.pair = got
  BY <1>4 DEF Rotated, Sessions, CallType
<1> HIDE DEF call, s, pc, got
<1>9. s.pair \in unspent' /\ pairs'[s.pair].start \notin ended'
  BY <1>1, <1>3, <1>8 DEF Good
<1>10. Settled(r, c, call)
  BY <1>2, <1>6, <1>7 DEF Settled
<1> QED
  BY <1>1, <1>2, <1>3, <1>5, <1>7, <1>8, <1>9, <1>10, ChangeKeeps

LEMMA BreakKeeps ==
  ASSUME Sane, NEW r \in Requests, NEW c \in Calls, Holding(r), Break(r, c), alone'
  PROVE  Holding(r)'
<1> USE Small
<1> DEFINE call == [ToDo EXCEPT !.pc = "broken"]
<1>1. /\ Pc(r, c) \in {"todo", "refused", "again"} /\ Turn(r, c) /\ port = "csharp"
      /\ GoOn(r, c, call) /\ UNCHANGED <<port, pairs, expired, unspent, ended>>
  BY DEF Break, To
<1>2. Ready(r, c)
  BY <1>1, IsReady DEF Over
<1>3. call \in CallType /\ call.pc = "broken"
  BY DEF States, Over, ToDo
<1> HIDE DEF call
<1>4. Settled(r, c, call) /\ ~Waits(r, c)
  BY <1>1, <1>3 DEF Settled, Waits
<1> QED
  BY <1>1, <1>2, <1>3, <1>4, GoOnKeeps

LEMMA AttemptKeeps ==
  ASSUME Sane, NEW r \in Requests, NEW c \in Calls, NEW t \in Given, NEW again \in BOOLEAN,
         t \in 0..MaxPairs, Ready(r, c), ~Waits(r, c), Holding(r), Attempt(r, c, t, again),
         port = "python" /\ c = 2 => Pc(r, 1) # "failed", UNCHANGED port
  PROVE  Holding(r)'
<1> USE Small
<1> DEFINE done == [ToDo EXCEPT !.pc = "done"]
           signIn == req[r].op = "login" /\ c = 1
           refused(recovers) ==
             IF recovers /\ ~again THEN [ToDo EXCEPT !.pc = "refused", !.token = t]
                                   ELSE [ToDo EXCEPT !.pc = "failed", !.retried = again]
<1>2. /\ Session(r) \in Sessions /\ Session(r).pair \in Given /\ InOrder(r)
      /\ req \in [Requests -> ReqType] /\ ServerTyped /\ Rooted /\ req[r] \in ReqType
  BY SaneCall
<1>3. "done" \in States /\ "refused" \in States /\ "failed" \in States
  BY DEF States, Over
<1>4. done \in CallType /\ done.pc = "done" /\ Settled(r, c, done)
  BY <1>3 DEF ToDo, Settled
<1>5. req[r].op = "login" => \A d \in Calls \ {c} : ~Waits(r, d)
  BY OneAwaits DEF Holding
<1>6. CASE /\ signIn /\ Issue(req[r].who, Next1) /\ unspent' = unspent \cup {Next1}
           /\ Change(r, c, done, SignedIn(r)) /\ UNCHANGED <<expired, ended>>
  <2> DEFINE s == SignedIn(r)
  <2>1. req[r].who \in Users
    BY <1>2, <1>6 DEF InOrder
  <2>2. Next1 \in 1..MaxPairs
    BY <1>2, <1>6, <2>1, IssueGrows
  <2>3. Next1 # None /\ Next1 \notin DOMAIN pairs /\ pairs'[Next1].start = Next1
    BY <1>2, <1>6, <2>1, IssueNew
  <2>4. s \in Sessions /\ s.pair = Next1
    BY <1>2, <2>1, <2>2 DEF SignedIn, Sessions
  <2> HIDE DEF s
  <2>5. s.pair \in unspent' /\ pairs'[s.pair].start \notin ended'
    <3>1. Next1 \notin ended /\ Next1 \in unspent'
      BY <1>2, <1>6, <2>3 DEF ServerTyped
    <3> QED
      BY <1>6, <2>3, <2>4, <3>1
  <2> HIDE DEF done
  <2> QED
    BY <1>4, <1>5, <1>6, <2>4, <2>5, ChangeKeeps DEF s
<1>7. CASE /\ ~signIn /\ Accepts(t) /\ UNCHANGED <<pairs, expired, unspent>>
           /\ ended' = IF req[r].op = "logout" THEN ended \cup {pairs[t].start} ELSE ended
           /\ IF req[r].op = "login" THEN Change(r, c, done, Named(r)) ELSE GoOn(r, c, done)
  <2>1. CASE req[r].op = "login"
    <3> DEFINE s == Named(r)
    <3>1. c = 2 /\ port = "csharp" /\ Pc(r, 1) = "done"
      BY <1>7, <2>1 DEF Ready, Second
    <3>2. Session(r).pair \in DOMAIN pairs
      BY <1>2, <2>1, <3>1 DEF InOrder, Session, Live, Given
    <3>3. pairs[Session(r).pair].user \in Users
      <4>1. pairs[Session(r).pair] \in Pair
        BY <1>2, <3>2 DEF ServerTyped
      <4> QED
        BY <4>1 DEF Pair
    <3>4. s \in Sessions /\ s.pair = Session(r).pair
      BY <1>2, <3>3 DEF Named, Sessions
    <3>5. Good(Session(r).pair)
      <4>1. \A d \in Calls : ~Waits(r, d)
        BY <1>5, <2>1
      <4> QED
        BY <2>1, <4>1 DEF Holding, Gone
    <3>6. Change(r, c, done, s)
      BY <1>7, <2>1
    <3> HIDE DEF s, done
    <3>7. s.pair # None => s.pair \in unspent' /\ pairs'[s.pair].start \notin ended'
      BY <1>7, <2>1, <3>4, <3>5 DEF Good
    <3> QED
      BY <1>4, <1>5, <2>1, <3>4, <3>6, <3>7, ChangeKeeps
  <2>2. CASE req[r].op # "login"
    <3> HIDE DEF done
    <3> QED
      BY <1>4, <1>7, <2>2, GoOnKeeps
  <2> QED
    BY <2>1, <2>2
<1>8. CASE /\ expired' = IF signIn \/ ~Accepts(t) THEN expired ELSE expired \cup {t}
           /\ \E recovers \in Recovers(req[r].op, c) : GoOn(r, c, refused(recovers))
           /\ UNCHANGED <<pairs, unspent, ended>>
  <2>1. PICK recovers \in Recovers(req[r].op, c) : GoOn(r, c, refused(recovers))
    BY <1>8
  <2>2. req[r].op = "data" => recovers \/ (port = "python" /\ c = 2)
    BY DEF Recovers
  <2>3. /\ refused(recovers) \in CallType /\ refused(recovers).pc \in {"refused", "failed"}
        /\ refused(recovers).pc = "failed" => ~recovers \/ again
        /\ refused(recovers).pc = "failed" => refused(recovers).retried = again
    BY <1>3 DEF ToDo, CallType
  <2> HIDE DEF refused
  <2>4. Settled(r, c, refused(recovers))
    BY <2>2, <2>3 DEF Settled
  <2> QED
    BY <1>8, <2>1, <2>3, <2>4, GoOnKeeps
<1> QED
  BY <1>6, <1>7, <1>8 DEF Attempt

LEMMA CallsKeep ==
  ASSUME Sane, Undisturbed, NEW r \in Requests, NEW c \in Calls, CallAction(r, c)
  PROVE  Undisturbed'
<1>1. PICK call : CallStep(r, c, call)
  BY CallsFine DEF Fine
<1>2. /\ Busy(r) /\ req'[r].op = req[r].op /\ \A o \in Requests \ {r} : req'[o] = req[o]
  BY <1>1 DEF CallStep, Stepped
<1> SUFFICES ASSUME alone' PROVE /\ \A o, q \in Requests : Busy(o)' /\ Busy(q)' => o = q
                                 /\ (\A o \in Requests : ~Busy(o)') => Good(stored.pair)'
                                 /\ \A o \in Requests : Busy(o)' => Holding(o)'
  BY DEF Undisturbed
<1>3. alone /\ ~LoseAnswer(r, c)
  BY DEF CallAction, Ask, Again, RefreshAhead, Recover, Answer, LoseAnswer, Break, history
<1>4. Holding(r) /\ \A o \in Requests : Busy(o) => o = r
  BY <1>2, <1>3 DEF Undisturbed
<1>5. \A o \in Requests : Busy(o)' <=> o = r
  BY <1>2, <1>4 DEF Busy
<1>6. Holding(r)'
  <2>1. CASE Ask(r, c)
    <3>1. Turn(r, c) /\ Pc(r, c) \in {"todo", "ready"} /\ Attempt(r, c, Token(r), FALSE)
          /\ UNCHANGED port
      BY <2>1 DEF Ask
    <3>2. Ready(r, c) /\ ~Waits(r, c) /\ (port = "python" /\ c = 2 => Pc(r, 1) # "failed")
      BY <1>4, <3>1, IsReady, AfterSuccess DEF Over, Waits
    <3>3. Token(r) \in Given /\ Token(r) \in 0..MaxPairs
      BY SaneCall
    <3> QED
      BY <1>4, <3>1, <3>2, <3>3, AttemptKeeps
  <2>2. CASE Again(r, c)
    <3>1. Pc(r, c) = "again" /\ Attempt(r, c, req[r].call[c].token, TRUE) /\ UNCHANGED port
      BY <2>2 DEF Again
    <3>2. Ready(r, c) /\ ~Waits(r, c) /\ (port = "python" /\ c = 2 => Pc(r, 1) # "failed")
      BY <1>4, <3>1, IsReady, AfterSuccess DEF Over, Waits
    <3>3. req[r].call[c].token \in Given /\ req[r].call[c].token \in 0..MaxPairs
      BY SaneCall
    <3> QED
      BY <1>4, <3>1, <3>2, <3>3, AttemptKeeps
  <2> QED
    BY <1>3, <1>4, <2>1, <2>2, RefreshAheadKeeps, RecoverKeeps, AnswerKeeps, BreakKeeps
       DEF CallAction
<1> QED
  BY <1>5, <1>6

\* A request comes in: alone, or overlapping another.
LEMMA BeginKeeps ==
  ASSUME Sane, Undisturbed, NEW r \in Requests, NEW op \in {"data", "login", "logout"},
         NEW who \in Users, Begin(r, op, who)
  PROVE  Undisturbed'
<1> USE Small
<1> DEFINE q == [Idle EXCEPT
       !.op = op,
       !.who = IF op = "login" THEN who ELSE "nobody",
       !.mine = IF port \in Live THEN Nobody ELSE stored,
       !.token = IF port \in Snapshot THEN stored.pair ELSE None]
<1>1. /\ req' = [req EXCEPT ![r] = q] /\ (op = "login" \/ stored.pair # None)
      /\ UNCHANGED <<port, pairs, expired, unspent, ended, stored>>
      /\ alone' = (alone /\ \A o \in Requests : ~Busy(o))
  BY DEF Begin, server
<1>2. req \in [Requests -> ReqType] /\ stored \in Sessions
  BY DEF Sane, TypeOK
<1>3. /\ q.op = op /\ q.call = [c \in Calls |-> ToDo]
      /\ q.mine = IF port \in Live THEN Nobody ELSE stored
  BY DEF Idle
<1> HIDE DEF q
<1>4. req'[r] = q /\ \A o \in Requests : o # r => req'[o] = req[o]
  BY <1>1, <1>2
<1> SUFFICES ASSUME alone' PROVE /\ \A o \in Requests : Busy(o)' <=> o = r
                                 /\ Holding(r)'
  BY DEF Undisturbed
<1>5. alone /\ (\A o \in Requests : ~Busy(o)) /\ Good(stored.pair)
  BY <1>1 DEF Undisturbed
<1>6. \A o \in Requests : Busy(o)' <=> o = r
  BY <1>3, <1>4, <1>5 DEF Busy
<1>7. \A c \in Calls : Pc(r, c)' = "todo"
  BY <1>3, <1>4 DEF Pc, ToDo
<1>8. Session(r)' = stored
  BY <1>1, <1>3, <1>4 DEF Session
<1>9. Good(Session(r).pair)'
  BY <1>1, <1>5, <1>8 DEF Good
<1>10. /\ port' # "java" /\ ~req'[r].changed => req'[r].mine = stored'
       /\ req'[r].op = "data" => Session(r)'.pair # None
  BY <1>1, <1>3, <1>4, <1>8 DEF Live
<1> QED
  BY <1>6, <1>7, <1>9, <1>10 DEF Holding, Waits

\* What a request whose calls are over leaves.
LEMMA EndKeeps ==
  ASSUME Sane, Undisturbed, NEW r \in Requests, Busy(r), req' = [req EXCEPT ![r] = Idle],
         UNCHANGED <<port, server>>, alone' => alone, alone' => Good(stored'.pair)
  PROVE  Undisturbed'
<1>1. req \in [Requests -> ReqType]
  BY DEF Sane, TypeOK
<1>2. ~Busy(r)' /\ \A o \in Requests : o # r => req'[o] = req[o]
  BY <1>1 DEF Busy, Idle
<1> SUFFICES ASSUME alone' PROVE /\ \A o \in Requests : ~Busy(o)'
                                 /\ Good(stored.pair)'
  BY DEF Undisturbed
<1>3. \A o \in Requests : Busy(o) => o = r
  BY DEF Undisturbed
<1>4. \A o \in Requests : ~Busy(o)'
  BY <1>2, <1>3 DEF Busy
<1>5. Good(stored.pair)'
  BY DEF Good, server
<1> QED
  BY <1>4, <1>5

\* A sign-out the backend has confirmed does not end in the error page.
LEMMA GoneClears ==
  ASSUME Sane, NEW r \in Requests, Gone(r)
  PROVE  Clears(r)
<1>1. InOrder(r)
  BY DEF Sane, Ordered
<1>2. Pc(r, 1) = "done" /\ Pc(r, 2) = "todo" /\ req[r].op = "logout"
  BY <1>1 DEF Gone, InOrder, Second
<1> QED
  BY <1>2, Small DEF Clears, SignsOut, SomeCall

LEMMA RespondKeeps ==
  ASSUME Sane, Undisturbed, NEW r \in Requests, Respond(r)
  PROVE  Undisturbed'
<1> USE Small
<1>1. /\ Busy(r) /\ Finished(r) /\ req' = [req EXCEPT ![r] = Idle] /\ stored' = Final(r)
      /\ UNCHANGED <<port, server, faults, alone>>
  BY DEF Respond, Store, history
<1>2. ASSUME alone PROVE Good(Final(r).pair)
  <2>1. Holding(r)
    BY <1>1, <1>2 DEF Undisturbed
  <2>2. \A c \in Calls : ~Waits(r, c)
    BY <1>1 DEF Finished, Waits, Over
  <2>3. CASE Clears(r)
    BY <2>3 DEF Final, Good, Nobody
  <2>4. CASE ~Clears(r)
    <3>1. ~Gone(r) /\ Good(Session(r).pair)
      BY <2>1, <2>2, <2>4, GoneClears DEF Holding
    <3>2. CASE port = "java"
      BY <2>4, <3>1, <3>2 DEF Final, Session, Live
    <3>3. CASE port # "java"
      <4>1. Session(r) = req[r].mine
        BY <3>3 DEF Session, Live
      <4>2. Final(r) = req[r].mine
        BY <2>1, <2>4, <3>3 DEF Final, Carries, Holding, Live
      <4> QED
        BY <3>1, <4>1, <4>2
    <3> QED
      BY <3>2, <3>3
  <2> QED
    BY <2>3, <2>4
<1>3. alone' => Good(stored'.pair)
  BY <1>1, <1>2
<1>4. alone' => alone
  BY <1>1
<1>5. /\ Busy(r) /\ req' = [req EXCEPT ![r] = Idle] /\ UNCHANGED <<port, server>>
  BY <1>1
<1> QED
  BY <1>3, <1>4, <1>5, EndKeeps

LEMMA DropKeeps ==
  ASSUME Sane, Undisturbed, NEW r \in Requests, DropResponse(r)
  PROVE  Undisturbed'
<1> USE Small
<1>1. /\ Busy(r) /\ req' = [req EXCEPT ![r] = Idle] /\ UNCHANGED <<port, server, stored>>
      /\ alone' = (alone /\ ~req[r].changed /\ ~Clears(r)) /\ port \in InCookie
      /\ \/ Finished(r)
         \/ port = "python" /\ SomeCall(r, {"failed", "crashed"})
  BY DEF DropResponse
<1>2. ASSUME alone' PROVE Good(stored'.pair)
  <2>1. alone /\ ~req[r].changed /\ ~Clears(r) /\ Holding(r)
    BY <1>1, <1>2 DEF Undisturbed
  <2>2. port # "java" /\ Session(r) = req[r].mine /\ req[r].mine = stored
    BY <1>1, <2>1 DEF InCookie, Session, Live, Holding
  <2>3. \A c \in Calls : ~Waits(r, c)
    <3>1. CASE Finished(r)
      BY <3>1 DEF Finished, Waits, Over
    <3>2. CASE port = "python" /\ SomeCall(r, {"failed", "crashed"})
      <4>1. PICK d \in Calls : Pc(r, d) = "failed"
        BY <2>1, <3>2 DEF SomeCall, Holding
      <4>2. Pc(r, 2) # "todo" => Pc(r, 1) \in Over
        BY <3>2, SaneCall DEF InOrder, Second
      <4> QED
        BY <2>1, <3>2, <4>1, <4>2 DEF Holding, Waits, Over
    <3> QED
      BY <1>1, <3>1, <3>2
  <2>4. ~Gone(r)
    BY <2>1, GoneClears
  <2> QED
    BY <1>1, <2>1, <2>2, <2>3, <2>4 DEF Holding
<1> QED
  BY <1>1, <1>2, EndKeeps

LEMMA TurnAwayKeeps ==
  ASSUME Sane, Undisturbed, NEW r \in Requests, TurnAway(r)
  PROVE  Undisturbed'
<1>1. /\ Busy(r) /\ req' = [req EXCEPT ![r] = Idle] /\ UNCHANGED <<port, server>>
      /\ alone' = alone /\ stored' = Nobody
  BY DEF TurnAway, Store, Busy, history
<1>2. Good(stored'.pair)
  BY <1>1 DEF Good, Nobody
<1> QED
  BY <1>1, <1>2, EndKeeps

\* Java signs out who was refused: the request begins anew, with its session.
LEMMA GiveUpKeeps ==
  ASSUME Sane, Undisturbed, NEW r \in Requests, GiveUp(r)
  PROVE  Undisturbed'
<1> USE Small
<1> DEFINE q == [req[r] EXCEPT !.op = "logout", !.call = [c \in Calls |-> ToDo]]
<1>1. req \in [Requests -> ReqType] /\ req[r] \in ReqType
  BY SaneCall
<1>2. /\ req' = [req EXCEPT ![r] = q] /\ port = "java" /\ req[r].op = "data" /\ Finished(r)
      /\ UNCHANGED <<port, pairs, expired, unspent, ended, stored, alone>>
  <2>1. req' = [req EXCEPT ![r].op = "logout", ![r].call = [c \in Calls |-> ToDo]]
    BY DEF GiveUp
  <2> QED
    BY <1>1, <2>1 DEF GiveUp, server, history, ReqType
<1>3. q.op = "logout" /\ q.call = [c \in Calls |-> ToDo]
  BY <1>1 DEF ReqType
<1> HIDE DEF q
<1>4. req'[r] = q /\ \A o \in Requests : o # r => req'[o] = req[o]
  BY <1>1, <1>2
<1>5. Busy(r) /\ \A o \in Requests : Busy(o)' <=> Busy(o)
  BY <1>2, <1>3, <1>4 DEF Busy
<1> SUFFICES ASSUME alone' PROVE Holding(r)'
  BY <1>2, <1>5 DEF Undisturbed
<1>6. Holding(r)
  BY <1>2, <1>5 DEF Undisturbed
<1>7. \A c \in Calls : Pc(r, c)' = "todo"
  BY <1>3, <1>4 DEF Pc, ToDo
<1>8. Good(Session(r).pair)'
  <2>1. \A c \in Calls : ~Waits(r, c)
    BY <1>2 DEF Finished, Waits, Over
  <2>2. Good(Session(r).pair)
    BY <1>2, <1>6, <2>1 DEF Holding, Gone
  <2> QED
    BY <1>2, <2>2 DEF Good, Session, Live
<1> QED
  BY <1>2, <1>3, <1>4, <1>7, <1>8 DEF Holding, Waits

LEMMA StartUndisturbed == Init => Undisturbed
BY Small DEF Init, Undisturbed, Busy, Idle, Good, Nobody

LEMMA StepsUndisturbed ==
  ASSUME Sane, Undisturbed, [Next]_vars
  PROVE  Undisturbed'
<1>1. CASE UNCHANGED vars
  <2>1. UNCHANGED <<port, pairs, expired, unspent, ended, stored, req, faults, alone, left, late>>
    BY <1>1 DEF vars, server, history
  <2>2. \A r \in Requests : Holding(r) => Holding(r)'
    BY <2>1 DEF Holding, Gone, Waits, Good, Pc, Session
  <2>3. /\ \A r \in Requests : Busy(r)' <=> Busy(r)
        /\ Good(stored.pair) <=> Good(stored.pair)'
    BY <2>1 DEF Busy, Good
  <2> QED
    BY <2>1, <2>2, <2>3 DEF Undisturbed
<1> QED
  BY <1>1, CallsKeep, BeginKeeps, RespondKeeps, DropKeeps, TurnAwayKeeps, GiveUpKeeps
     DEF Next, CallAction

\* As long as no two refreshes overlapped and no rotated pair was lost, no
\* refresh is refused: the session a request works on holds a token that is not
\* spent, of a sign-in that is not over, or the answer that will replace it has
\* come.  (The history ends as well with a C# sign-out that the backend heard
\* and that timed out: it ends the sign-in, and the session is kept.)
THEOREM ServerRefreshesAreTaken == Spec => []AloneIsRefreshed
<1>1. Init => Sane /\ Undisturbed
  BY Start, StartUndisturbed
<1>2. Sane /\ Undisturbed /\ [Next]_vars => Sane' /\ Undisturbed'
  BY Steps, StepsUndisturbed
<1>3. Sane /\ Undisturbed => AloneIsRefreshed
  <2> SUFFICES ASSUME Sane, Undisturbed, alone, NEW r \in Requests, NEW c \in Calls,
                      Pc(r, c) \in {"asked", "ahead"}
               PROVE  req[r].call[c].got # None
    BY DEF AloneIsRefreshed
  <2>1. Busy(r)
    BY SaneCall DEF InOrder
  <2> QED
    BY <2>1 DEF Undisturbed, Holding, Waits
<1> QED
  BY <1>1, <1>2, <1>3, PTL DEF Spec

\* A page whose requests do not overlap, with no answer lost, is not told that
\* its session has expired before its call was tried with a token obtained
\* after the refusal, but for the calls Python gathers.
THEOREM ServerPagesAreServed == Spec => []AloneIsServed
<1>1. Init => Sane /\ Undisturbed
  BY Start, StartUndisturbed
<1>2. Sane /\ Undisturbed /\ [Next]_vars => Sane' /\ Undisturbed'
  BY Steps, StepsUndisturbed
<1>3. Undisturbed => AloneIsServed
  BY DEF Undisturbed, AloneIsServed, Holding, Busy
<1> QED
  BY <1>1, <1>2, <1>3, PTL DEF Spec

================================================================================
