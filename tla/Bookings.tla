------------------------------ MODULE Bookings ------------------------------
(***************************************************************************)
(* One event, its bookings, and the clients and request handlers that read *)
(* and write them.                                                         *)
(*                                                                         *)
(* The bookings live in a generic document store that offers single        *)
(* document reads and writes and no transaction: every call is one atomic  *)
(* step, every write unconditional, and anything may happen between two    *)
(* calls of an operation.  An actor is whatever carries out one operation  *)
(* at a time: a browser tab, a phone, a request on one of the server-side  *)
(* ports.  PortOf says which port's code it runs.                          *)
(*                                                                         *)
(* Bookings are numbered in the order the store creates them.  Operations  *)
(* on different events share nothing, so one event is modelled.            *)
(***************************************************************************)
EXTENDS Ports, Seating

CONSTANTS
  Actors,
  Users,          \* attendees: the organizer's own Book control is hidden
  PortOf,         \* the port each actor runs
  MaxBookings,    \* bound: documents ever created
  Capacities,     \* capacities the organizer's form may hold
  Second,         \* the whole second in which each booking is created
  Ops,            \* the operations asked of each actor
  OneAtATime,     \* TRUE: an operation starts only when none is under way
  Faults,         \* which of "fail" and "expire" may happen to a call
  MaxFaults       \* bound: how often

Ids == 1..MaxBookings

ASSUME PortOfAssumption == PortOf \in [Actors -> PortProfile]
ASSUME MaxBookingsAssumption == MaxBookings \in Nat
ASSUME CapacitiesAssumption == Capacities \subseteq Nat \ {0}
ASSUME SecondAssumption ==
  /\ Second \in [Ids -> Nat]
  /\ \A i, j \in Ids : i <= j => Second[i] <= Second[j]
ASSUME OpsAssumption ==
  Ops \in [Actors -> SUBSET {"book", "cancel", "checkin", "edit", "delete"}]
ASSUME OneAtATimeAssumption == OneAtATime \in BOOLEAN
ASSUME FaultsAssumption == Faults \subseteq {"fail", "expire"} /\ MaxFaults \in Nat

VARIABLES
  size,     \* bookings created so far
  owner,    \* their users
  status,   \* their statuses
  told,     \* the last activity entry about each
  event,    \* the event document: its capacity, and whether it still exists
  h,        \* what each actor is doing: the local variables of its handler
  clean,    \* history: the actors reconciling whom no other write has disturbed
  faults    \* history: faults so far

vars == <<size, owner, status, told, event, h, clean, faults>>

Activity == {"none", "booking_confirmed", "booking_waitlisted", "booking_cancelled",
             "booking_promoted", "checked_in"}
Places == {"idle", "event", "gate", "count", "create", "find", "patch", "save", "log",
           "reads", "fix", "reread", "report"}
Lists == {"confirmed", "waitlisted"}
None == "none"

\* int.MaxValue, to the bookings there can be.
Unbounded == MaxBookings + 1

Capacity == Nat

Handler ==
  [pc : Places, op : {"none", "book", "cancel", "checkin", "edit"},
   user : Users \union {None}, target : Ids \union {0}, capacity : Capacity,
   skip : BOOLEAN, initial : Lists \union {None}, result : Status \union {None},
   unread : SUBSET Lists, confirmed : SUBSET Ids, waitlisted : SUBSET Ids,
   promote : SUBSET Ids, demote : SUBSET Ids,
   logs : SUBSET (Ids \X {"booking_promoted", "booking_waitlisted"}),
   failed : BOOLEAN]

Resting ==
  [pc |-> "idle", op |-> "none", user |-> None, target |-> 0, capacity |-> 0,
   skip |-> FALSE, initial |-> None, result |-> None, unread |-> {},
   confirmed |-> {}, waitlisted |-> {}, promote |-> {}, demote |-> {},
   logs |-> {}, failed |-> FALSE]

Created == 1..size

WithStatus(s) == {i \in Created : status[i] = s}

Mine(u) == {i \in Created : owner[i] = u}

AtRest == \A a \in Actors : h[a].pc = "idle"

MayStart(a, op) ==
  /\ op \in Ops[a]
  /\ h[a].pc = "idle"
  /\ OneAtATime => AtRest

Goto(a, place) == h' = [h EXCEPT ![a].pc = place]
Finish(a) == h' = [h EXCEPT ![a] = Resting]

\* The sort keys a port compares.
At(a) == IF PortOf[a].reconcile.exact THEN [i \in Ids |-> i] ELSE Second

\* A write to a booking by a: the other reconciliations may now be out of date.
Disturb(a) == clean' = clean \intersect {a}

Init ==
  /\ size = 0
  /\ owner = [i \in Ids |-> None]
  /\ status = [i \in Ids |-> None]
  /\ told = [i \in Ids |-> None]
  /\ event \in [capacity : Capacities, exists : {TRUE}]
  /\ h = [a \in Actors |-> Resting]
  /\ clean = {}
  /\ faults = 0

----------------------------------------------------------------------------
(* Booking: read the event and the user's own booking, count, create, log,  *)
(* reconcile, read again, answer.                                           *)

\* Bound: every booking under way has a number left to take.
Room ==
  size + Cardinality({b \in Actors : h[b].op = "book" /\ h[b].target = 0}) < MaxBookings

StartBook(a, u) ==
  /\ MayStart(a, "book")
  /\ Room
  /\ h' = [h EXCEPT ![a] = [Resting EXCEPT !.pc = PortOf[a].book.first, !.op = "book", !.user = u]]
  /\ UNCHANGED <<size, owner, status, told, event, clean, faults>>

\* A faulty variant: the oldest booking stands for them all.
LookedOldest(a) ==
  {i \in Mine(h[a].user) : \A j \in Mine(h[a].user) : i <= j}

\* The bookings among which the query for the user's own one picks its answer.
Looked(a) ==
  LET mine == Mine(h[a].user) IN
  CASE PortOf[a].book.lookup.answer = "any" -> mine
    [] PortOf[a].book.lookup.answer = "newest" -> {i \in mine : \A j \in mine : j <= i}
    [] PortOf[a].book.lookup.answer = "live" -> {i \in mine : status[i] # "cancelled"}

AfterGate(a) == IF PortOf[a].book.first = "gate" THEN "event" ELSE "count"

GateOpen(a) ==
  /\ h[a].pc = "gate"
  /\ Looked(a) = {} \/ \E i \in Looked(a) : status[i] = "cancelled"
  /\ Goto(a, AfterGate(a))
  /\ UNCHANGED <<size, owner, status, told, event, clean, faults>>

GateShut(a) ==
  /\ h[a].pc = "gate"
  /\ \E i \in Looked(a) : status[i] # "cancelled"
  /\ Finish(a)
  /\ UNCHANGED <<size, owner, status, told, event, clean, faults>>

\* A faulty variant: one seat more than there is.
CountInclusive(a) ==
  /\ h[a].pc = "count"
  /\ h' = [h EXCEPT ![a].pc = "create",
                    ![a].initial = IF Cardinality(WithStatus("confirmed")) <= h[a].capacity
                                     THEN "confirmed" ELSE "waitlisted"]
  /\ UNCHANGED <<size, owner, status, told, event, clean, faults>>

Count(a) ==
  /\ h[a].pc = "count"
  /\ h' = [h EXCEPT ![a].pc = "create",
                    ![a].initial = IF Cardinality(WithStatus("confirmed")) < h[a].capacity
                                     THEN "confirmed" ELSE "waitlisted"]
  /\ UNCHANGED <<size, owner, status, told, event, clean, faults>>

\* A faulty variant: a status of no reader's.
CreateBooked(a) ==
  /\ h[a].pc = "create"
  /\ size < MaxBookings
  /\ size' = size + 1
  /\ owner' = [owner EXCEPT ![size + 1] = h[a].user]
  /\ status' = [status EXCEPT ![size + 1] = "booked"]
  /\ h' = [h EXCEPT ![a].pc = "log", ![a].target = size + 1]
  /\ Disturb(a)
  /\ UNCHANGED <<told, event, faults>>

Create(a) ==
  /\ h[a].pc = "create"
  /\ size < MaxBookings
  /\ size' = size + 1
  /\ owner' = [owner EXCEPT ![size + 1] = h[a].user]
  /\ status' = [status EXCEPT ![size + 1] = h[a].initial]
  /\ h' = [h EXCEPT ![a].pc = "log", ![a].target = size + 1]
  /\ Disturb(a)
  /\ UNCHANGED <<told, event, faults>>

Reread(a) ==
  /\ h[a].pc = "reread"
  /\ h' = [h EXCEPT ![a].pc = "report", ![a].result = status[h[a].target]]
  /\ UNCHANGED <<size, owner, status, told, event, clean, faults>>

\* The answer is shown, and the operation is over.
Report(a) ==
  /\ h[a].pc = "report"
  /\ Finish(a)
  /\ UNCHANGED <<size, owner, status, told, event, clean, faults>>

----------------------------------------------------------------------------
(* Cancelling: from a page that lists the booking as confirmed or           *)
(* waitlisted; read it again where the port does, read the event, cancel,   *)
(* log, reconcile.                                                          *)

BeforeWrite(a) == IF PortOf[a].cancel.event = "before" THEN "event" ELSE "patch"

StartCancel(a, i) ==
  /\ MayStart(a, "cancel")
  /\ status[i] \in Live
  /\ h' = [h EXCEPT ![a] = [Resting EXCEPT
                              !.pc = IF PortOf[a].cancel.refetch THEN "find" ELSE BeforeWrite(a),
                              !.op = "cancel", !.user = owner[i], !.target = i]]
  /\ UNCHANGED <<size, owner, status, told, event, clean, faults>>

\* Checking in begins with the same step: the booking is looked up by its code.
StartCheckIn(a, i) ==
  /\ MayStart(a, "checkin")
  /\ event.exists
  /\ h' = [h EXCEPT ![a] = [Resting EXCEPT !.pc = "find", !.op = "checkin", !.target = i]]
  /\ UNCHANGED <<size, owner, status, told, event, clean, faults>>

\* Faulty variants: no status is looked at, or the waitlisted are let in too.
FindUnchecked(a) ==
  /\ h[a].pc = "find"
  /\ Goto(a, IF h[a].op = "cancel" THEN BeforeWrite(a) ELSE "patch")
  /\ UNCHANGED <<size, owner, status, told, event, clean, faults>>

FindLenient(a) ==
  /\ h[a].pc = "find"
  /\ IF status[h[a].target] \in Live
       THEN Goto(a, IF h[a].op = "cancel" THEN BeforeWrite(a) ELSE "patch")
       ELSE Finish(a)
  /\ UNCHANGED <<size, owner, status, told, event, clean, faults>>

Find(a) ==
  /\ h[a].pc = "find"
  /\ LET found == status[h[a].target] IN
     CASE h[a].op = "cancel" ->
            IF found \notin PortOf[a].cancel.accepts THEN Finish(a)
            ELSE Goto(a, BeforeWrite(a))
       [] h[a].op = "checkin" ->
            IF found # "confirmed" THEN Finish(a) ELSE Goto(a, "patch")
  /\ UNCHANGED <<size, owner, status, told, event, clean, faults>>

\* A faulty variant of the next: any port reconciles a deleted event.
GoneUnnoticed(a) == "unbounded"

\* What is done about a deleted event.
Gone(a) == IF h[a].op = "cancel" THEN PortOf[a].cancel.gone ELSE "abort"

\* The capacity is captured here and used to the end of the operation.
ReadEvent(a) ==
  /\ h[a].pc = "event"
  /\ LET cancelling == h[a].op = "cancel"
         next == CASE ~cancelling -> IF PortOf[a].book.first = "gate" THEN "count" ELSE "gate"
                   [] cancelling /\ PortOf[a].cancel.event = "before" -> "patch"
                   [] cancelling /\ PortOf[a].cancel.event = "after" -> "reads"
     IN CASE event.exists ->
               h' = [h EXCEPT ![a].pc = next, ![a].capacity = event.capacity,
                              ![a].unread = IF next = "reads" THEN Lists ELSE {}]
          [] ~event.exists /\ Gone(a) = "unbounded" ->
               h' = [h EXCEPT ![a].pc = next, ![a].capacity = Unbounded,
                              ![a].unread = IF next = "reads" THEN Lists ELSE {}]
          [] ~event.exists /\ Gone(a) = "skip" /\ next = "patch" ->
               h' = [h EXCEPT ![a].pc = "patch", ![a].skip = TRUE]
          [] OTHER -> Finish(a)
  /\ UNCHANGED <<size, owner, status, told, event, clean, faults>>

\* The unconditional write of a cancellation or of a check-in.
Patch(a) ==
  /\ h[a].pc = "patch"
  /\ status' = [status EXCEPT ![h[a].target] =
                  IF h[a].op = "cancel" THEN "cancelled" ELSE "checked_in"]
  /\ Goto(a, "log")
  /\ Disturb(a)
  /\ UNCHANGED <<size, owner, told, event, faults>>

----------------------------------------------------------------------------
(* The organizer saves the event, or deletes it and leaves its bookings.    *)

StartEdit(a, capacity) ==
  /\ MayStart(a, "edit")
  /\ event.exists
  /\ h' = [h EXCEPT ![a] = [Resting EXCEPT !.pc = "save", !.op = "edit", !.capacity = capacity]]
  /\ UNCHANGED <<size, owner, status, told, event, clean, faults>>

\* Writing to a deleted document is an error.
Save(a) ==
  /\ h[a].pc = "save"
  /\ IF event.exists
       THEN /\ event' = [event EXCEPT !.capacity = h[a].capacity]
            /\ Goto(a, "log")
       ELSE /\ Finish(a)
            /\ UNCHANGED event
  /\ UNCHANGED <<size, owner, status, told, clean, faults>>

Delete(a) ==
  /\ MayStart(a, "delete")
  /\ event.exists
  /\ event' = [event EXCEPT !.exists = FALSE]
  /\ UNCHANGED <<size, owner, status, told, h, clean, faults>>

----------------------------------------------------------------------------
\* The activity entry an operation makes after its write.
Entry(a) ==
  CASE h[a].op = "book" ->
         IF h[a].initial = "confirmed" THEN "booking_confirmed" ELSE "booking_waitlisted"
    [] h[a].op = "cancel" -> "booking_cancelled"
    [] h[a].op = "checkin" -> "checked_in"

\* A faulty variant: a cancellation is not followed up.
AfterLogOfCancelForgotten(a) ==
  CASE h[a].op = "book" -> "reads"
    [] h[a].op = "cancel" -> "idle"
    [] h[a].op = "checkin" -> "report"
    [] h[a].op = "edit" -> IF PortOf[a].edit.reconciles THEN "reads" ELSE "idle"

AfterLog(a) ==
  CASE h[a].op = "book" -> "reads"
    [] h[a].op = "cancel" /\ PortOf[a].cancel.event = "after" -> "event"
    [] h[a].op = "cancel" /\ PortOf[a].cancel.event = "before" ->
         IF h[a].skip THEN "idle" ELSE "reads"
    [] h[a].op = "checkin" -> "report"
    [] h[a].op = "edit" -> IF PortOf[a].edit.reconciles THEN "reads" ELSE "idle"

Log(a) ==
  /\ h[a].pc = "log"
  /\ told' = IF h[a].op = "edit" THEN told
             ELSE [told EXCEPT ![h[a].target] = Entry(a)]
  /\ CASE AfterLog(a) = "idle" -> Finish(a)
       [] AfterLog(a) = "reads" -> h' = [h EXCEPT ![a].pc = "reads", ![a].unread = Lists]
       [] AfterLog(a) = "event" -> Goto(a, "event")
       [] AfterLog(a) = "report" -> h' = [h EXCEPT ![a].pc = "report", ![a].result = "checked_in"]
  /\ UNCHANGED <<size, owner, status, event, clean, faults>>

----------------------------------------------------------------------------
(* Reconciling: fetch both lists, derive the corrections, apply them.       *)

\* One list arrives; with the second, the corrections are known.
ReadList(a, list) ==
  /\ h[a].pc = "reads"
  /\ list \in h[a].unread
  /\ PortOf[a].reconcile.reads = "sequential" /\ list = "waitlisted" =>
       "confirmed" \notin h[a].unread
  /\ LET seen == Oldest(WithStatus(list), PortOf[a].reconcile.limit)
         c == IF list = "confirmed" THEN seen ELSE h[a].confirmed
         w == IF list = "waitlisted" THEN seen ELSE h[a].waitlisted
     IN IF h[a].unread = {list}
          THEN h' = [h EXCEPT ![a].pc = "fix", ![a].unread = {},
                              ![a].confirmed = {}, ![a].waitlisted = {},
                              ![a].promote = Promotions(c, w, At(a), h[a].capacity),
                              ![a].demote = Demotions(c, w, At(a), h[a].capacity)]
          ELSE h' = [h EXCEPT ![a].unread = @ \ {list},
                              ![a].confirmed = c, ![a].waitlisted = w]
  /\ clean' = IF h[a].unread = Lists THEN clean \union {a} ELSE clean
  /\ UNCHANGED <<size, owner, status, told, event, faults>>

\* In the order of the list: the promotions come first.
InTurn(a, i) ==
  PortOf[a].reconcile.fixes = "sequential" =>
    /\ h[a].logs = {}
    /\ IF i \in h[a].promote THEN \A j \in h[a].promote : i <= j
       ELSE h[a].promote = {} /\ \A j \in h[a].demote : i <= j

\* A faulty variant: a correction is written and not reported.
FixUnreported(a, i) ==
  /\ h[a].pc = "fix"
  /\ i \in h[a].promote \union h[a].demote
  /\ InTurn(a, i)
  /\ status' = [status EXCEPT ![i] = IF i \in h[a].promote THEN "confirmed" ELSE "waitlisted"]
  /\ h' = [h EXCEPT ![a].promote = @ \ {i}, ![a].demote = @ \ {i}]
  /\ Disturb(a)
  /\ UNCHANGED <<size, owner, told, event, faults>>

Fix(a, i) ==
  /\ h[a].pc = "fix"
  /\ i \in h[a].promote \union h[a].demote
  /\ InTurn(a, i)
  /\ IF i \in h[a].promote
       THEN /\ status' = [status EXCEPT ![i] = "confirmed"]
            /\ h' = [h EXCEPT ![a].promote = @ \ {i},
                              ![a].logs = @ \union {<<i, "booking_promoted">>}]
       ELSE /\ status' = [status EXCEPT ![i] = "waitlisted"]
            /\ h' = [h EXCEPT ![a].demote = @ \ {i},
                              ![a].logs = @ \union {<<i, "booking_waitlisted">>}]
  /\ Disturb(a)
  /\ UNCHANGED <<size, owner, told, event, faults>>

LogFix(a) ==
  /\ h[a].pc = "fix"
  /\ \E entry \in h[a].logs :
       /\ told' = [told EXCEPT ![entry[1]] = entry[2]]
       /\ h' = [h EXCEPT ![a].logs = @ \ {entry}]
  /\ UNCHANGED <<size, owner, status, event, clean, faults>>

\* A faulty variant of the next: no port reads the booking again.
AfterFixUnread(a) == IF h[a].op = "book" THEN "report" ELSE "idle"

\* What follows the corrections: a failed one is an error to the caller.
AfterFix(a) ==
  CASE h[a].op # "book" \/ h[a].failed -> "idle"
    [] OTHER -> CASE PortOf[a].book.report = "reread" -> "reread"
                  [] PortOf[a].book.report = "initial" -> "report"
                  [] PortOf[a].book.report = "none" -> "idle"

\* A faulty variant: it waits for the corrections that failed.
EndFixNeverFailing(a) ==
  /\ h[a].pc = "fix"
  /\ h[a].promote = {} /\ h[a].demote = {} /\ h[a].logs = {} /\ ~h[a].failed
  /\ Finish(a)
  /\ clean' = clean \ {a}
  /\ UNCHANGED <<size, owner, status, told, event, faults>>

EndFix(a) ==
  /\ h[a].pc = "fix"
  /\ h[a].promote = {} /\ h[a].demote = {} /\ h[a].logs = {}
  /\ CASE AfterFix(a) = "idle" -> Finish(a)
       [] AfterFix(a) = "reread" -> Goto(a, "reread")
       [] AfterFix(a) = "report" ->
            h' = [h EXCEPT ![a].pc = "report", ![a].result = h[a].initial]
  /\ clean' = clean \ {a}
  /\ UNCHANGED <<size, owner, status, told, event, faults>>

----------------------------------------------------------------------------
(* Faults: a call fails and the operation is abandoned where it stands, or  *)
(* the access token is refused and the port resumes after a refresh.        *)

Fault(kind) ==
  /\ kind \in Faults
  /\ faults < MaxFaults
  /\ faults' = faults + 1

\* A cancellation that cannot tell an event it failed to read from a deleted one.
TakenForGone(a) ==
  /\ h[a].pc = "event" /\ h[a].op = "cancel"
  /\ PortOf[a].cancel.lost = "gone"
  /\ PortOf[a].cancel.event = "before" /\ Gone(a) = "skip"

\* A call outside the corrections, or any call of a sequential port.  An
\* answer lost after a write is the failure of the next call.
Fail(a) ==
  /\ Fault("fail")
  /\ h[a].pc \notin {"idle", "report"}
  /\ h[a].pc = "gate" => PortOf[a].book.lookup.lost = "shut"
  /\ h[a].pc = "fix" => PortOf[a].reconcile.onError = "abort"
  /\ ~TakenForGone(a)
  /\ Finish(a)
  /\ clean' = clean \ {a}
  /\ UNCHANGED <<size, owner, status, told, event>>

\* Some pages take a lookup that failed for no booking, and offer the control.
GateLost(a) ==
  /\ Fault("fail")
  /\ h[a].pc = "gate"
  /\ PortOf[a].book.lookup.lost = "open"
  /\ Goto(a, AfterGate(a))
  /\ UNCHANGED <<size, owner, status, told, event, clean>>

\* The booking is then cancelled, and nothing reconciled.
EventLost(a) ==
  /\ Fault("fail")
  /\ TakenForGone(a)
  /\ h' = [h EXCEPT ![a].pc = "patch", ![a].skip = TRUE]
  /\ clean' = clean \ {a}
  /\ UNCHANGED <<size, owner, status, told, event>>

\* One of the corrections in flight, or its entry, is given up.
GiveUp(a) ==
  \/ \E i \in h[a].promote \union h[a].demote :
       h' = [h EXCEPT ![a].promote = @ \ {i}, ![a].demote = @ \ {i}, ![a].failed = TRUE]
  \/ \E entry \in h[a].logs :
       h' = [h EXCEPT ![a].logs = @ \ {entry}, ![a].failed = TRUE]

FailFix(a) ==
  /\ Fault("fail")
  /\ h[a].pc = "fix"
  /\ PortOf[a].reconcile.onError # "abort"
  /\ GiveUp(a)
  /\ clean' = clean \ {a}
  /\ UNCHANGED <<size, owner, status, told, event>>

\* Whether a cancelled sibling had already reached the store is open.
CancelSibling(a) ==
  /\ h[a].pc = "fix"
  /\ h[a].failed
  /\ PortOf[a].reconcile.onError = "cancel"
  /\ GiveUp(a)
  /\ UNCHANGED <<size, owner, status, told, event, clean, faults>>

\* The steps of an operation from which a restart at the given one goes back.
Behind(place) ==
  CASE place = "count" -> {"create", "log", "reads", "fix", "reread"}
    [] place = "find" -> {"event", "patch", "log", "reads", "fix"}
    [] place = "patch" -> {"log", "reads", "fix"}
    [] place = "save" -> {"log", "reads", "fix"}
    [] place = "here" -> {}

Expire(a) ==
  /\ Fault("expire")
  /\ h[a].op # "none"
  /\ h[a].pc \in Behind(PortOf[a].retry[h[a].op])
  /\ h[a].op = "book" /\ h[a].target # 0 => Room
  /\ h' = [h EXCEPT ![a] =
             [Resting EXCEPT !.pc = PortOf[a].retry[h[a].op],
                             !.op = h[a].op, !.user = h[a].user, !.capacity = h[a].capacity,
                             !.skip = h[a].skip,
                             !.target = IF h[a].op = "book" THEN 0 ELSE h[a].target]]
  /\ clean' = clean \ {a}
  /\ UNCHANGED <<size, owner, status, told, event>>

----------------------------------------------------------------------------
Start(a) ==
  \/ \E u \in Users : StartBook(a, u)
  \/ \E i \in Created : StartCancel(a, i)
  \/ \E i \in Created : StartCheckIn(a, i)
  \/ \E c \in Capacities : StartEdit(a, c)
  \/ Delete(a)

Proceed(a) ==
  \/ GateOpen(a) \/ GateShut(a) \/ ReadEvent(a) \/ Count(a) \/ Create(a)
  \/ Find(a) \/ Patch(a) \/ Save(a) \/ Log(a)
  \/ \E list \in Lists : ReadList(a, list)
  \/ \E i \in Ids : Fix(a, i)
  \/ LogFix(a) \/ EndFix(a) \/ Reread(a) \/ Report(a)

Disrupt(a) ==
  Fail(a) \/ GateLost(a) \/ EventLost(a) \/ FailFix(a) \/ CancelSibling(a) \/ Expire(a)

Next == \E a \in Actors : Start(a) \/ Proceed(a) \/ Disrupt(a)

Spec == Init /\ [][Next]_vars

\* The runtime keeps stepping every operation it has begun.
FairSpec == Spec /\ \A a \in Actors : WF_vars(Proceed(a))

----------------------------------------------------------------------------
TypeOK ==
  /\ size \in 0..MaxBookings
  /\ owner \in [Ids -> Users \union {None}]
  /\ status \in [Ids -> Status \union {None}]
  /\ told \in [Ids -> Activity]
  /\ event \in [capacity : Capacities, exists : BOOLEAN]
  /\ h \in [Actors -> Handler]
  /\ clean \subseteq Actors
  /\ faults \in Nat

Confirmed == WithStatus("confirmed")
Waitlisted == WithStatus("waitlisted")

(***************************************************************************)
(* However bookings race, and whatever calls fail on the way: if bookings  *)
(* are all that happens, the first `capacity' of them hold their seats     *)
(* from their creation on.  "The first `capacity` bookings, oldest first"  *)
(* (capacity.ts:18-19) is kept for them even by reconciliations that act   *)
(* on two lists read at different moments.                                 *)
(***************************************************************************)
EarliestSeatsKept ==
  \A i \in Created : i <= event.capacity => status[i] = "confirmed"

(***************************************************************************)
(* A reconciliation during which nobody else writes a booking leaves the   *)
(* event exactly as it should be, whatever earlier races and failures left *)
(* behind ("whether that means demoting an overshoot back to waitlisted,   *)
(* or promoting the earliest waitlisted booking", capacity.ts:20-21).      *)
(***************************************************************************)
SelfCorrection ==
  \A a \in clean :
    h[a].pc = "fix" /\ h[a].promote = {} /\ h[a].demote = {}
      => Entitled(Confirmed, Waitlisted, h[a].capacity)

(***************************************************************************)
(* When no operation is under way, the oldest live bookings hold the seats *)
(* and the others wait: nobody waits beside a free seat and nobody is      *)
(* confirmed beyond the capacity.                                          *)
(***************************************************************************)
SeatsAtRest ==
  AtRest /\ event.exists => Entitled(Confirmed, Waitlisted, event.capacity)

(***************************************************************************)
(* The half of it that check-ins leave true: at rest no seat is given      *)
(* beyond the capacity, to whom does not matter.                           *)
(***************************************************************************)
NotOversold == AtRest => WithinCapacity(Confirmed, event.capacity)

(***************************************************************************)
(* No user holds two bookings that are not cancelled.                      *)
(***************************************************************************)
OneActiveBooking ==
  \A i, j \in Created :
    owner[i] = owner[j] /\ status[i] # "cancelled" /\ status[j] # "cancelled" => i = j

(***************************************************************************)
(* The status a booker is shown is the one the booking has: "the UI never  *)
(* reports a status that got corrected out from under it"                  *)
(* (useBookings.ts:41-42).                                                 *)
(***************************************************************************)
ReportIsCurrent ==
  \A a \in Actors :
    h[a].pc = "report" /\ h[a].op = "book" => h[a].result = status[h[a].target]

(***************************************************************************)
(* At rest the activity feed's last word on a booking is its status: no    *)
(* change is left unreported, and none is reported in the wrong order.     *)
(***************************************************************************)
Tells(entry) ==
  CASE entry \in {"booking_confirmed", "booking_promoted"} -> "confirmed"
    [] entry = "booking_waitlisted" -> "waitlisted"
    [] entry = "booking_cancelled" -> "cancelled"
    [] entry = "checked_in" -> "checked_in"
    [] entry = None -> None

FeedIsCurrent == AtRest => \A i \in Created : Tells(told[i]) = status[i]

(***************************************************************************)
(* Nobody who holds a seat is put back on the waitlist by a booking or a   *)
(* cancellation: only a saved event, whose capacity may be smaller, does.  *)
(***************************************************************************)
NeverDemoted ==
  [][\A i \in Ids :
       status[i] = "confirmed" /\ status'[i] = "waitlisted"
         => \E a \in Actors : h[a].op = "edit"]_vars

(***************************************************************************)
(* A cancelled booking stays cancelled and a used one stays used: no later *)
(* write of another operation brings it back.                              *)
(***************************************************************************)
EndedStaysEnded ==
  [][\A i \in Ids : status[i] \in {"cancelled", "checked_in"} => status'[i] = status[i]]_vars

(***************************************************************************)
(* Deleting an event changes none of its bookings for as long as           *)
(* cancellations are all that follows, except the ones cancelled.          *)
(***************************************************************************)
DeletedEventIsInert ==
  [][~event.exists =>
       \A i \in Ids : status'[i] \in {status[i], "cancelled"}]_vars

(***************************************************************************)
(* The waitlist drains: a live booking with fewer than `capacity' others   *)
(* ahead of it does not wait for ever.                                     *)
(***************************************************************************)
WaitlistDrains ==
  \A i \in Ids :
    /\ i \in Waitlisted
    /\ Ahead(Confirmed \union Waitlisted, i) < event.capacity
    ~> i \notin Waitlisted

\* Every operation begun comes to its end, however the others interleave with it.
OperationsEnd == \A a \in Actors : h[a].pc # "idle" ~> h[a].pc = "idle"

(***************************************************************************)
(* One operation at a time, the system is the line its attendees believe   *)
(* they stand in.                                                          *)
(***************************************************************************)
Line == INSTANCE Waitlist WITH
  issued <- size, holder <- owner, line <- Confirmed \union Waitlisted,
  left <- WithStatus("cancelled"), admitted <- WithStatus("checked_in"),
  capacity <- event.capacity

KeepsTheLine == Line!LineSpec
============================================================================
