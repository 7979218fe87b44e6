------------------------------ MODULE EventPages ------------------------------
(***************************************************************************)
(* The pages of one event in the web and the Expo application: what one    *)
(* user's cached queries show while this user's and other people's writes  *)
(* go on.  A query caches the state of a collection, known by the number   *)
(* of writes to it, and the queries of the user's own bookings also cache  *)
(* whether they show an active one.                                        *)
(*                                                                         *)
(* The query library (external) fetches a query when a page that uses it   *)
(* is opened and its data is not fresh.  An invalidation fetches the       *)
(* queries of the open page anew; of a fetch under way it restarts only    *)
(* one that replaces earlier data.                                         *)
(***************************************************************************)
EXTENDS Naturals, Sequences

CONSTANTS
  Settings,   \* who uses what, and the queries that are followed
  Jobs,       \* mutations that may be under way at the same time
  MaxStarts,  \* bound: mutations begun
  MaxMisses   \* bound: calls that fail, and writes of other people

Collections == {"events", "bookings", "activity"}
Keys == {"events", "event", "count", "mine", "bookings", "activity"}

ASSUME PageConstants ==
  /\ Settings \subseteq [client : {"web", "expo"}, role : {"attendee", "organizer"},
                          watched : SUBSET Keys]
  /\ {MaxStarts, MaxMisses} \subseteq Nat

CollectionOf(k) ==
  CASE k \in {"events", "event"} -> "events"
    [] k \in {"count", "mine", "bookings"} -> "bookings"
    [] OTHER -> "activity"

VARIABLES
  setting,        \* one of Settings: queries are independent, so a few are followed at a time
  store,          \* writes to each collection so far
  booked,         \* this user's bookings for the event: active ones, and any cancelled
  exists,         \* whether the event does
  page,           \* the page that is open
  under,          \* queries of the screens the Expo application keeps mounted beneath it
  cache,          \* the queries: data, whether fresh, and the fetch under way
  job,            \* the mutations under way
  starts, misses, \* bounded
  own, overtaken, \* history, by query
  brokenOff,      \* history: a handler failed after a write
  unanswered      \* history: the answer to the user's last write to the events was lost

backend == <<store, booked, exists>>
bounds  == <<starts, misses>>
history == <<own, overtaken, brokenOff, unanswered>>
screens == <<page, under>>
vars    == <<setting, backend, screens, cache, job, bounds, history>>

-----------------------------------------------------------------------------
(* Pages and their queries.                                                *)

WebPages == [list     |-> {"events", "count"},
             detail   |-> {"event", "count", "mine", "activity"},
             new      |-> {},
             edit     |-> {"event"},
             checkin  |-> {"event"},
             bookings |-> {"bookings", "event"}]

ExpoPages == [list     |-> {"events", "count"},
              detail   |-> {"event", "count", "mine", "activity"},
              new      |-> {},
              edit     |-> {"event"},
              checkin  |-> {"event"},
              bookings |-> {"bookings", "event"}]

Queries(p) ==
  setting.watched \cap (IF setting.client = "web" THEN WebPages[p] ELSE ExpoPages[p])
Attendee  == setting.role = "attendee"
Organizer == setting.role = "organizer"

\* new, edit and checkin turn away who is not an organizer.
Guarded == {"new", "edit", "checkin"}
Pages == DOMAIN WebPages
Open(k) == k \in Queries(page) \cup under

\* What a query's data tells: whether there is any, how old it is, and whether it
\* may show the user free of active bookings.
NoData == [seen |-> FALSE, at |-> 0, free |-> TRUE]
NoQuery == [data |-> NoData, fresh |-> FALSE, fetching |-> FALSE, answer |-> NoData]

\* The list of the user's bookings shows every one of them; the lookup for one
\* event asks for a single booking, of any status and in no order.
MayShowFree(k) ==
  CASE k = "bookings" -> booked.active = 0
    [] k = "mine" -> booked.active = 0 \/ booked.cancelled
    [] OTHER -> TRUE

\* What the backend answers to a query: there is no answer for an event that is gone.
Read(k) ==
  IF k = "event" /\ ~exists THEN NoData
  ELSE [seen |-> TRUE, at |-> store[CollectionOf(k)], free |-> MayShowFree(k)]

\* The answer of a fetch is the present one, until Serve reads a later one.
Fetching(k, q) == [q EXCEPT !.fetching = TRUE, !.answer = Read(k)]
Holding(q, data) == [q EXCEPT !.data = data, !.fresh = TRUE]
Received(q) == [q EXCEPT !.fetching = FALSE, !.answer = NoData]

\* invalidateQueries: the queries of the open page are fetched (anew).
Restarts(k, q) == Open(k) /\ (q.fetching => q.data.seen)
Invalidated(k, q) ==
  IF Restarts(k, q) THEN Fetching(k, [q EXCEPT !.fresh = FALSE])
  ELSE [q EXCEPT !.fresh = FALSE]

InvalidateAll(ks, queries) ==
  [k \in Keys |-> IF k \in ks THEN Invalidated(k, queries[k]) ELSE queries[k]]
\* A faulty variant: the envelope of the answer is cached, not the document in it.
SetEnvelope(k, at, queries) ==
  [queries EXCEPT ![k] = Holding(@, [data |-> [seen |-> TRUE, at |-> at, free |-> TRUE]])]

SetData(k, at, queries) ==
  [queries EXCEPT ![k] = Holding(@, [seen |-> TRUE, at |-> at, free |-> TRUE])]
Remove(k, queries) == [queries EXCEPT ![k] = NoQuery]

-----------------------------------------------------------------------------
(* Mutations.  What is left of a handler: calls that write to a collection, *)
(* the reconciliation, and ("settle") the mutation's onSuccess.             *)

Script == [book    |-> <<"bookings", "activity", "reconcile", "settle">>,
           cancel  |-> <<"bookings", "activity", "reconcile", "settle">>,
           checkin |-> <<"bookings", "activity", "settle">>,
           create  |-> <<"events", "settle", "activity">>,
           update  |-> <<"events", "settle", "activity">>,
           delete  |-> <<"events", "settle">>]

\* Where the handler goes when it is through; booking, cancelling and checking
\* in stay on their page.
Target == [create |-> "detail", update |-> "detail", delete |-> "list"]

Unwritten == [c \in Collections |-> 0]
NoJob == [op |-> "none", left |-> <<>>, wrote |-> Unwritten, here |-> FALSE]

Going(j) == job[j].left # <<>>
Now(j) == Head(job[j].left)

\* The page's button is disabled while its mutation is pending: until onSuccess.
Pending == \E j \in Jobs : job[j].here /\ \E i \in DOMAIN job[j].left : job[j].left[i] = "settle"

\* Faulty variants: the feed or the lookup of the own booking is forgotten.
EventStateWithoutFeed   == {"count", "mine", "bookings"}
EventStateWithoutLookup == {"count", "bookings", "activity"}

\* useInvalidateEventState.
EventState == {"count", "mine", "bookings", "activity"}

\* A faulty variant: the deleted event's own query is only invalidated.
DeletedInvalidated == InvalidateAll({"events", "event"}, cache)

\* The cache after onSuccess; the document written is of version `at`.
WebCreated(at) == SetData("event", at, InvalidateAll({"events", "event"}, cache))
ExpoCreated == InvalidateAll({"events", "event"}, cache)
WebUpdated(at) == InvalidateAll({"events", "event"}, SetData("event", at, cache))
ExpoUpdated(at) == InvalidateAll({"events", "event"}, SetData("event", at, cache))
WebDeleted == InvalidateAll({"events"}, Remove("event", cache))
ExpoDeleted == InvalidateAll({"events"}, Remove("event", cache))

Settled(op, at) ==
  CASE op \in {"book", "cancel", "checkin"} -> InvalidateAll(EventState, cache)
    [] op = "create" -> IF setting.client = "web" THEN WebCreated(at) ELSE ExpoCreated
    [] op = "update" -> IF setting.client = "web" THEN WebUpdated(at) ELSE ExpoUpdated(at)
    [] op = "delete" -> IF setting.client = "web" THEN WebDeleted ELSE ExpoDeleted

\* The queries an operation's writes before onSuccess are about.
About(op) ==
  CASE op \in {"book", "cancel", "checkin"} -> {"count", "mine", "bookings", "activity"}
    [] op = "delete" -> {"events"}
    [] OTHER -> {"events", "event"}

-----------------------------------------------------------------------------
Init ==
  /\ setting \in Settings
  /\ store = Unwritten
  /\ booked \in [active : {0}, cancelled : IF Attendee THEN BOOLEAN ELSE {FALSE}]
  /\ exists \in (IF Organizer THEN BOOLEAN ELSE {TRUE})
  /\ page = "list" /\ under = {}
  /\ cache = [k \in Keys |-> IF k \in Queries("list") THEN Fetching(k, NoQuery) ELSE NoQuery]
  /\ job = [j \in Jobs |-> NoJob]
  /\ starts = 0 /\ misses = 0
  /\ own = [k \in Keys |-> 0] /\ overtaken = [k \in Keys |-> FALSE]
  /\ brokenOff = FALSE /\ unanswered = FALSE

\* The page p is opened: its queries are fetched unless their data is fresh or a
\* fetch is under way.  The Expo application pushes screens onto one another,
\* replaces them and goes back: what was mounted may stay so.
Enter(p) ==
  /\ page' = p
  /\ under' \in IF setting.client = "web" THEN {{}}
                 ELSE SUBSET ((under \cup Queries(page)) \ Queries(p))
  /\ LET starting == {k \in Queries(p) : ~Open(k) /\ ~cache[k].fresh /\ ~cache[k].fetching}
     IN cache' = [k \in Keys |-> IF k \in starting THEN Fetching(k, cache[k]) ELSE cache[k]]

\* A link is followed.
Visit(p) ==
  /\ p # page
  /\ p \in Guarded => Organizer
  /\ Enter(p)
  /\ job' = [j \in Jobs |-> [job[j] EXCEPT !.here = FALSE]]
  /\ UNCHANGED <<setting, backend, bounds, history>>

-----------------------------------------------------------------------------
(* Fetches.                                                                *)

Miss == misses < MaxMisses /\ misses' = misses + 1

\* The backend reads later than it could have.
Serve(k) ==
  /\ cache[k].fetching
  /\ cache' = [cache EXCEPT ![k].answer = Read(k)]
  /\ UNCHANGED <<setting, backend, screens, job, bounds, history>>

\* The answer is stored; without one (the event is gone) what was cached stays.
Receive(k) ==
  /\ cache[k].fetching
  /\ cache' = [cache EXCEPT ![k] = Received(IF @.answer.seen THEN Holding(@, @.answer) ELSE @)]
  /\ overtaken' = [overtaken EXCEPT ![k] = @ /\ cache[k].answer.at < own[k]]
  /\ UNCHANGED <<setting, backend, screens, job, bounds, own, brokenOff, unanswered>>

\* Failed, after the retries: what was cached stays.
FetchFails(k) ==
  /\ cache[k].fetching
  /\ Miss
  /\ cache' = [cache EXCEPT ![k] = Received(@)]
  /\ UNCHANGED <<setting, backend, screens, job, starts, history>>

\* staleTime has passed and the window gets the focus, or the network comes back.
Refetch(k) ==
  /\ Open(k) /\ ~cache[k].fetching
  /\ cache' = [cache EXCEPT ![k] = Fetching(k, @)]
  /\ UNCHANGED <<setting, backend, screens, job, bounds, history>>

-----------------------------------------------------------------------------
(* Handlers.                                                               *)

\* The cards of a list of bookings do not wait for one another: each cancels.
Begin(op) ==
  /\ Pending => op = "cancel"
  /\ starts < MaxStarts /\ starts' = starts + 1
  /\ \E j \in Jobs :
       /\ job[j] = NoJob
       /\ job' = [job EXCEPT ![j] = [NoJob EXCEPT !.op = op, !.left = Script[op], !.here = TRUE]]
  /\ UNCHANGED <<setting, backend, screens, cache, misses, history>>

\* A query that is not followed may show anything.  (While its last fetch failed
\* the event's pages show an error instead of older data: less than here.)
Shown(k) == k \in setting.watched => cache[k].data.seen

\* BookButton: once the lookup of the own booking is no longer loading.
Book ==
  /\ page = "detail" /\ Attendee /\ Shown("event")
  /\ Shown("mine") \/ ~cache["mine"].fetching
  /\ "mine" \in setting.watched => cache["mine"].data.free
  /\ Begin("book")

\* BookingList and the card's cancel button.
Cancel ==
  /\ page = "bookings" /\ Attendee
  /\ Shown("event") /\ Shown("bookings")
  /\ "bookings" \in setting.watched => ~cache["bookings"].data.free
  /\ Begin("cancel")

\* OrganizerActions, and the organizer's pages.
Delete  == page = "detail"  /\ Organizer /\ Shown("event") /\ Begin("delete")
CheckIn == page = "checkin" /\ Organizer /\ Shown("event") /\ Begin("checkin")
Update  == page = "edit"    /\ Organizer /\ Shown("event") /\ Begin("update")
Create  == page = "new"     /\ Organizer /\ ~exists /\ (\A j \in Jobs : job[j].op # "create") /\ Begin("create")

\* The active bookings a cancellation leaves: it may name one cancelled before.
LeftByCancel == IF booked.active > 0 THEN booked.active - 1 ELSE 0

\* A call of the handler reaches the store.  The user's booking is made or
\* cancelled, whichever of its copies the page shows; an event that is gone is
\* not changed.
Reaches(j) ==
  /\ Going(j) /\ Now(j) \in Collections
  /\ job[j].op \in {"update", "delete"} /\ Now(j) = "events" => exists
  /\ store' = [store EXCEPT ![Now(j)] = @ + 1]
  /\ booked' = CASE Now(j) = "bookings" /\ job[j].op = "book" -> [booked EXCEPT !.active = @ + 1]
                 [] Now(j) = "bookings" /\ job[j].op = "cancel" ->
                      [active |-> LeftByCancel, cancelled |-> TRUE]
                 [] OTHER -> booked
  /\ exists' = IF Now(j) = "events" THEN job[j].op # "delete" ELSE exists

\* The entry of a created or saved event comes after its onSuccess, and nothing
\* invalidates the feed after it.
Unannounced(j) == Now(j) = "activity" /\ job[j].op \in {"create", "update"}

\* The call is answered, and the handler goes on.  What the feed's query then
\* holds for fresh, or has under way, an unannounced entry overtakes.
Write(j) ==
  /\ Reaches(j)
  /\ job' = [job EXCEPT ![j].left = Tail(@), ![j].wrote[Now(j)] = store[Now(j)] + 1]
  /\ IF Unannounced(j)
     THEN /\ own' = [own EXCEPT !["activity"] = store["activity"] + 1]
          /\ overtaken' = [overtaken EXCEPT !["activity"] =
               cache["activity"].fresh \/ cache["activity"].fetching]
     ELSE UNCHANGED <<own, overtaken>>
  /\ unanswered' = (Now(j) # "events" /\ unanswered)
  /\ UNCHANGED <<setting, screens, cache, bounds, brokenOff>>

\* The call reached the store and its answer is lost: to the handler it failed,
\* and onSuccess, if it was still to come, does not run.
AnswerLost(j) ==
  /\ Reaches(j)
  /\ Miss
  /\ job' = [job EXCEPT ![j] = NoJob]
  /\ brokenOff' = TRUE
  /\ unanswered' = (Now(j) = "events" \/ unanswered)
  /\ UNCHANGED <<setting, screens, cache, starts, own, overtaken>>

\* The reconciliation changes bookings, and says so in the feed, or finds
\* nothing to change.
Reconcile(j) ==
  /\ Going(j) /\ Now(j) = "reconcile"
  /\ \/ store' = [store EXCEPT !["bookings"] = @ + 1, !["activity"] = @ + 1]
     \/ UNCHANGED store
  /\ job' = [job EXCEPT ![j].left = Tail(@)]
  /\ UNCHANGED <<setting, booked, exists, screens, cache, bounds, history>>

Later(a, b) == IF a > b THEN a ELSE b

\* A later write of the user to the events has settled before this one.
Late(j) == job[j].wrote["events"] < own["events"]

\* onSuccess.  A fetch under way that it does not start anew was overtaken by the
\* write, until an answer comes that is not; so was a document put into the cache late.
Settle(j) ==
  /\ Going(j) /\ Now(j) = "settle"
  /\ LET op == job[j].op
         about == About(op)
         after == Settled(op, job[j].wrote["events"])
     IN /\ cache' = after
        /\ own' = [k \in Keys |->
             IF k \in about THEN Later(own[k], job[j].wrote[CollectionOf(k)]) ELSE own[k]]
        /\ overtaken' = [k \in Keys |->
             IF k \in about
             THEN \/ after[k].fetching /\ ~Restarts(k, cache[k])
                  \/ k = "event" /\ Late(j)
             ELSE overtaken[k]]
  /\ job' = [job EXCEPT ![j].left = Tail(@)]
  /\ UNCHANGED <<setting, backend, screens, bounds, brokenOff, unanswered>>

\* The handler returns, and takes the user to its target.
Finish(j) ==
  /\ job[j] # NoJob /\ ~Going(j)
  /\ IF job[j].op \in DOMAIN Target
     THEN /\ Enter(Target[job[j].op])
          /\ job' = [i \in Jobs |->
               IF i = j THEN NoJob ELSE [job[i] EXCEPT !.here = @ /\ page = Target[job[j].op]]]
     ELSE job' = [job EXCEPT ![j] = NoJob] /\ UNCHANGED <<screens, cache>>
  /\ UNCHANGED <<setting, backend, bounds, history>>

\* A call fails without reaching the store, or the scanned ticket admits nobody:
\* the handler says so, and nothing is invalidated.
Fail(j) ==
  /\ Going(j) /\ Now(j) # "settle"
  /\ Miss
  /\ job' = [job EXCEPT ![j] = NoJob]
  /\ brokenOff' = (brokenOff \/ job[j].wrote # Unwritten)
  /\ UNCHANGED <<setting, backend, screens, cache, starts, own, overtaken, unanswered>>

\* Somebody else writes.
Elsewhere(c) ==
  /\ Miss
  /\ store' = [store EXCEPT ![c] = @ + 1]
  /\ UNCHANGED <<setting, booked, exists, screens, cache, job, starts, history>>

Next ==
  \/ \E p \in Pages : Visit(p)
  \/ \E k \in Keys : Serve(k) \/ Receive(k) \/ FetchFails(k) \/ Refetch(k)
  \/ Book \/ Cancel \/ Delete \/ CheckIn \/ Update \/ Create
  \/ \E j \in Jobs : Write(j) \/ Reconcile(j) \/ Settle(j) \/ Finish(j)
                     \/ Fail(j) \/ AnswerLost(j)
  \/ \E c \in Collections : Elsewhere(c)

Spec == Init /\ [][Next]_vars

-----------------------------------------------------------------------------
(* Properties.                                                             *)

Data == [seen : BOOLEAN, at : Nat, free : BOOLEAN]

\* Every variable has its type.
TypeOK ==
  /\ setting \in Settings
  /\ store \in [Collections -> Nat] /\ booked \in [active : Nat, cancelled : BOOLEAN]
  /\ exists \in BOOLEAN /\ page \in Pages /\ under \subseteq Keys
  /\ cache \in [Keys -> [data : Data, fresh : BOOLEAN, fetching : BOOLEAN, answer : Data]]
  /\ \A j \in Jobs :
       /\ job[j].op \in DOMAIN Script \cup {"none"} /\ job[j].here \in BOOLEAN
       /\ job[j].left \in Seq(Collections \cup {"reconcile", "settle"})
       /\ job[j].wrote \in [Collections -> Nat]
  /\ starts \in 0..MaxStarts /\ misses \in 0..MaxMisses
  /\ own \in [Keys -> Nat] /\ overtaken \in [Keys -> BOOLEAN]
  /\ brokenOff \in BOOLEAN /\ unanswered \in BOOLEAN

\* A page settles on the user's own writes (useEvents.ts:155-167 and the
\* onSuccess of every mutation): data taken for fresh is never from before a
\* mutation of the user that succeeded, however fetches, other people's writes,
\* other mutations and other pages fall between.  (A mutation that failed after
\* its first write invalidates nothing.)  The exceptions are a fetch the
\* invalidation found under way and did not restart, a mutation of the event
\* that settles after a later one and puts its document into the cache, and the
\* feed after an event was created or saved: that entry is written after
\* onSuccess (edit/page.tsx:45, edit.tsx:40) and invalidates nothing, so a feed
\* fresh or being fetched by then goes without it until it is fetched again.
OwnWritesShown ==
  \A k \in Keys : cache[k].fresh /\ ~overtaken[k] => cache[k].data.at >= own[k]

\* A deleted event is gone from its own pages: with no operation under way no
\* cached copy of it is left to show (OrganizerActions.tsx:16-25), but for one
\* that a mutation put back by settling after the deletion, and for a deletion
\* whose answer was lost: mutateAsync rejects, and removeQueries does not run.
DeletedIsGone ==
  ~exists /\ (\A j \in Jobs : job[j] = NoJob) =>
    ~cache["event"].data.seen \/ overtaken["event"] \/ unanswered

\* The lookup of the user's booking hides the Book button (useBookings.ts:20).
\* A user who holds a booking is let book again only in one of five gaps: the
\* lookup is invalidated and the new answer has not come, an older answer came
\* after the invalidation, the lookup returned a cancelled booking, an earlier
\* handler failed after its write and invalidated nothing, or the first booking
\* is still under way on a page that the user has left.
RebooksOnlyInAGap ==
  [][Book /\ booked.active > 0 /\ "mine" \in setting.watched =>
       \/ ~cache["mine"].fresh \/ overtaken["mine"]
       \/ booked.cancelled \/ brokenOff
       \/ \E j \in Jobs : job[j].op = "book" /\ Going(j)]_vars

=============================================================================
