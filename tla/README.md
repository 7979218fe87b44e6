# Formal model of the events showcase

The repository is one application, event booking with a waitlist, written ten
times: Next.js (`web`), Expo (`mobile-expo`), Flutter (`mobile-flutter`), Swift
(`swift`), Go, Java, C#, PHP, Python and Ruby. All ten talk to the same backend,
a hosted document store, through single-document calls, and may run at the same
time against the same project and collections. The backend has no transactions
and no counters, so the promise of the application ("the first `capacity`
bookings hold the seats, the others wait in order") rests on what each client
does between its calls. That is what is modelled here, and around it
what each client keeps between its calls: its tokens and its cached queries.

## 1. Inventory

| Part | State | Operations | Talks to |
|---|---|---|---|
| Document store (external) | collections `events`, `bookings`, `activity` | list (filter, sort, page limit), get, create, patch, delete; each atomic, writes unconditional | everybody |
| Capacity reconciliation (`web/src/lib/capacity.ts` and its nine counterparts) | two fetched lists, the corrections derived from them | read confirmed, read waitlisted, patch the bookings whose status disagrees with their index, write an activity entry for each | called at the end of booking and cancelling, on Flutter also of editing |
| Bookings (`useBookings.ts`, `BookingService.java`, `bookings.go`, ...) | the booking document: event, user, status `confirmed / waitlisted / cancelled / checked_in`, ticket code | book, cancel, check in | reconciliation, activity |
| Events (`useEvents.ts`, `EventService.java`, `handlers_events.go`, ...) | title, date, venue, capacity, organizer | create, edit, delete | activity; Flutter: reconciliation |
| Activity feed | append-only entries | append, list newest first | written by every operation |
| Tokens (`web/src/lib/mudbase.ts`, `refresh.go`, `session.py`, `TokenRefreshHandler.cs`, ...) | access and refresh token, in memory, in a keychain or in a server session | attach, refresh once after a 401, run the call (or the whole block) again | wraps every call |
| Session of the Expo client (`client.ts`, `secureStorage.ts`, `authStore.ts`) | the token pair in memory and in the secure storage, the shared refresh, the user shown | restore, sign in, sign out, refresh | every call of that client |
| Session of the Flutter client (`auth_controller.dart`, `secure_token_storage.dart`) | the access token in memory, the pair under two keys of the secure storage, the shared refresh, the user shown | restore, sign in, register, sign out, refresh | every call of that client |
| Session of the Swift client (`AccessTokenCoordinator.swift`, `SessionStore.swift`, `KeychainTokenStore.swift`) | the bearer header, the pair under two keys of the Keychain, the refresh task, the user shown | restore, sign in, register, sign out, refresh | every call of that client |
| Session of the web client (`mudbase.ts`, `mudbase-provider.tsx`) | one access token in `localStorage` and in each tab, the session shown | load, sign in, register, sign out, check the session | every call of that client |
| Session of the server ports (`session.py`, `refresh.go`, `session_helpers.rb`, `bootstrap.php`, `SessionAuthService.java`, `TokenRefreshHandler.cs`) | the token pair and the user, in a cookie (Python, Ruby, Go) or at the server (PHP, Java, C#) | sign in, sign out, refresh ahead of a call or after a refusal, store the session with the response | every request |
| Client caches (React Query; Riverpod on Flutter) | query results, whether fresh, fetches under way | fetch, invalidate after a mutation, set, remove | pages |
| Roles and ownership | none of their own | guards on organizer or attendee and on the owner | pages, handlers |
| Pages, templates, forms, ticket codes, scanners | view state | rendering and input | everything above |

### What is hard here

* **Interleaving.** Every operation is five to twenty calls; anybody else's
  calls may fall between any two of them. A count is stale when the booking it
  decides is written; the two lists of a reconciliation are two reads, so a
  booking that changes status between them is in both or in neither; a
  correction overwrites whatever the booking has become.
* **Concurrency inside an operation.** `Promise.all`, `Future.wait`,
  `Task.WhenAll`, `asyncio.gather` and Swift task groups send the two reads, and
  then all corrections, at once.
* **Partial failure.** One correction of several fails: some ports stop, some
  let the siblings run to their end, Swift cancels them. A booking may exist
  whose caller was told it failed. A failed lookup of the user's own booking is
  taken for "no booking" by the web, Expo and Swift pages.
* **Rotating tokens.** A refresh token can be spent once. Requests that are
  refused together, two requests of one browser, two calls of one page, a lost
  answer or a killed application can each present a spent one, and the backend
  then ends the sign-in. An answer may also arrive after a sign-out.
* **Copies of the session.** A cookie travels with each request and the last
  response wins; C# stores the copy a request loaded; Java shares one object
  among all requests; a tab shares its storage with the others.
* **Copies of the data.** A query's answer may be older than the user's own
  write and arrive after it; a page may offer what is no longer possible.
* **Retries.** After a refused token Flutter, Python and Ruby run a whole block
  of calls again, the writes it had already made included.
* **Boundaries.** Count and index equal to the capacity; a page limit of 100 or
  1000; creation times that tie (PHP compares whole seconds).
* **Sequences of legal calls.** Book, cancel, book again; check in, then
  reconcile; change the capacity; delete the event and then cancel.

### What makes each part correct

* Seat arithmetic: one pass over lists that agree yields the seats as they
  should be; no booking is corrected both ways; a second pass is idle.
* Booking, cancelling, checking in: the earliest seats are never lost; an
  undisturbed reconciliation settles the event; no double booking, no
  overselling, no free seat beside a waitlist; what ended stays ended; the
  booker is told the truth; the feed tells the truth; whoever is next gets the
  seat; every operation ends.
* Editing and deleting: the seats follow the capacity; a deleted event is inert.
* Tokens and sessions: a spent refresh token is presented only after a loss or
  an overlap the code cannot know of; the session names the user its tokens
  belong to; signing out leaves nothing behind; what is shown is what is held;
  every waiting request is answered.
* Caches: data taken for fresh is never from before the user's own write; a
  deleted event is not shown; nobody who holds a booking is offered another
  outside a known gap.

`PROJECT.json` lists the hazards line by line with the properties that cover
them, and the components with what is left out of each.

## 2. Modules

| Module | Models |
|---|---|
| `Seating` | the seat arithmetic shared by all ports: index, promotions, demotions, page limit, and what the seats ought to be |
| `CapacityLoop` | the same as the code computes it: concatenate, stable sort, walk with an index |
| `Ports` | the points in which the ten ports differ, one record per port |
| `Bookings` | one event, its bookings, and any number of handlers of any ports, call by call |
| `Waitlist` | the abstract specification: a line of people, `Join`, `Leave`, `Admit`, `Resize` |
| `ExpoSession` | the tokens of the Expo client: storage, shared refresh, signing in and out, kills |
| `TokenService` | the backend that issues and rotates token pairs (external), as the three phone clients use it |
| `FlutterSession` | the tokens of the Flutter client: two stored keys, shared refresh, signing in and out, kills |
| `SwiftSession` | the tokens of the Swift client: header, Keychain, refresh task, the jobs of its two actors |
| `WebSession` | the token and the session of the web client in several tabs |
| `ServerSession` | the session and the refresh of the six server ports, requests of one browser overlapping |
| `EventPages` | the cached queries of one event in the web and Expo clients |
| `MCBookings`, `MCEventPages`, `MCServerSession`, `MCPhones` | actors, users, requests and symmetry of the instances checked with TLC; `MCPhones` is a phone that runs the Flutter or the Swift client |
| `CapacityLoop_proofs`, `Bookings_proofs`, `EventPages_proofs`, `ExpoSession_proofs`, `SwiftSession_proofs`, `Phones_proofs`, `WebSession_proofs`, `ServerSession_proofs` | theorems and proofs; `Phones_proofs` is about the Flutter client and about a phone with either client |

`Bookings` extends `Ports` and `Seating`, and instantiates `Waitlist` under a
refinement mapping. `ExpoSession`, `FlutterSession` and `SwiftSession` extend
`TokenService`. The sessions and the pages are modules of their own: an
operation of `Bookings` meets the session only where a refused token makes it
resume (`...Retry` in `Ports`), and the pages only in what an old page has read.

### `Bookings`: state

| Variable | In the code |
|---|---|
| `size`, `owner`, `status` | the booking documents, numbered in the order the store creates them; `createdAt` is that order, or `Second[i]` for a port that truncates it |
| `event` | the event document: `capacity`, and whether it exists |
| `told` | the last activity entry about each booking |
| `h[a]` | the local variables of the handler actor `a` is running: where it stands (`pc`), the operation, user and booking, the captured capacity, the lists read, the corrections outstanding (`promote`, `demote`), the entries to write for those made (`logs`) |
| `clean` | history: the reconcilers nobody has disturbed since their first read |
| `faults` | history: faults so far |

An actor is a browser tab, a phone or a server-side request; it carries out one
operation at a time. Operations on different events share no document, so one
event is modelled.

### `Bookings`: actions

| Actions | Code |
|---|---|
| `StartBook`, `ReadEvent`, `GateOpen` / `GateShut` / `GateLost`, `Count`, `Create`, `Log`, then the reconciliation, `Reread`, `Report` | booking: page or handler, lookup of the user's own booking, `useCreateBooking` and its counterparts |
| `StartCancel`, `Find`, `ReadEvent`, `Patch`, `Log`, then the reconciliation | cancelling, from a page that lists the booking as confirmed or waitlisted |
| `StartCheckIn`, `Find`, `Patch`, `Log`, `Report` | checking in by ticket code |
| `StartEdit`, `Save`, `Log` (Flutter: then the reconciliation) | saving an event |
| `Delete` | deleting an event; its bookings stay |
| `ReadList`, `Fix`, `LogFix`, `EndFix` | the reconciliation; `InTurn` orders the corrections of sequential ports |
| `Fail`, `GateLost`, `FailFix`, `CancelSibling` | a call fails |
| `EventLost` | on Flutter, an event that cannot be read is taken for deleted (`my_bookings_controller.dart:45-54`): the booking is cancelled and nothing reconciled |
| `Expire` | a refused token where the port then runs a block again; where only the refused call is repeated nothing changes, and there is no step |

`Ports` says what differs: which of the event and the own booking is read first
and which own bookings the lookup sees (`...Lookup`), what the booker is told
(`...Book`), whether a cancellation reads the booking again, which statuses it
accepts, what it does on a deleted event and whether it tells one from an event
it could not read (`...Cancel`), how the
reconciliation reads, corrects, fails, is cut off and compares times
(`...Reconcile`), whether saving an event reconciles (`...Edit`), and where an
operation resumes after a refused token (`...Retry`). The definitions are the
reviewable reading of each port: `map` in `PROJECT.json` gives their lines.

### `ExpoSession`

| Variable | In the code |
|---|---|
| `issued`, `sessionOf`, `expired`, `unspent`, `ended` | the backend (external): token pairs in order, access tokens refused, refresh tokens still to be spent, sessions over |
| `memory` | `token` and `refreshTokenValue` of `client.ts` |
| `refreshing` | the shared promise `refreshing`, and how far its call is |
| `disk`, `writes` | `secureStorage`: what is stored, and the writes and deletes still to be done, in order |
| `calls[c]` | the calls under way: data requests, presses of sign-out, the start, a sign-in |
| `screen` | `authStore.ts`: user, `isInitializing`, `isSubmitting` |
| `faults`, `reused`, `lost`, `crossed` | history |

| Actions | Code |
|---|---|
| `RestoreNothing`, `RestoreTokens`, `BootSucceeds`, `BootFindsNobody`, `BootFails` | `initialize`, `restoreTokens`, `getSession` |
| `Fetch`, `SignIn`, `SignOut` | a call is sent with the token memory holds |
| `Accept`, `Refuse`, `CallFails`, `AnswerLost` | the backend answers, or does not |
| `Join`, `Rotate`, `RefuseRefresh`, `RefreshCallFails`, `KeepRefreshed`, `Refreshed`, `RefreshFails` | `withAuthRetry` and `refreshSession`: who is refused joins the refresh under way or begins one; `Settle` is the shared promise |
| `SignInSucceeds`, `SignInFails`, `SignOutClears`, `Stored`, `Receive` | what callers do with the answer |
| `Write`, `WriteFails`, `Kill` | one storage call, one that fails, the end of the process |

### `FlutterSession`

| Variable | In the code |
|---|---|
| those of `TokenService` | the backend, as in `ExpoSession` |
| `token` | `_token` of `AuthController` |
| `stored` | `SecureTokenStorage`, key by key |
| `refreshing` | `_refreshInFlight`, how far it is, what it spends and what it got |
| `calls[c]` | requests, forms, presses of sign-out, the start; a call that stores or deletes the keys is between them at `access` and `refresh` |
| `user`, `loading` | `state` |
| `faults`, `reused`, `lost`, `crossed`, `broken` | history |

`RestoreNothing`, `RestoreToken`, `BootSucceeds` and `BootFails` are `build`;
`Fetch`, `Join`, `SaveRefresh` and `TearDown` are `callAuthorized` with its wait
for the shared refresh and what follows; `ReadRefreshToken` to `SaveFails` are
`_performRefresh`; `SignIn`, `SignInSucceeds` and `StoreAccess`, `StoreRefresh`
are the forms and `_applySession`; `SignOut` and `SignOutClears` are `logout`.
Unlike Expo's, this refresh reads its token from the storage, between two of
whose keys anybody else may run. A sign-in and a refresh are answered with both
tokens.

### `SwiftSession`

| Variable | In the code |
|---|---|
| those of `TokenService` | the backend, as in `ExpoSession` |
| `header` | `customHeaders`: the token every call is sent with |
| `stored` | `KeychainTokenStore`, key by key |
| `inFlight` | `inFlightRefresh`: who began it, the token it spends, how it ended |
| `calls[c]` | requests, forms, presses of sign-out, the start, the refresh task; `turn` is a caller the task's end has made ready |
| `user`, `isBootstrapping` | `SessionStore` |
| `faults`, `reused`, `lost`, `crossed`, `broken`, `kept` | history |

`RestoreNothing` to `BootRefused` are `bootstrap`, `Await`, `Begin`,
`BeginNothing` and `TakeTurn` are `perform` and `refreshedAccessToken`,
`KeepRefreshed`, `Refreshed` and `RefreshFails` the task. `WriteAccess`,
`WriteRefresh` and `WriteHeader` are a job that stores or clears the tokens:
`Free` keeps two jobs of one actor apart, while the coordinator's and the main
actor's may interleave. The task's callers are resumed in any order, the one who
began it forgets it when its turn comes, and whoever asks in between finds it
ended. The task itself is one of the coordinator's jobs in the model. In the code
it captures no `self` and may store its pair off the actor
(`AccessTokenCoordinator.swift:50-54`), beside a `perform` that goes on; a model
with the task outside `Free` has the same three properties in TLC.

### `WebSession`

`stored` is `localStorage`, `token[x]` what tab `x` holds, `session[x]` and
`loading[x]` the provider's state, `flow[x][f]` a call of its own and the
session check after it. `Load` is a page load with the provider's check,
`Submit` the login and register forms, `SignOut` the header's button; `Issues`,
`Accept`, `Refuse` are the backend; `SignedIn`, `LoggedOut` and `Checked` are
what `login`, `register`, `logout` and `refreshSession` do with the answers. The
client's own token refresh does not occur: neither `login` nor `register` passes
a refresh token to `setToken` (`mudbase.ts:222,233`), so `refreshAccessToken`
(`mudbase.ts:153-177`) has nothing to send and a refused token stays refused.

### `ServerSession`

| Variable | In the code |
|---|---|
| `port` | which of the six this is |
| `pairs`, `expired`, `unspent`, `ended` | the backend (external), as above; a pair knows its user and the first pair of its sign-in |
| `stored` | the session in the cookie or at the server |
| `req[r]` | a request: its operation, its copy of the session (`mine`), whether that changed, the token its page read first, and its calls |
| `alone`, `left`, `late`, `faults` | history |

| Actions | Code |
|---|---|
| `Begin` | a request comes in and takes its copy of the session; PHP waits for the lock of its session file |
| `Ask`, `Again` | a call of the request, and its repetition: `Token` is the token the port uses for it |
| `RefreshAhead` | the refresh Python and Ruby make when the clock says so |
| `Recover`, `Answer`, `LoseAnswer` | the refresh after a refusal, and what becomes of its answer; C# catches a failed connection there (`failed`), but no time-out (`broken`) |
| `Break` | on C# a call fails otherwise than by a 401 and is not caught: the question who has signed in, after the tokens were stored, or the sign-out, whose time-out `LogoutAsync` does not catch |
| `Respond`, `DropResponse`, `TurnAway`, `GiveUp` | the response and the session that goes with it (`SignsOut`, `Clears`, `Carries`, `Final`); a response that carries no cookie; PHP's front controller and Java's handler of a last refusal |

The sets at the top of the module (`InCookie`, `Live`, `OneAtATime`,
`SideBySide`, `Snapshot`, `GoesOn`) and `RefreshesAhead` and `Recovers` are the
points in which the six differ. Left out: a refresh whose call does not reach
the backend (it changes less than a lost answer); flash messages; PHP's sign-in
with its new session id is one step, and a PHP request that waited with the old
id is not followed; registration ends like a sign-in, or without a session.

### `EventPages`

| Variable | In the code |
|---|---|
| `store`, `booked`, `exists` | the backend: writes to each collection, the user's bookings for the event, the event |
| `page`, `under` | the open page, and the queries of the Expo screens kept mounted beneath it |
| `cache[k]` | the query `k`: its data (as of which write), whether it is fresh, the fetch under way and its answer |
| `job[j]` | a mutation: its calls still to make, and whether its page is still open |
| `own`, `overtaken`, `brokenOff`, `unanswered` | history |

`Visit` opens a page, `Serve`, `Receive`, `FetchFails` and `Refetch` are the
query library (external), `Book`, `Cancel`, `CheckIn`, `Create`, `Update` and
`Delete` begin a mutation where its control is enabled; `Write`, `Reconcile`,
`Settle` (`onSuccess`: invalidate, set, remove) and `Finish` are its steps.
`Fail` is a call that does not reach the backend, `AnswerLost` one that does and
whose answer is lost: to the handler both have failed, and an `onSuccess` still
to come does not run. A created or saved event is entered in the feed after its
`onSuccess`, which no invalidation follows (`Unannounced`). `Elsewhere` is a
write of somebody else.

### Abstractions of `Bookings`

* Users, ticket codes and messages are model values or absent; a scanned code is
  the booking it names. The organizer does not book (the control is hidden).
* On the browser and phone ports the capacity and the own booking come from the
  page's cached queries; they are the first reads of the operation. Anything may
  happen between them and the rest, so an old page is an operation that has made
  those reads and waits.
* PHP's `listAllDocuments` reads pages of 100 until it has 1000; it is one read.
  A booking that changes status between two pages may then be missed or read twice
  within one list, which only events of more than 100 bookings can meet.
* Java's lookup returns the newest 20 bookings of the user for the event; it is
  taken for all of them.
* Sorting is stable. Ruby's `sort_by` and Go's `sort.Slice` do not promise it;
  that matters only for entries with equal times, in practice for a booking that
  is in both lists. `NeverBothWays` is the property an unstable sort breaks.
* An answer lost after its write is the failure of the next call: a handler that
  is told of an error there goes no further, and the last call of an operation
  is followed by its own end. (`EventPages` and the sessions, where the answer
  itself matters, have lost answers as steps.)
* Swift's cancelled siblings may or may not have reached the store:
  `CancelSibling` and `Fix` are both possible.
* Uniqueness of `createdAt`: the backend's order of creation decides, except for
  the port that truncates; `CapacityLoop` covers ties.

## 3. Runs

Eleven passing runs and one that finds a property violated. `CHECK_DEADLOCK FALSE`
everywhere: each system may stop when its bound is used up and nobody has
anything left to ask for. That what is under way does not get stuck is the
business of `OperationsEnd`, `ComesToRest` and `PhoneRests`. Symmetry is used only where no
liveness is checked.

| Run | Instance | Properties | What it shows |
|---|---|---|---|
| `book_race` | web + Go, 4 users, 4 bookings, capacity 1..2, one failing call, concurrent | `TypeOK`, `EarliestSeatsKept`, `SelfCorrection` | booking races never take a seat from the first `capacity` bookings, and any undisturbed reconciliation repairs what a race or failure left |
| `taking_turns` | all ten ports, 3 users, 4 bookings, one operation at a time | `SeatsAtRest`, `FeedIsCurrent`, `NeverDemoted`, `DeletedEventIsInert` | the ports agree: any sequence of these operations leaves the seats and the feed right (C# cancels nothing here, and only Flutter edits) |
| `at_the_door` | Flutter, Swift, Java, C#, 3 users, 4 bookings, with check-ins, one operation at a time | `OneActiveBooking`, `NotOversold`, `ReportIsCurrent`, `KeepsTheLine`, `EndedStaysEnded` | the code implements the line of `Waitlist` |
| `replay` | Flutter + Python, 3 users, 3 bookings, up to two expired tokens | `SeatsAtRest`, `WaitlistDrains` | running whole blocks again keeps the seats right, and the waitlist drains |
| `failed_calls` | Flutter + Swift + Go, 3 users, 3 bookings, capacity 1 or 3, one failing call at any step | `SelfCorrection`, `OperationsEnd` | after a failure every operation still ends, and the next reconciliation settles the event |
| `capacity_loop` | all pairs of lists of up to 4 bookings, times 0..2, capacity 1..3 | `WalkAgrees`, `NeverBothWays`, `SecondPassIsIdle` | the sets of `Seating` are what the list walk computes |
| `expo_session` | 2 requests, a sign-out, a sign-in, 3 token pairs, one fault of any kind (1.0 million states) | `TypeOK`, `ReuseNeedsALoss`, `SignOutIsFinal`, `ShownIsHeld`, `ComesToRest` | requests refused at once share one refresh; a spent token is presented only after a rotation that could not be kept; everything under way comes to rest |
| `web_session` | 2 tabs, a sign-out in each, 2 tokens, 2 further page loads (0.4 million states) | `TypeOK`, `ShownIsHeld`, `NothingLeftBehind`, `CheckClearsItsOwn` | a tab shows the session of its token, and a check that fails undoes no sign-in |
| `server_session` | each of the six server ports, 2 requests, 2 users, 3 token pairs, one fault (3.2 million states) | `TypeOK`, `AloneIsRefreshed`, `UserOwnsTokens`, `SignOutSticks`, `AloneIsServed` | requests that do not overlap are always refreshed and served; however they overlap, the session names the owner of its tokens, and who is told that he is signed out stays so, but for requests then under way |
| `event_pages` | web and Expo, organizer and attendee, 2 mutations that may overlap, one failure or foreign write (2.0 million states) | `TypeOK`, `OwnWritesShown`, `DeletedIsGone`, `RebooksOnlyInAGap` | invalidation shows a user the mutations that succeeded, the entry of a saved event excepted |
| `phones` | Flutter or Swift, 2 requests, a sign-out, a form, 2 token pairs, one fault of any kind (0.6 million states) | `ReuseNeedsALoss`, `OneSessionOnPhone`, `PhoneRests` | the same of the other two phone clients: a spent token is presented only after a loss, and at rest memory or header, storage and screen agree on one session |
| `web_oversell` | two web tabs | `NotOversold` violated | see below |

### Choices of the instances

* In `taking_turns` C# cancels nothing, because an event may be deleted there
  (see 4), and events are edited on Flutter only, the one port that reconciles
  then.
* `at_the_door` takes the ports whose lookup has an order: with a lookup of
  limit 1 and no order, a cancelled booking may be the one returned, and the
  same user books twice. PHP is left out because it reports the status it first
  wrote. Check-ins are kept apart from `SeatsAtRest`, which they falsify on
  every port: a checked-in booking leaves the confirmed count, and the next
  reconciliation hands its place on. `NotOversold` and the line of `Waitlist`
  are what survives.
* The concurrent run of `Bookings` uses two actors, parallel corrections against
  sequential ones that stop on error. `Corrected` (see 5) is the same property
  for all ports and operations.
* Each use of `event_pages` follows one query: queries do not read each other,
  and one that is not followed may show anything. Two mutations may be under way
  at once: the user leaves the page of one, or presses another booking's Cancel
  (`BookingList.tsx:18` remembers one card only). The theorems hold for all
  queries and any number of mutations.

### Exceptions inside properties

The properties of the sessions and pages name the cases in which they do not
hold; each is needed, TLC finds the counterexample without it.

* `SignOutIsFinal` and `ShownIsHeld` of Expo except what `crossed` remembers: a
  sign-in or a sign-out that changed the tokens while a refresh was under way, a
  sign-in answered before a sign-out pressed earlier was over, a key the storage
  did not take, two deletes that both failed, a kill that left the two keys
  of different sessions, and a start whose answer named no user. The run has one
  press of sign-out and one fault; the theorems have any number of both, and the
  proof is where the second, the fourth and the fifth came to light.
* `OneSession` of Flutter and Swift excepts changes of the tokens that overlapped
  (`crossed`), a failed call of the storage and a kill while its two keys
  differed (`broken`); on Swift also a start or a sign-in that could not ask for the user
  and keeps its tokens (`kept`).
* `ShownIsHeld` of the web client excepts a failed sign-out, after which the page
  shows a session it has no token for, and flows of one tab that overlap.
* `AloneIsRefreshed` and `AloneIsServed` except overlapping requests and losses
  (`alone`), since only PHP, which locks its session, keeps requests from
  refreshing the same token. A C# sign-out that the backend heard and that timed
  out ends the sign-in and keeps the session, and counts as a loss. `AloneIsServed`
  also excepts the calls Python gathers for a page, which are not wrapped in
  `call_with_reauth` (`bookings.py:60`, `events.py:63`).
* `UserOwnsTokens` excepts a C# sign-in whose second call broke, and
  `SignOutSticks` the requests that were under way at the sign-out. The latter
  begins when the user is told that he is signed out (`SignsOut`), which a C#
  sign-out that timed out does not do: its answer is the error page.
* `OwnWritesShown` excepts a fetch that was under way when its query was
  invalidated and had no earlier data, which the query library does not restart;
  and, like `DeletedIsGone`, a create or an update that settles after a later
  write of the user (`overtaken`): its `setQueryData` puts an older document, or
  a deleted one, back into the cache (`useCollection.ts:45`, `:56`). The feed is
  excepted after an event was created or saved, when it was fresh or being
  fetched as the entry was written. A mutation that failed after its first write
  has invalidated nothing and is not one of those the property speaks of.
* `DeletedIsGone` excepts a deletion whose answer was lost (`unanswered`):
  `mutateAsync` rejects and `removeQueries` does not run.
* `RebooksOnlyInAGap` lists the five gaps in which the Book button comes back, for
  one client of the user; a booking made on another device is a gap of its own,
  until the lookup is fetched again.

### Bounds

`MaxBookings` (3 to 4), the users and the capacities bound the data;
`MaxFaults` the faults. Three bookings are the least for which a reconciliation
has both a seat to give and somebody passed over; four with capacity 1..2 give
two on each side of the boundary. Two actors suffice for every pair of steps to
race. Page limits of 100 and 1000 are far above these bounds, so no passing run
meets them: a short list breaks `SelfCorrection`, and `CompleteLists`, the
assumption of its theorem, names exactly this gap. Likewise creation times are
apart in every run of `Bookings`; ties are `CapacityLoop`'s.

`MaxTokens` and `MaxPairs` of 3 allow a sign-in with two rotations, or two
sign-ins and a rotation between them: a spent token, its successor and a foreign
one exist at once. Two requests are enough for one to be refused late, after the
refresh of the other has settled, and for their responses to come in either
order. In `phones` two pairs are a sign-in and a rotation, or two sign-ins of
which one follows the other; both clients have one form there, since a
registration stores its pair as a login does, and two forms that overlap are
`crossed`. `MaxLoads` and `MaxTokens` of 2 let each of two tabs load and sign in
again. `MaxStarts` of 2 gives a second mutation while the fetches of the first
are under way, `MaxMisses` one failure or one write of somebody else. The
theorems hold without these bounds.

### Fairness

`FairSpec` of `Bookings` adds `WF_vars(Proceed(a))` for every actor: an event
loop, a server thread or a coroutine scheduler keeps stepping an operation it
has begun, and every call is answered or fails. Nothing is assumed of `Start`
(nobody has to ask for anything) nor of faults. `WaitlistDrains` therefore says
that the operation that freed the seat also fills it; it is checked with one
operation at a time, since a race can leave somebody waiting until the next
operation (`web_oversell` is the other side of that).

`FairSpec` of `ExpoSession` adds `WF_vars(Works)`: as long as a call is under
way, a promise unsettled or a storage call outstanding, one of them goes on. It
assumes nothing of the user, of faults, or of which goes first. `PhoneSpec` says
the same with `WF_phoneVars(PhoneWorks)`: Dart's event loop, or both actors of
Swift, run what is ready, and calls end by an answer or a time-out.

## 4. What the code does otherwise

One disagreement is kept as a run whose property TLC finds violated:

1. `web_oversell`: a booking can be created between the two list reads of
   another's reconciliation, and both operations end with one confirmed too
   many. The comments promise a race "self-corrects"; it does at the *next*
   operation (`SelfCorrection`), not at the end of this one.

Met with the same modules and not kept as runs.

About bookings and events:

* Saving another capacity reconciles nothing except on Flutter, while the web
  page says the change is "re-checked" against existing bookings
  (`web/src/app/events/[id]/edit/page.tsx:66` against `:28`).
* C# reconciles with `int.MaxValue` when a booking of a deleted event is
  cancelled (`Pages/Bookings.cshtml.cs:97`), which confirms its whole waitlist.
* A Ruby cancellation whose token expires after its write is run again, finds
  the booking cancelled and promotes nobody (`bookings_routes.rb:28-34`).
* A double submission passes C#'s server-side check (`Detail.cshtml.cs:72-75`),
  and in the clients Book is offered again before the lookup has its next answer.
* A reconciliation after a check-in gives the attendee's place away although
  `capacity.ts:22-25` excludes `checked_in` so that it is not.
* Page limits of 1000 (100 on Python and Ruby) stand against capacities up to
  100000; Go's and the clients' lookup is unordered; PHP reports the initial
  status (`BookingController.php:132`) and compares whole seconds
  (`CapacityReconciler.php:50`); Go's sequential corrections can bring a
  cancelled booking back (`capacity.go:68`); Swift's failed cancellation shows
  an error although the write happened.
* A Flutter list of bookings takes every event it fails to read for a deleted one
  (`my_bookings_controller.dart:45-54`): a booking cancelled from there frees a
  seat that nobody is given until the next reconciliation.
* Pressing the button again after a failed creation creates a second event.

About pages:

* The entry of a created or saved event is written after the mutation's
  `onSuccess` (`edit/page.tsx:45`, `edit.tsx:40`), and nothing invalidates the
  feed after it: a feed opened before is taken for fresh without the user's own
  entry.
* A deletion that the backend carried out and whose answer is lost is reported as
  failed, and the event's cached copy stays (`OrganizerActions.tsx:16-25`).

About tokens and sessions:

* Expo's `logout` clears the tokens once (`client.ts:197`); a refresh under way
  stores its new pair afterwards, and the next start restores it. The comment
  says logout will "always clear local tokens regardless" (`client.ts:195`).
* A Flutter request refused while a failed refresh still deletes the two keys
  begins a refresh of its own with the token it yet finds there, and the
  signed-out application ends with a new pair (`auth_controller.dart:97-101`
  against the comment at `:76-81`).
* Swift clears the tokens when the refresh call itself cannot reach the backend
  (`AccessTokenCoordinator.swift:32-35`); a start with an expired access token
  and no network thus loses a good refresh token, which `SessionStore.swift:44-48`
  sets out to keep. A request refused late is sent again as whoever has signed in
  by then. A login whose `currentUser` fails reports a failure and keeps the
  tokens.
* Expo's sign-out button stays enabled while a sign-out is under way
  (`AppHeader.tsx:35`), and each press clears the tokens when its call is over
  (`client.ts:191-199`) and takes the user off the screen when they are stored
  (`authStore.ts:67`). When somebody signs in between the answers to two presses,
  it depends on which writes end first whether the screen shows the new session
  without tokens, or nobody while its tokens stay.
* An Expo request refused late, after the shared refresh has settled, sends a
  refresh of its own: `client.ts:123-129` shares only what is under way. It
  presents the new token, so nothing is lost but a call.
* C#'s calls of one page that run at once each spend the same refresh token
  (`CapacityService.cs:60-74`, `Index.cshtml.cs:53`, `Bookings.cshtml.cs:48`);
  the second ends the sign-in. A sign-in whose second call breaks leaves tokens
  without a user.
* A sign-in that the backend has ended stays in the session of C#
  (`TokenRefreshHandler.cs:17-20`) and Go until somebody signs out. PHP's front
  controller empties the session only where no controller catches the error
  (`index.php:42-49`); where one does, it stays, against the comment at
  `bootstrap.php:36-38`.
* C#'s `LogoutAsync` catches `HttpRequestException` alone: a sign-out whose call
  times out is answered by the error page and keeps tokens and user, against its
  comment "the browser's session is cleared regardless"
  (`MudbaseAuthService.cs:92-105`).
* An Expo start whose session answer names no user shows nobody and keeps the
  tokens it has restored (`client.ts:209`, `authStore.ts:41-49`).
* On Java a request that began before a sign-out and refreshes after it writes
  the session back; on Python and Ruby the cookie of any overlapping response
  does.
* On Python an error no route catches is answered without the cookie, so a
  rotation just made is lost (`bookings.py:81,89,124,137,163`, `events.py:284`).

## 5. Proofs

All proofs are checked by TLAPS. Those about `Bookings` hold for any `Actors`,
`Users`, `PortOf` (any record of `PortProfile`, not the ten alone),
`MaxBookings`, `Capacities`, `Ops`, `Faults` and `MaxFaults`; those about
`CapacityLoop` for any number of bookings, instants and capacities; those about the
sessions for any requests, tabs, sign-outs, users, tokens and faults.

* **`WalkIsSeating`** (`CapacityLoop_proofs`): `LoopSpec => []WalkAgrees`. The
  sort puts an entry where as many entries come before it; as it orders the
  entries strictly, every place is taken once (`Places`, by counting alone).
  Before an entry come the bookings of its own list created earlier, and those of
  the other list its time tells apart (`Counted`). So its place is the index
  `Seating` counts (`Queue`), and what the walk has decided after `index` entries
  is what the first `index` places call for (`Walking`). With this the list of
  the code and the sets of `Seating`, which `Bookings` corrects by, are one thing.
* **`WalkIsOneWay`**: `LoopSpec => []NeverBothWays`: as a confirmed booking it has
  no more entries ahead of it than as a waitlisted one (`OneWay`).
* **`SecondWalkIsIdle`**: `LoopSpec => []SecondPassIsIdle`. After a walk over
  lists without a booking in common, the confirmed bookings are the first of the
  list: no later than any other, and as many as there are seats unless nobody
  waits (`SecondPass`).
* **`PassSettles`** (`Bookings_proofs`): over two disjoint lists with times that
  tell bookings apart, one pass moves exactly the bookings it must; afterwards
  `Entitled` holds. From `IndexIsPlace`: the index in the concatenation is the
  number of live bookings ahead, a counting argument over two disjoint sets.
  `EarliestNotDemoted`, on lists that may overlap or miss bookings, says a pass
  never demotes one of the first `capacity` if none of them is on its waitlist.
* **`Typed`**: `Spec => []TypeOK`. `TypeOK` is not inductive, since an activity
  entry is indexed by the booking in hand; `Sound` adds `FitsAt`, which says at
  which steps a handler has which operation, booking and capacity.
* **`EarliestSeats`**: assuming `OnlyBookings` (no actor cancels, checks in,
  edits or deletes), `Spec => []EarliestSeatsKept`, with races, failures and
  replays. The invariant `Kept` adds what handlers have already decided and not
  yet done: no captured capacity is outdated, no list holds one of the first
  `capacity` as waitlisted, no correction demotes one, and a booking about to be
  created waitlisted will have `capacity` ahead of it. The step that matters is
  `Count`: fewer bookings than `capacity` means all are confirmed or counted, so
  the newcomer is confirmed.
* **`Corrected`**: assuming `CompleteLists` (creation times that tell every two
  bookings apart, page limits no smaller than the number of bookings), `Spec => []SelfCorrection`, under every
  operation and fault. `Settled` follows an undisturbed reconciler: the list it
  has read is current, and the corrections still outstanding lead from the
  present seats to the right ones. `PassSettles` establishes it at the last read
  and each `Fix` moves one booking from outstanding to done. The assumption is
  needed: with a short list, or two bookings in the second to which PHP truncates
  their times, the property is false.

The second half of `Bookings_proofs` is about operations that come one after
another (`OneAtATime`),
for any number of actors of any ports. The records of the handlers are where the
work is: one lemma per action says what it makes of its handler's record
(`GateRecord`, `CountRecord`, ...), and `StepMakes` gathers them, with what each
leaves of the shared state, into one disjunction from which every later step
starts. `Alone` says that an idle handler holds nothing and that at most one is
busy. On it rest, each with the assumptions the property needs and no others:

* **`EndedForGood`**: `Spec => EndedStaysEnded`, under any faults. `Held` says
  that the booking a handler is about to overwrite is still what it was when the
  handler looked: its lists are part of the present ones, its promotions wait
  and its demotions are confirmed.
* **`TruthfulAnswers`**: `Spec => []ReportIsCurrent`, under any faults, where no
  port answers with the status a booking was created with (`ReadsAgain`; PHP does).
* **`DeletedForGood`**: `Spec => DeletedEventIsInert`, under any faults, where
  every port that cancels notices that the event is gone (`DeletionIsNoticed`;
  C# does not and reconciles without a bound). `Inert` says how far an operation
  on a deleted event can get.
* **`FeedKeptCurrent`**: `Spec => []FeedIsCurrent` without faults. `Owing` says
  that the feed lacks only what the busy handler is still going to report, and
  that what it is going to report is what the booking has become: the status it
  has just written, or the corrections whose entries are outstanding.
* **`OneBookingEach`**: `Spec => []OneActiveBooking` without faults, where no
  gate takes whichever booking of the user comes first (`OrderedLookups`; web,
  Expo and others do). `Superseded` says that all of a user's bookings but the newest
  are cancelled, and all of them once a new booking has passed its gate; so the
  newest speaks for all of them (`GateSays`).
* **`SeatsFall`**: `Spec => []SeatsAtRest` under refreshed tokens, assuming
  `NoCheckIns`, `CompleteLists`, `EditsReconcile` (an event is saved on ports
  that reconcile it then) and `NothingAbandoned` (no call fails for good, and no
  cancellation begins again with the check it has already passed: Ruby's does,
  finds its own cancellation and stops before it reconciles). `Placed` says, for
  every step of every operation, how far the seats can be from where they should
  be (`SeatsAt`): in order while a booking is looked at, counted and created,
  since a newcomer is confirmed only when nobody waits (`NewcomerEntitled`);
  nobody beyond the capacity (`Seated`) while a cancellation or a check-in is
  there; anything between the write of an edit and its last correction. Each is
  restored by the reconciliation, by `Settled`, whose corrections of a booking
  are then none and of a cancellation promotions alone (`NothingToCorrect`,
  `NobodyToPutBack`).
* **`NobodyBeyondCapacity`**: `Spec => []NotOversold`, with check-ins and with
  deleted events if the ports that cancel notice them. A check-in takes a
  booking out of the line, so `Entitled` may be lost but not `Seated`; `Within`
  adds that a deleted event keeps what it had but for what is cancelled.
* **`SeatsAreKept`**: `Spec => NeverDemoted`, under the conditions of both.
* **`BookingsKeepTheLine`**: `Spec => KeepsTheLine`, the refinement of
  `Waitlist`, step by step: `Create` joins (`Superseded` gives that the user is
  not in the line), `Patch` leaves or admits (`Placed` gives that who is let in
  has a seat), `Save` resizes, a correction moves nobody in the line (`Held`),
  and everything else leaves it alone. Without faults, under the assumptions of
  the invariants it combines.

The assumptions are about what the actors are asked and which ports they run, and
each names ports of the ten that meet it and, where it is not met, the behaviour that
then breaks the property (section 4). The instances `taking_turns` and
`at_the_door` satisfy them.

The last part of `Bookings_proofs` is about the end of operations, for any actors
of any ports, whatever interleaves and whatever faults there are:

* **`OperationsAreBounded`**: `Spec => [][OnlyCostsFuel]_vars`. `Fuel(a)` is how
  much actor `a` has left to do: the steps of its operation from where it stands
  (`Remaining`), twice the corrections outstanding, the entries to be written, and,
  for every fault still to come, a whole operation, since a fault can make it begin
  again. Each step of `a` lowers it (`OwnStepCosts`); nobody else raises it
  (`OtherStepCosts`), because a handler works on the lists it has read however many
  bookings the others make meanwhile.
* **`SomeStepIsOpen`**: `Spec => []NobodyStuck`. Where a handler's step waits for
  something, it is there: the number of a booking about to be created (`Posed`
  counts the bookings under way that have none yet against those left), a list
  whose turn it is, a correction next in turn.

These are what `OperationsEnd` needs besides fairness: each step an actor takes
lowers a natural number that nothing raises, and until it is idle one is open to
it. The inference from there to `OperationsEnd` itself is by `ENABLED` and left to
TLC.

* **`SessionTypes`** (`ExpoSession_proofs`): `Spec => []TypeOK`. `Named` adds
  that a token whose session is asked for was issued.
* **`RotationIsSafe`**: `Spec => []ReuseNeedsALoss`. A refresh token is good
  when it is still to be spent or its session is over anyway. Before a loss, and
  while no refresh is under way or it has not been served, every refresh token
  in memory, in the storage and in the writes still to be done is good
  (`Careful`). A rotation makes one of them bad; before the refresh is over its
  successor has replaced it in memory, and, since the storage takes its calls in
  order, in the storage too, whatever a sign-in or sign-out writes in between.
* **`SignedOutHoldsNothing`** and **`ShownSessionIsHeld`**: `Spec =>
  []SignOutIsFinal` and `Spec => []ShownIsHeld`, for any presses of sign-out. As
  long as nothing crossed, the last two writes to come are of the tokens memory
  holds (`Follows`), whoever queued them; those are two of one session or none;
  and it is the session of the screen, or the one a start or a sign-in under way
  will put there, until a sign-out that is not over clears them (`Agreed`).
* **`FlutterTypes`** and **`FlutterRotationIsSafe`** (`Phones_proofs`):
  the same two of Flutter. Its storage is the only copy a refresh reads, and its
  two keys are written one after the other by sign-ins, sign-outs and refreshes
  that interleave. What is stored is good, or it is the token a refresh has just
  spent and will replace (`Kept`); the token of a sign-in that is still being
  stored is in one place only (`FreshApart`), so no refresh spends it before;
  everybody else who touches the storage empties it (`Cleared`).
* **`FlutterKeepsOneSession`**: `Spec => []OneSession`, the Flutter half of
  `OneSessionOnPhone`. As long as nothing overlapped and no key differed
  (`Agreed`), whoever writes the storage brings it to what memory holds
  (`Follows`), and otherwise storage and screen are of the token in memory
  (`Settled`); a start asks for the user with what it finds (`Restores`), and a
  refresh spends the token in memory for one of the session shown (`Renews`).
* **`SwiftTypes`** and **`SwiftRotationIsSafe`** (`SwiftSession_proofs`),
  assuming `SwiftConstants` (the names of the callers differ): the same again,
  with two actors writing the Keychain key by key and writes that fail unnoticed.
  `Led` adds that while the refresh task is under way who began it waits, so that
  it is not forgotten, and no second one begun, before it is over. The variables
  of the two clients are the same in `MCPhones`.
* **`SwiftKeepsOneSession`**: `Spec => []OneSession`, the Swift half. As long as
  nothing overlapped and no key differed (`Agreed`), the coordinator and the main
  actor do not write at the same time (`Apart`), and after a refresh that failed
  no other one begins before the tokens are gone (`Clears`). Whoever writes brings
  both keys to one token and then the header to it (`Follows`); otherwise the
  Keychain holds what the header does (`Settled`). A refresh spends the token of
  the header for one of its session (`Renews`), and the screen shows that session,
  or a start or form under way will show it (`Shows`).
* **`PhoneRotationIsSafe`** and **`PhoneKeepsOneSession`** (`Phones_proofs`):
  `PhoneSpec => []ReuseNeedsALoss` and `PhoneSpec => []OneSessionOnPhone`, the two
  properties as the run `phones` checks them. A phone goes on running the
  application it runs, from that one's initial states and by its steps
  (`FlutterPhone`, `SwiftPhone`); so Flutter's theorems hold of it as they stand,
  and Swift's through an instance of `SwiftSession_proofs`, since the two clients
  have the same variables.
* **`WorkIsBounded`**, **`FlutterWorkIsBounded`**, **`SwiftWorkIsBounded`**:
  `Spec => [][OnlyMovesOn]_vars`, in each of the three phone clients. `Rank` counts
  how far a call is from its end; a refused call ranks above its second attempt,
  which is not retried again. A call under way goes back only by a kill, of which
  there are at most `MaxFaults`; and each step of `Works` lowers the rank of a call,
  or leaves the calls alone and brings the refresh nearer to its end (`Stage`, on
  Expo and Flutter) or does one of the writes still to be done (Expo). On Swift the
  refresh task is ranked like a call.
* **`SomeWorkIsReady`**, **`FlutterWorkIsReady`**, **`SwiftWorkIsReady`**: `Spec =>
  []NobodyStuck`. Whoever waits for a shared refresh waits for one that is under
  way: one that failed, was refused, had nothing to read or could not be saved has
  woken everybody (`Staged`). Until all is at rest something is ready
  (`Ready`, the guards of what is left); on Swift also the actor it needs is free,
  and a refresh in flight is never one whose beginner has gone (`Flies`).

As with `OperationsEnd`, the two are what `ComesToRest` and `PhoneRests` need
besides fairness: between two things that are asked for, or two kills, only so many
steps can be taken, and one more is ready until the client is at rest. The
inference by `ENABLED` is left to TLC.

* **`WebTypes`** (`WebSession_proofs`): `Spec => []TypeOK`.
* **`WebLeavesNothing`**: `Spec => []NothingLeftBehind`. The stronger
  `StoredIsHeld`, that some tab holds the token that is stored, is inductive: a
  tab writes the storage only together with its own token, removes what is
  stored whenever it drops its token, and a loaded page takes what it finds.
* **`WebCheckClearsItsOwn`**: `Spec => CheckClearsItsOwn`. `Checking` says that
  while the check of a page's start is under way its tab is loading, shows no
  session and has begun nothing else, and that flows of a tab that never
  overlapped come one after another, each check with the token that is held.
* **`WebShownIsHeld`**: `Spec => []ShownIsHeld`. `Showing` adds that a tab that
  is not at rest either has a check under way or shows what it holds; `Checking`
  says that such a check was sent with the token the tab still holds.
* **`ServerTypes`** (`ServerSession_proofs`): `Spec => []TypeOK`. The invariant
  `Sane` adds that nothing holds a pair that was not handed out (`Known`), that
  the sign-in of a pair began with one that was (`Rooted`), and how the calls of
  a request follow one another (`Ordered`).
* **`ServerUserOwnsTokens`**: `Spec => []UserOwnsTokens`. `UserOwnsTokens` speaks
  of the stored session; `Owning` says the same of every copy a request works
  on, and of the answer to a refresh together with the session it will be
  written into (on Java the one read before). The copy of a C# sign-in between
  its two calls is the one exception (`Asking`), and `Ordered` shows that it is
  never stored so.
* **`ServerSignOutSticks`**: `Spec => []SignOutSticks`. `Leaving` adds that after
  a sign-out the user was told of (`SignsOut`: all but those of C# that timed out)
  every request under way is a sign-in or was under way at the time:
  a page needs a session to begin with.
* **`ServerRefreshesAreTaken`** and **`ServerPagesAreServed`**: `Spec =>
  []AloneIsRefreshed` and `Spec => []AloneIsServed`. `Undisturbed` says that, as
  long as no two requests overlapped, no rotated pair was lost and no C# sign-out
  the backend heard timed out, one request is
  under way at a time and works on the stored session or on what it has changed
  it to (`Holding`): its pair is unspent and its sign-in goes on, or the request
  waits for the one answer that brings such a pair, or it is a sign-out whose
  call is over. Between requests the stored pair is such a one.
* **`PagesTyped`**, **`PagesShowOwnWrites`**, **`DeletedLeavesThePages`**,
  **`RebookingNeedsAGap`** (`EventPages_proofs`): the four properties of
  `event_pages`, for any settings, number of mutations at once, of mutations and
  of failures. One invariant, `Inv`, carries them. `Staged` says how far a
  handler is and what it has written. `Sounds` says of each query that nothing
  overtook that neither its fresh data nor the answer it waits for is older than
  the user's last settled write about it. `Removed`: while the event is gone,
  a deletion is yet to settle and will remove the cached copy, its answer was lost
  (`unanswered`), or every save yet to settle is `Late`. The entry of a saved event
  counts as a write of the user like any other; what it finds fresh or under way it
  overtakes. `BookingSeen`: an answer that tells the user free
  is older than the write of a booking held, whose handler goes on or has settled.

Every safety property of the passing runs is stated by a theorem.
Only model-checked: liveness under fairness (`WaitlistDrains`, `OperationsEnd`,
`ComesToRest`, `PhoneRests`) and `ENABLED`, which are out of the prover's reach.
No module declares a `RECURSIVE` operator, and no proof needs induction over data:
the sort is stated by the place of each entry.

## 6. Not modelled

The roles and ownership guards (planned, below); the fields of an event other than
its capacity, so two edits that overwrite each other; a second event created by
pressing the button again; listings, paging of events and of the feed
(read-only); templates, forms, styling, the camera (device input and rendering);
generated SDKs, build files and configuration (not this code).

Left out of the sessions of the phones: a read of the storage that fails; an
answer to a sign-in or a refresh that carries no refresh token; on Swift the
two steps of storing one key (delete, then add) and a data race on the header,
which the SDK does not guard. The web client's token refresh never runs (see
`WebSession`).

## 7. Plan

Done: the reconciliation and the operations (`Seating`, `CapacityLoop`, `Ports`,
`Bookings`, `Waitlist`), the sessions (`ExpoSession`,
`FlutterSession`, `SwiftSession`, `WebSession`, `ServerSession`), the pages
(`EventPages`); twelve runs, forty-nine theorems.

Next: `Roles`, the table of operations against roles and ownership, port by port.
