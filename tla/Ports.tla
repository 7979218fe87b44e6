------------------------------- MODULE Ports -------------------------------
(***************************************************************************)
(* The ten ports of the application run against one backend project and    *)
(* one set of collections, and write the same bookings.  They share the    *)
(* steps of an operation and differ in the points this module names, each  *)
(* definition read from one port's source.                                 *)
(***************************************************************************)
EXTENDS Naturals

Status == {"confirmed", "waitlisted", "cancelled", "checked_in"}

Live == {"confirmed", "waitlisted"}

\* How the user's own bookings hide the Book control.
\*   answer  the bookings looked at: any one (a query of limit 1 that names no
\*           order), the newest, or every one that is not cancelled
\*   lost    whether a lookup that failed leaves the control open or shut
LookupProfile == [answer : {"any", "newest", "live"}, lost : {"open", "shut"}]

\* How Book decides and answers.
\*   first   which is read first, the event or the user's own booking
\*   lookup  the question whether the user has a booking already
\*   report  what the booker is told: the booking read again, the status it
\*           was first written with, or nothing
BookProfile ==
  [first : {"event", "gate"}, lookup : LookupProfile,
   report : {"reread", "initial", "none"}]

\* How Cancel proceeds from a booking its page lists.
\*   refetch  the handler reads the booking again, and accepts those statuses
\*   event    the event (its capacity) is read before the write, or after it
\*   gone     on a deleted event: give up, cancel without reconciling, or
\*            reconcile as if the capacity were unbounded
\*   lost     an event that could not be read is an error, or taken for deleted
CancelProfile ==
  [refetch : BOOLEAN, accepts : SUBSET Status,
   event : {"before", "after"}, gone : {"abort", "skip", "unbounded"},
   lost : {"error", "gone"}]

\* How the capacity reconciliation proceeds.
\*   reads    its two lists are requested at once, or one after the other
\*   fixes    and so its corrections
\*   onError  a failed correction stops the ones behind it, lets the others
\*            run to their end, or cancels them
\*   limit    the largest number of bookings one list returns
\*   exact    creation times are compared as they are, not in whole seconds
ReconcileProfile ==
  [reads : {"parallel", "sequential"}, fixes : {"parallel", "sequential"},
   onError : {"abort", "finish", "cancel"}, limit : Nat, exact : BOOLEAN]

\* What saving an event does about the bookings it already has.
EditProfile == [reconciles : BOOLEAN]

\* Where an operation resumes after the backend refused its access token: at
\* the refused call, or at an earlier step when the port runs a whole block
\* of calls again.
RetryProfile ==
  [book : {"here", "count"}, cancel : {"here", "find", "patch"},
   checkin : {"here", "find", "patch"}, edit : {"here", "save"}]

PortProfile ==
  [book : BookProfile, cancel : CancelProfile, reconcile : ReconcileProfile,
   edit : EditProfile, retry : RetryProfile]

EveryCallRetried ==
  [book |-> "here", cancel |-> "here", checkin |-> "here", edit |-> "here"]

----------------------------------------------------------------------------
\* Next.js, in the browser.
WebLookup == [answer |-> "any", lost |-> "open"]
WebBook == [first |-> "event", lookup |-> WebLookup, report |-> "reread"]
WebCancel ==
  [refetch |-> FALSE, accepts |-> Live, event |-> "before", gone |-> "abort", lost |-> "gone"]
WebReconcile ==
  [reads |-> "parallel", fixes |-> "parallel", onError |-> "finish", limit |-> 1000, exact |-> TRUE]
WebEdit == [reconciles |-> FALSE]
\* The web client stores no refresh token: a refused call is a failed one, and no
\* operation resumes anywhere else.
WebRetry == EveryCallRetried
Web == [book |-> WebBook, cancel |-> WebCancel, reconcile |-> WebReconcile,
        edit |-> WebEdit, retry |-> WebRetry]

\* Expo, on the phone: the web client's hooks over another HTTP client.
ExpoLookup == [answer |-> "any", lost |-> "open"]
ExpoBook == [first |-> "event", lookup |-> ExpoLookup, report |-> "reread"]
ExpoCancel ==
  [refetch |-> FALSE, accepts |-> Live, event |-> "before", gone |-> "abort", lost |-> "gone"]
ExpoReconcile ==
  [reads |-> "parallel", fixes |-> "parallel", onError |-> "finish", limit |-> 1000, exact |-> TRUE]
ExpoEdit == [reconciles |-> FALSE]
ExpoRetry == EveryCallRetried
Expo == [book |-> ExpoBook, cancel |-> ExpoCancel, reconcile |-> ExpoReconcile,
         edit |-> ExpoEdit, retry |-> ExpoRetry]

\* Flutter: the one port that reconciles when an event is saved; a refused
\* token runs the whole operation again.
FlutterLookup == [answer |-> "live", lost |-> "shut"]
FlutterBook == [first |-> "event", lookup |-> FlutterLookup, report |-> "reread"]
FlutterCancel ==
  [refetch |-> FALSE, accepts |-> Live, event |-> "before", gone |-> "skip", lost |-> "gone"]
FlutterReconcile ==
  [reads |-> "parallel", fixes |-> "parallel", onError |-> "finish", limit |-> 1000, exact |-> TRUE]
FlutterEdit == [reconciles |-> TRUE]
\* A faulty variant: the cancellation run again begins with a check.
FlutterRetryChecking ==
  [book |-> "count", cancel |-> "find", checkin |-> "find", edit |-> "save"]
FlutterRetry == [book |-> "count", cancel |-> "patch", checkin |-> "find", edit |-> "save"]
Flutter == [book |-> FlutterBook, cancel |-> FlutterCancel, reconcile |-> FlutterReconcile,
            edit |-> FlutterEdit, retry |-> FlutterRetry]

\* Swift: structured concurrency cancels the sibling corrections of a failed one.
SwiftLookup == [answer |-> "newest", lost |-> "open"]
SwiftBook == [first |-> "event", lookup |-> SwiftLookup, report |-> "reread"]
SwiftCancel ==
  [refetch |-> FALSE, accepts |-> Live, event |-> "before", gone |-> "abort", lost |-> "error"]
SwiftReconcile ==
  [reads |-> "parallel", fixes |-> "parallel", onError |-> "cancel", limit |-> 1000, exact |-> TRUE]
SwiftEdit == [reconciles |-> FALSE]
SwiftRetry == EveryCallRetried
Swift == [book |-> SwiftBook, cancel |-> SwiftCancel, reconcile |-> SwiftReconcile,
          edit |-> SwiftEdit, retry |-> SwiftRetry]

\* Go, rendered on the server.
GoLookup == [answer |-> "any", lost |-> "shut"]
GoBook == [first |-> "gate", lookup |-> GoLookup, report |-> "reread"]
GoCancel ==
  [refetch |-> TRUE, accepts |-> Status, event |-> "before", gone |-> "abort", lost |-> "error"]
GoReconcile ==
  [reads |-> "sequential", fixes |-> "sequential", onError |-> "abort", limit |-> 1000, exact |-> TRUE]
GoEdit == [reconciles |-> FALSE]
GoRetry == EveryCallRetried
Go == [book |-> GoBook, cancel |-> GoCancel, reconcile |-> GoReconcile,
       edit |-> GoEdit, retry |-> GoRetry]

\* Java: cancelling a cancelled booking does nothing; the event is read last.
JavaLookup == [answer |-> "live", lost |-> "shut"]
JavaBook == [first |-> "gate", lookup |-> JavaLookup, report |-> "reread"]
JavaCancel ==
  [refetch |-> TRUE, accepts |-> Status \ {"cancelled"},
   event |-> "after", gone |-> "skip", lost |-> "gone"]
JavaReconcile ==
  [reads |-> "sequential", fixes |-> "sequential", onError |-> "abort", limit |-> 1000, exact |-> TRUE]
JavaEdit == [reconciles |-> FALSE]
JavaRetry == EveryCallRetried
Java == [book |-> JavaBook, cancel |-> JavaCancel, reconcile |-> JavaReconcile,
         edit |-> JavaEdit, retry |-> JavaRetry]

\* C#: the event of a cancelled booking may be gone, and its capacity is then
\* taken for int.MaxValue.
CSharpLookup == [answer |-> "newest", lost |-> "shut"]
CSharpBook == [first |-> "event", lookup |-> CSharpLookup, report |-> "reread"]
CSharpCancel ==
  [refetch |-> TRUE, accepts |-> Status, event |-> "before", gone |-> "unbounded", lost |-> "error"]
CSharpReconcile ==
  [reads |-> "parallel", fixes |-> "parallel", onError |-> "finish", limit |-> 1000, exact |-> TRUE]
CSharpEdit == [reconciles |-> FALSE]
CSharpRetry == EveryCallRetried
CSharp == [book |-> CSharpBook, cancel |-> CSharpCancel, reconcile |-> CSharpReconcile,
           edit |-> CSharpEdit, retry |-> CSharpRetry]

\* PHP: tells the booker the status it wrote, and sorts by whole seconds.
PhpLookup == [answer |-> "newest", lost |-> "shut"]
PhpBook == [first |-> "gate", lookup |-> PhpLookup, report |-> "initial"]
PhpCancel ==
  [refetch |-> TRUE, accepts |-> Status, event |-> "before", gone |-> "abort", lost |-> "error"]
PhpReconcile ==
  [reads |-> "sequential", fixes |-> "sequential", onError |-> "abort", limit |-> 1000, exact |-> FALSE]
PhpEdit == [reconciles |-> FALSE]
PhpRetry == EveryCallRetried
Php == [book |-> PhpBook, cancel |-> PhpCancel, reconcile |-> PhpReconcile,
        edit |-> PhpEdit, retry |-> PhpRetry]

\* Python: lists of at most 100, and whole operations run again.
PythonLookup == [answer |-> "any", lost |-> "shut"]
PythonBook == [first |-> "event", lookup |-> PythonLookup, report |-> "reread"]
PythonCancel ==
  [refetch |-> TRUE, accepts |-> Live, event |-> "before", gone |-> "abort", lost |-> "error"]
PythonReconcile ==
  [reads |-> "parallel", fixes |-> "parallel", onError |-> "finish", limit |-> 100, exact |-> TRUE]
PythonEdit == [reconciles |-> FALSE]
PythonRetry == [book |-> "count", cancel |-> "patch", checkin |-> "find", edit |-> "here"]
Python == [book |-> PythonBook, cancel |-> PythonCancel, reconcile |-> PythonReconcile,
           edit |-> PythonEdit, retry |-> PythonRetry]

\* Ruby: the block that runs again for a cancellation begins with its check.
RubyLookup == [answer |-> "any", lost |-> "shut"]
RubyBook == [first |-> "gate", lookup |-> RubyLookup, report |-> "none"]
RubyCancel ==
  [refetch |-> TRUE, accepts |-> Live, event |-> "before", gone |-> "skip", lost |-> "error"]
RubyReconcile ==
  [reads |-> "sequential", fixes |-> "sequential", onError |-> "abort", limit |-> 100, exact |-> TRUE]
RubyEdit == [reconciles |-> FALSE]
RubyRetry == [book |-> "count", cancel |-> "find", checkin |-> "patch", edit |-> "save"]
Ruby == [book |-> RubyBook, cancel |-> RubyCancel, reconcile |-> RubyReconcile,
         edit |-> RubyEdit, retry |-> RubyRetry]

AllPorts == {Web, Expo, Flutter, Swift, Go, Java, CSharp, Php, Python, Ruby}
============================================================================
