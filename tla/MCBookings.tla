----------------------------- MODULE MCBookings -----------------------------
(***************************************************************************)
(* Instances of Bookings for TLC.  An instance names the actors and what   *)
(* is asked of each; the bounds are in the .cfg files.                     *)
(***************************************************************************)
EXTENDS Bookings, TLC

CONSTANTS u1, u2, u3, u4

ThreeUsers == {u1, u2, u3}
FourUsers == {u1, u2, u3, u4}

\* Users are interchangeable: no definition names one.
UserSymmetry == Permutations(Users)

\* One actor of each port, named for it.
PortNamed ==
  "web" :> Web @@ "expo" :> Expo @@ "flutter" :> Flutter @@ "swift" :> Swift @@ "go" :> Go
    @@ "java" :> Java @@ "csharp" :> CSharp @@ "php" :> Php @@ "python" :> Python @@ "ruby" :> Ruby

EveryPort == DOMAIN PortNamed
OrderedGates == {p \in EveryPort : PortNamed[p].book.lookup.answer # "any"} \ {"php"}
Replaying == {"flutter", "python"}
WebAndGo == {"web", "go"}
FlutterSwiftAndGo == {"flutter", "swift", "go"}
Named == [a \in Actors |-> PortNamed[a]]

\* Two tabs of the web client.
TwoTabs == {"tab1", "tab2"}
TabsOfWeb == [a \in TwoTabs |-> Web]

\* What is asked of the actors.
Booking == [a \in Actors |-> {"book"}]
BookingAndCancelling == [a \in Actors |-> {"book", "cancel"}]
BookingCancellingAndEditing == [a \in Actors |-> {"book", "cancel", "edit"}]

\* Events are edited on the port that reconciles them then, and C# cancels no
\* booking of an event that may be deleted.
TakingTurns ==
  [a \in Actors |->
     {"book", "delete"} \union IF a = "csharp" THEN {} ELSE {"cancel"}
       \union IF PortOf[a].edit.reconciles THEN {"edit"} ELSE {}]

AtTheDoor ==
  [a \in Actors |->
     {"book", "cancel", "checkin"} \union IF PortOf[a].edit.reconciles THEN {"edit"} ELSE {}]

\* Creation times: all in different seconds.
Apart == [i \in 1..MaxBookings |-> i]
============================================================================
