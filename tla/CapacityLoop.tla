---------------------------- MODULE CapacityLoop ----------------------------
(***************************************************************************)
(* The reconciliation as the code computes it: two fetched lists, each     *)
(* oldest first, are concatenated, sorted stably by creation time, and     *)
(* walked once with an index.  Seating states the outcome with sets and    *)
(* cardinalities; this module walks the list, for every pair of lists a    *)
(* race may deliver (a booking in both, or in neither) and for creation    *)
(* times that tie.                                                         *)
(***************************************************************************)
EXTENDS Seating, Sequences

CONSTANTS
  MaxBookings,    \* bound: bookings a list may hold
  Instants,       \* the creation times a sort compares
  Capacities

ASSUME LoopAssumption ==
  MaxBookings \in Nat /\ Instants \subseteq Nat /\ Capacities \subseteq Nat \ {0}

VARIABLES
  confirmed, waitlisted,    \* what the two queries returned
  at,                       \* creation times, in the order of creation
  capacity,
  live,                     \* the sorted list
  index,                    \* entries visited
  promoted, demoted         \* the corrections decided so far

inputs == <<confirmed, waitlisted, at, capacity>>
loopVars == <<confirmed, waitlisted, at, capacity, live, index, promoted, demoted>>

Bookings == 1..MaxBookings

\* One query's answer: sorted by creation, its entries carrying their status.
Fetched(S, status) ==
  [k \in 1..Cardinality(S) |->
     [id |-> CHOOSE i \in S : Ahead(S, i) = k - 1, status |-> status]]

\* Entry p of the list comes before entry q: it was created earlier, or the
\* times tie and the concatenation has it first.
Before(list, time, p, q) ==
  \/ time[list[p].id] < time[list[q].id]
  \/ time[list[p].id] = time[list[q].id] /\ p < q

\* A faulty variant: ties put the later entry first.
UnstableSort(list, time) ==
  LET before(p, q) == \/ time[list[p].id] < time[list[q].id]
                      \/ time[list[p].id] = time[list[q].id] /\ p > q
  IN [k \in DOMAIN list |->
        list[CHOOSE p \in DOMAIN list :
               Cardinality({q \in DOMAIN list : before(q, p)}) = k - 1]]

\* A stable sort by creation time: each entry goes where as many come before it.
SortedByCreation(list, time) ==
  [k \in DOMAIN list |->
     list[CHOOSE p \in DOMAIN list :
            Cardinality({q \in DOMAIN list : Before(list, time, q, p)}) = k - 1]]

LoopInit ==
  /\ confirmed \in SUBSET Bookings /\ waitlisted \in SUBSET Bookings
  /\ at \in {t \in [Bookings -> Instants] : \A i, j \in Bookings : i <= j => t[i] <= t[j]}
  /\ capacity \in Capacities
  /\ live = <<>> /\ index = 0 /\ promoted = {} /\ demoted = {}

Collect ==
  /\ live = <<>> /\ confirmed \union waitlisted # {}
  /\ live' = SortedByCreation(Fetched(confirmed, "confirmed")
                                \o Fetched(waitlisted, "waitlisted"), at)
  /\ UNCHANGED <<inputs, index, promoted, demoted>>

\* Faulty variants: the boundary is one too far; nobody is promoted.
VisitInclusive ==
  /\ index < Len(live)
  /\ LET booking == live[index + 1]
         shouldBeConfirmed == index <= capacity
     IN /\ promoted' = IF shouldBeConfirmed /\ booking.status # "confirmed"
                         THEN promoted \union {booking.id} ELSE promoted
        /\ demoted' = IF ~shouldBeConfirmed /\ booking.status # "waitlisted"
                        THEN demoted \union {booking.id} ELSE demoted
  /\ index' = index + 1
  /\ UNCHANGED <<inputs, live>>

VisitDemotingOnly ==
  /\ index < Len(live)
  /\ demoted' = IF index >= capacity /\ live[index + 1].status # "waitlisted"
                  THEN demoted \union {live[index + 1].id} ELSE demoted
  /\ index' = index + 1
  /\ UNCHANGED <<inputs, live, promoted>>

Visit ==
  /\ index < Len(live)
  /\ LET booking == live[index + 1]
         shouldBeConfirmed == index < capacity
     IN /\ promoted' = IF shouldBeConfirmed /\ booking.status # "confirmed"
                         THEN promoted \union {booking.id} ELSE promoted
        /\ demoted' = IF ~shouldBeConfirmed /\ booking.status # "waitlisted"
                        THEN demoted \union {booking.id} ELSE demoted
  /\ index' = index + 1
  /\ UNCHANGED <<inputs, live>>

LoopNext == Collect \/ Visit

LoopSpec == LoopInit /\ [][LoopNext]_loopVars

----------------------------------------------------------------------------
Done == index = Cardinality(confirmed) + Cardinality(waitlisted)

(***************************************************************************)
(* The walk decides on exactly the corrections Seating names: the sets     *)
(* Bookings corrects by are the lists of the code, ties, overlaps and all. *)
(***************************************************************************)
WalkAgrees ==
  Done => /\ promoted = Promotions(confirmed, waitlisted, at, capacity)
          /\ demoted = Demotions(confirmed, waitlisted, at, capacity)

(***************************************************************************)
(* A booking that changed status between the two queries may be in both    *)
(* lists; it is never corrected both ways at once.  The corrections run    *)
(* concurrently (capacity.ts:79), so their order would decide.             *)
(***************************************************************************)
NeverBothWays == promoted \intersect demoted = {}

(***************************************************************************)
(* When the lists agree with each other, a second pass right after the     *)
(* first finds nothing to correct, even where creation times tie: two      *)
(* reconcilers do not undo each other's work for ever.                     *)
(***************************************************************************)
SecondPassIsIdle ==
  Done /\ confirmed \intersect waitlisted = {} =>
    LET c == (confirmed \union promoted) \ demoted
        w == (waitlisted \union demoted) \ promoted
    IN Promotions(c, w, at, capacity) = {} /\ Demotions(c, w, at, capacity) = {}
============================================================================
