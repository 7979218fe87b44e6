------------------------------ MODULE Seating ------------------------------
(***************************************************************************)
(* The seat arithmetic every port of the application shares (capacity.ts,  *)
(* capacity.dart, capacity.go, CapacityReconciler.java, ...).              *)
(*                                                                         *)
(* A booking is its position in the order of creation, a natural number.   *)
(* A reconciliation fetches the confirmed bookings and the waitlisted ones *)
(* in two calls, each list oldest first, concatenates them, sorts the      *)
(* result (stably) by creation time and compares each booking's status     *)
(* with its index in that list.  The two lists may have been read at two   *)
(* moments, so a booking that changed status in between may be in both or  *)
(* in neither.  The index of a booking is stated here as the number of     *)
(* entries ahead of it, which needs no list; CapacityLoop compares the     *)
(* definitions with the list walk of the code.                             *)
(***************************************************************************)
EXTENDS Naturals, FiniteSets

\* The members of S created before booking i.
Ahead(S, i) == Cardinality({j \in S : j < i})

\* What a query sorted by creation time returns of S under its page limit.
Oldest(S, limit) == {i \in S : Ahead(S, i) < limit}

(***************************************************************************)
(* The index of a booking of the confirmed list C, and of one of the       *)
(* waitlisted list W, in the sorted concatenation.  at[j] is the creation  *)
(* time of booking j as the sort sees it: entries with equal times keep    *)
(* the order of the concatenation, confirmed list first.                   *)
(***************************************************************************)
ConfirmedIndex(C, W, at, i) ==
  Ahead(C, i) + Cardinality({j \in W : at[j] < at[i]})

WaitlistedIndex(C, W, at, i) ==
  Ahead(W, i) + Cardinality({j \in C : at[j] <= at[i]})

\* Faulty variants: positions counted from one, a boundary one too far, a
\* position among one's own list only, and promotions alone.
DemotionsFromOne(C, W, at, capacity) ==
  {i \in C : ConfirmedIndex(C, W, at, i) + 1 >= capacity}

DemotionsLate(C, W, at, capacity) ==
  {i \in C : ConfirmedIndex(C, W, at, i) > capacity}

NoDemotions(C, W, at, capacity) == {}

PromotionsAmongWaiting(C, W, at, capacity) == {i \in W : Ahead(W, i) < capacity}

\* The bookings a reconciliation moves off the waitlist, and onto it.
Promotions(C, W, at, capacity) ==
  {i \in W : WaitlistedIndex(C, W, at, i) < capacity}

Demotions(C, W, at, capacity) ==
  {i \in C : ConfirmedIndex(C, W, at, i) >= capacity}

(***************************************************************************)
(* What the reconciliation is for: of the live bookings, the first         *)
(* `capacity' hold the confirmed seats and the others wait.                *)
(***************************************************************************)
Entitled(C, W, capacity) ==
  \A i \in C \union W : (i \in C) <=> (Ahead(C \union W, i) < capacity)

\* No booking that holds a seat has a full house ahead of it.
WithinCapacity(C, capacity) == \A i \in C : Ahead(C, i) < capacity
============================================================================
