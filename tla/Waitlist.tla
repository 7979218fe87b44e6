------------------------------ MODULE Waitlist ------------------------------
(***************************************************************************)
(* What the booking of one event promises its attendees: a line.  Joining  *)
(* takes the next place at its end, and nobody stands in it twice.  Who    *)
(* leaves is gone for good.  Whoever has fewer than `capacity' others      *)
(* ahead holds a seat, and only a seat is admitted at the door.  No        *)
(* confirmation, demotion, promotion or reconciliation appears here: they  *)
(* are how Bookings keeps the promise.                                     *)
(***************************************************************************)
EXTENDS Seating

CONSTANTS Ids, Users, Capacities

VARIABLES issued, holder, line, left, admitted, capacity

lineVars == <<issued, holder, line, left, admitted, capacity>>

LineInit ==
  /\ issued = 0
  /\ holder \in [Ids -> {"none"}]
  /\ line = {} /\ left = {} /\ admitted = {}
  /\ capacity \in Capacities

Join(u) ==
  /\ \A i \in line \union admitted : holder[i] # u
  /\ issued + 1 \in Ids
  /\ issued' = issued + 1
  /\ holder' = [holder EXCEPT ![issued + 1] = u]
  /\ line' = line \union {issued + 1}
  /\ UNCHANGED <<left, admitted, capacity>>

Leave(i) ==
  /\ line' = line \ {i}
  /\ left' = left \union {i}
  /\ UNCHANGED <<issued, holder, admitted, capacity>>

Admit(i) ==
  /\ Ahead(line, i) < capacity
  /\ line' = line \ {i}
  /\ admitted' = admitted \union {i}
  /\ UNCHANGED <<issued, holder, left, capacity>>

Resize(c) ==
  /\ capacity' = c
  /\ UNCHANGED <<issued, holder, line, left, admitted>>

LineNext ==
  \/ \E u \in Users : Join(u)
  \/ \E i \in line : Leave(i) \/ Admit(i)
  \/ \E c \in Capacities : Resize(c)

LineSpec == LineInit /\ [][LineNext]_lineVars
============================================================================
