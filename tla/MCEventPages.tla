----------------------------- MODULE MCEventPages -----------------------------
(* Instances of EventPages for TLC.                                        *)
EXTENDS EventPages, TLC

Use(c, r, query) == [client |-> c, role |-> r, watched |-> {query}]

\* Each application in each role.
EveryUse ==
  {Use("web", "organizer", "event"), Use("expo", "organizer", "event"),
   Use("web", "organizer", "activity"),
   Use("web", "attendee", "mine"), Use("expo", "attendee", "bookings")}

\* Mutations are interchangeable.
JobSymmetry == Permutations(Jobs)
=============================================================================
