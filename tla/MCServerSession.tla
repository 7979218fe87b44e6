---------------------------- MODULE MCServerSession ----------------------------
(* The instance of ServerSession that TLC checks. *)
EXTENDS ServerSession, TLC

\* No definition tells one request, or one user, from another.
Alike == Permutations(Requests) \cup Permutations(Users)

================================================================================
