-------------------------- MODULE Bookings_proofs --------------------------
(***************************************************************************)
(* Theorems about Bookings for any actors, ports, users, capacities and    *)
(* number of bookings, and the lemmas about the seat arithmetic they rest  *)
(* on.                                                                     *)
(*                                                                         *)
(* While bookings are all that happens, the first `capacity' of them keep  *)
(* their seats: for any number of racing actors of any ports, any page     *)
(* limit, any creation times, and calls that fail or are run again         *)
(* anywhere.                                                               *)
(*                                                                         *)
(* A reconciliation nobody disturbs settles the event: for any number of   *)
(* actors, whatever other operations, faults, edits and earlier races came *)
(* before it, provided its lists are complete and its creation times tell  *)
(* every two bookings apart.                                               *)
(*                                                                         *)
(* The second half is about operations that come one after another, each   *)
(* at its end before the next one starts, of any actors and ports.  Each   *)
(* theorem names the other assumptions it needs.                           *)
(*                                                                         *)
(* The last part is what the end of every operation rests on: a measure    *)
(* that each of its steps lowers, and a step that is always open to it.    *)
(***************************************************************************)
EXTENDS Bookings, FiniteSetTheorems, WellFoundedInduction, TLAPS

-----------------------------------------------------------------------------
(* What one pass over the two lists achieves, for any number of bookings.  *)

\* Fewer than i bookings are ahead of booking i.
LEMMA AheadBound ==
  ASSUME NEW n \in Nat, NEW S \in SUBSET (1..n), NEW i \in 1..n
  PROVE  Ahead(S, i) \in Nat /\ Ahead(S, i) < i
<1> DEFINE A == {j \in S : j < i}
<1>1. A \in SUBSET (1..(i - 1))
  <2>1. \A j \in 1..n : j < i => j \in 1..(i - 1)
    OBVIOUS
  <2> QED BY <2>1
<1>2. IsFiniteSet(1..(i - 1)) /\ Cardinality(1..(i - 1)) = i - 1
  BY FS_Interval
<1>3. IsFiniteSet(A) /\ Cardinality(A) <= i - 1
  BY <1>1, <1>2, FS_Subset
<1>4. Cardinality(A) \in Nat
  BY <1>3, FS_CardinalityType
<1> QED BY <1>3, <1>4 DEF Ahead

\* A set of the first n bookings has at most n members.
LEMMA SizeBound ==
  ASSUME NEW n \in Nat, NEW S \in SUBSET (1..n)
  PROVE  IsFiniteSet(S) /\ Cardinality(S) \in Nat /\ Cardinality(S) <= n
<1>1. IsFiniteSet(1..n) /\ Cardinality(1..n) = n
  BY FS_Interval
<1>2. IsFiniteSet(S) /\ Cardinality(S) <= n
  BY <1>1, FS_Subset
<1> QED BY <1>2, FS_CardinalityType

\* A page limit no smaller than the number of bookings cuts nothing off.
LEMMA OldestIsAll ==
  ASSUME NEW n \in Nat, NEW S \in SUBSET (1..n), NEW limit \in Nat, n <= limit
  PROVE  Oldest(S, limit) = S
<1>1. \A i \in S : Ahead(S, i) < limit
  BY AheadBound
<1> QED BY <1>1 DEF Oldest

\* What a query returns is some of what it is asked for.
LEMMA OldestSubset ==
  ASSUME NEW S, NEW limit
  PROVE  Oldest(S, limit) \subseteq S
BY DEF Oldest

(***************************************************************************)
(* No pass takes a seat from one of the first `capacity' bookings when its *)
(* waitlist holds none of them, whatever else the two lists contain:       *)
(* creation times may tie, and the lists may be incomplete or overlap.     *)
(***************************************************************************)
LEMMA EarliestNotDemoted ==
  ASSUME NEW n \in Nat, NEW C \in SUBSET (1..n), NEW W \in SUBSET (1..n),
         NEW at \in [1..n -> Nat], \A i, j \in 1..n : i <= j => at[i] <= at[j],
         NEW capacity \in Nat, \A j \in W : j > capacity,
         NEW i \in C, i <= capacity
  PROVE  i \notin Demotions(C, W, at, capacity)
<1>1. {j \in W : at[j] < at[i]} = {}
  <2>1. \A j \in W : ~(at[j] < at[i])
    <3> TAKE j \in W
    <3>1. i <= j /\ i \in 1..n /\ j \in 1..n
      OBVIOUS
    <3>2. at[i] <= at[j] /\ at[i] \in Nat /\ at[j] \in Nat
      BY <3>1
    <3> QED BY <3>2
  <2> QED BY <2>1
<1>2. Cardinality({j \in W : at[j] < at[i]}) = 0
  BY <1>1, FS_EmptySet
<1>3. Ahead(C, i) \in Nat /\ Ahead(C, i) < i
  BY AheadBound
<1>4. ConfirmedIndex(C, W, at, i) = Ahead(C, i)
  BY <1>2, <1>3 DEF ConfirmedIndex
<1> QED BY <1>3, <1>4 DEF Demotions

\* With two disjoint lists the index of a booking is its place among them all.
LEMMA IndexIsPlace ==
  ASSUME NEW n \in Nat, NEW C \in SUBSET (1..n), NEW W \in SUBSET (1..n),
         C \cap W = {}, NEW i \in 1..n
  PROVE  Ahead(C \cup W, i) = Ahead(C, i) + Ahead(W, i)
<1> DEFINE c == {j \in C : j < i}
           w == {j \in W : j < i}
<1>1. IsFiniteSet(c) /\ IsFiniteSet(w)
  BY SizeBound, c \in SUBSET (1..n), w \in SUBSET (1..n)
<1>2. c \cap w = {}
  OBVIOUS
<1>3. Cardinality(c \cap w) = 0
  BY <1>2, FS_EmptySet
<1>4. Cardinality(c \cup w) = Cardinality(c) + Cardinality(w)
  <2>1. Cardinality(c) \in Nat /\ Cardinality(w) \in Nat
    BY <1>1, FS_CardinalityType
  <2>2. Cardinality(c \cup w) = Cardinality(c) + Cardinality(w) - Cardinality(c \cap w)
    BY <1>1, FS_Union
  <2> QED BY <2>1, <2>2, <1>3
<1>5. {j \in C \cup W : j < i} = c \cup w
  OBVIOUS
<1> QED BY <1>4, <1>5 DEF Ahead

\* Where the two lists are disjoint and creation times tell every two bookings
\* apart, a pass moves the bookings by their place among all the live ones.
LEMMA PassMoves ==
  ASSUME NEW n \in Nat, NEW C \in SUBSET (1..n), NEW W \in SUBSET (1..n),
         C \cap W = {}, NEW capacity \in Nat,
         NEW at \in [1..n -> Nat], \A i, j \in 1..n : i < j => at[i] < at[j]
  PROVE  /\ \A i \in W : i \in Promotions(C, W, at, capacity) <=> Ahead(C \cup W, i) < capacity
         /\ \A i \in C : i \in Demotions(C, W, at, capacity) <=> Ahead(C \cup W, i) >= capacity
<1>1. \A i, j \in 1..n : at[j] < at[i] <=> j < i
  <2> TAKE i, j \in 1..n
  <2>1. at[i] \in Nat /\ at[j] \in Nat
    OBVIOUS
  <2>2. CASE j < i
    BY <2>2
  <2>3. CASE i < j
    <3>1. at[i] < at[j]
      BY <2>3
    <3> QED BY <2>1, <2>3, <3>1
  <2>4. CASE i = j
    BY <2>1, <2>4
  <2> QED BY <2>2, <2>3, <2>4
<1>2. \A i \in C : ConfirmedIndex(C, W, at, i) = Ahead(C \cup W, i)
  <2> TAKE i \in C
  <2>1. {j \in W : at[j] < at[i]} = {j \in W : j < i}
    BY <1>1
  <2>2. Ahead(C \cup W, i) = Ahead(C, i) + Ahead(W, i)
    BY IndexIsPlace
  <2>3. ConfirmedIndex(C, W, at, i) = Ahead(C, i) + Ahead(W, i)
    BY <2>1 DEF ConfirmedIndex, Ahead
  <2> QED BY <2>2, <2>3
<1>3. \A i \in W : WaitlistedIndex(C, W, at, i) = Ahead(C \cup W, i)
  <2> TAKE i \in W
  <2>1. {j \in C : at[j] <= at[i]} = {j \in C : j < i}
    <3>1. \A j \in C : at[j] <= at[i] <=> j < i
      <4> TAKE j \in C
      <4>1. j \in 1..n /\ i \in 1..n /\ j # i /\ at[i] \in Nat /\ at[j] \in Nat
        OBVIOUS
      <4>2. (at[j] < at[i] <=> j < i) /\ (at[i] < at[j] <=> i < j)
        BY <1>1, <4>1
      <4> QED BY <4>1, <4>2
    <3> QED BY <3>1
  <2>2. Ahead(C \cup W, i) = Ahead(C, i) + Ahead(W, i)
    BY IndexIsPlace
  <2>3. Ahead(C, i) \in Nat /\ Ahead(W, i) \in Nat
    BY AheadBound
  <2>4. WaitlistedIndex(C, W, at, i) = Ahead(W, i) + Ahead(C, i)
    BY <2>1 DEF WaitlistedIndex, Ahead
  <2> QED BY <2>2, <2>3, <2>4
<1> QED BY <1>2, <1>3 DEF Promotions, Demotions

(***************************************************************************)
(* A pass over two lists that agree settles the event: once its            *)
(* corrections are made, the first `capacity' of the live bookings hold    *)
(* the seats and the others wait.                                          *)
(***************************************************************************)
THEOREM PassSettles ==
  ASSUME NEW n \in Nat, NEW C \in SUBSET (1..n), NEW W \in SUBSET (1..n),
         C \cap W = {}, NEW capacity \in Nat,
         NEW at \in [1..n -> Nat], \A i, j \in 1..n : i < j => at[i] < at[j]
  PROVE  LET P == Promotions(C, W, at, capacity)
             D == Demotions(C, W, at, capacity)
         IN  /\ P \subseteq W /\ D \subseteq C
             /\ Entitled((C \cup P) \ D, (W \cup D) \ P, capacity)
<1> DEFINE P == Promotions(C, W, at, capacity)
           D == Demotions(C, W, at, capacity)
           L == C \cup W
<1>1. P \subseteq W /\ D \subseteq C
  BY DEF Promotions, Demotions
<1>2. \A i \in L : Ahead(L, i) \in Nat
  BY AheadBound, L \in SUBSET (1..n)
<1>3. \A i \in W : i \in P <=> Ahead(L, i) < capacity
  BY PassMoves
<1>4. \A i \in C : i \in D <=> Ahead(L, i) >= capacity
  BY PassMoves
<1>5. ((C \cup P) \ D) \cup ((W \cup D) \ P) = L
  BY <1>1
<1>6. \A i \in L : i \in (C \cup P) \ D <=> Ahead(L, i) < capacity
  <2> TAKE i \in L
  <2>1. Ahead(L, i) \in Nat
    BY <1>2
  <2>2. CASE i \in C
    <3>1. i \in D <=> Ahead(L, i) >= capacity
      BY <2>2, <1>4
    <3> QED BY <2>1, <2>2, <3>1
  <2>3. CASE i \in W
    <3>1. i \in P <=> Ahead(L, i) < capacity
      BY <2>3, <1>3
    <3>2. i \notin C /\ i \notin D
      BY <2>3, <1>1
    <3> QED BY <3>1, <3>2
  <2> QED BY <2>2, <2>3
<1> DEFINE holders == (C \cup P) \ D
           waiting == (W \cup D) \ P
<1>7. holders \cup waiting = L
  BY <1>5
<1>8. Entitled(holders, waiting, capacity)
  <2> HIDE DEF holders, waiting, L
  <2>1. \A i \in L : i \in holders <=> Ahead(L, i) < capacity
    BY <1>6 DEF holders
  <2> QED BY <2>1, <1>7 DEF Entitled
<1> QED BY <1>1, <1>8

----------------------------------------------------------------------------
(* Seats that are given to nobody out of turn.                             *)

\* Nobody who holds a seat has a full house of live bookings ahead.
Seated(C, W, capacity) == \A i \in C : Ahead(C \union W, i) < capacity

\* Whoever leaves the line brings the others forward.
LEMMA AheadShrinks ==
  ASSUME NEW n \in Nat, NEW S \in SUBSET (1..n), NEW T \in SUBSET S, NEW i \in 1..n
  PROVE  Ahead(T, i) \in Nat /\ Ahead(S, i) \in Nat /\ Ahead(T, i) <= Ahead(S, i)
<1> DEFINE s == {j \in S : j < i}
           t == {j \in T : j < i}
<1>1. s \in SUBSET (1..n) /\ t \in SUBSET s
  OBVIOUS
<1>2. IsFiniteSet(s)
  BY <1>1, SizeBound
<1>3. Cardinality(t) <= Cardinality(s)
  BY <1>1, <1>2, FS_Subset
<1> QED BY <1>3, AheadBound, T \in SUBSET (1..n) DEF Ahead

LEMMA SeatedShrinks ==
  ASSUME NEW n \in Nat, NEW C \in SUBSET (1..n), NEW W \in SUBSET (1..n),
         NEW D \in SUBSET C, NEW V, D \union V \subseteq C \union W,
         NEW capacity \in Nat, Seated(C, W, capacity)
  PROVE  Seated(D, V, capacity)
<1> SUFFICES ASSUME NEW i \in D PROVE Ahead(D \union V, i) < capacity
  BY DEF Seated
<1>1. Ahead(D \union V, i) \in Nat /\ Ahead(C \union W, i) \in Nat
      /\ Ahead(D \union V, i) <= Ahead(C \union W, i)
  BY AheadShrinks, i \in 1..n, C \union W \in SUBSET (1..n), D \union V \in SUBSET (C \union W)
<1>2. Ahead(C \union W, i) < capacity
  BY DEF Seated
<1> QED BY <1>1, <1>2

\* Nobody beyond the capacity: what NotOversold asks for.
LEMMA SeatedWithin ==
  ASSUME NEW n \in Nat, NEW C \in SUBSET (1..n), NEW W \in SUBSET (1..n),
         NEW capacity \in Nat, Seated(C, W, capacity)
  PROVE  WithinCapacity(C, capacity)
<1>1. Seated(C, {}, capacity)
  BY SeatedShrinks, C \union {} \subseteq C \union W
<1>2. C \union {} = C
  OBVIOUS
<1> QED BY <1>1, <1>2 DEF Seated, WithinCapacity

LEMMA EntitledSeated ==
  ASSUME NEW C, NEW W, NEW capacity, Entitled(C, W, capacity)
  PROVE  Seated(C, W, capacity)
BY DEF Entitled, Seated

\* Corrections lead from one set of seats to another in the same line.
LEMMA SameLine ==
  ASSUME NEW C, NEW W, NEW P \in SUBSET W, NEW D \in SUBSET C, C \cap W = {}
  PROVE  /\ ((C \union P) \ D) \union ((W \union D) \ P) = C \union W
         /\ P \subseteq (C \union P) \ D /\ D \cap ((C \union P) \ D) = {}
OBVIOUS

\* Where the seats are as they should be, there is nothing to correct.
LEMMA NothingToCorrect ==
  ASSUME NEW C, NEW W, NEW P \in SUBSET W, NEW D \in SUBSET C, C \cap W = {}, NEW capacity,
         Entitled(C, W, capacity), Entitled((C \union P) \ D, (W \union D) \ P, capacity)
  PROVE  P = {} /\ D = {}
<1> DEFINE L == C \union W
           C2 == (C \union P) \ D
           W2 == (W \union D) \ P
<1>1. C2 \union W2 = L /\ P \subseteq C2 /\ D \cap C2 = {}
  BY SameLine
<1>2. \A i \in L : i \in C <=> Ahead(L, i) < capacity
  BY DEF Entitled
<1> HIDE DEF C2, W2
<1>3. \A i \in L : i \in C2 <=> Ahead(L, i) < capacity
  <2>1. Entitled(C2, W2, capacity)
    BY DEF C2, W2
  <2> QED BY <1>1, <2>1 DEF Entitled
<1> QED BY <1>1, <1>2, <1>3

\* Where nobody sits out of turn, nobody is to be put back, and whoever is to be
\* promoted may be seated at once.
LEMMA NobodyToPutBack ==
  ASSUME NEW C, NEW W, NEW P \in SUBSET W, NEW D \in SUBSET C, C \cap W = {}, NEW capacity,
         Seated(C, W, capacity), Entitled((C \union P) \ D, (W \union D) \ P, capacity)
  PROVE  D = {} /\ \A i \in P : Seated(C \union {i}, W \ {i}, capacity)
<1> DEFINE L == C \union W
           C2 == (C \union P) \ D
           W2 == (W \union D) \ P
<1>1. C2 \union W2 = L /\ P \subseteq C2 /\ D \cap C2 = {}
  BY SameLine
<1>2. \A i \in C : Ahead(L, i) < capacity
  BY DEF Seated
<1> HIDE DEF C2, W2
<1>3. \A i \in L : i \in C2 <=> Ahead(L, i) < capacity
  <2>1. Entitled(C2, W2, capacity)
    BY DEF C2, W2
  <2> QED BY <1>1, <2>1 DEF Entitled
<1>4. D = {}
  BY <1>1, <1>2, <1>3
<1>5. ASSUME NEW i \in P PROVE Seated(C \union {i}, W \ {i}, capacity)
  <2>1. (C \union {i}) \union (W \ {i}) = L
    OBVIOUS
  <2>2. \A j \in C \union {i} : Ahead(L, j) < capacity
    BY <1>1, <1>2, <1>3
  <2> QED BY <2>1, <2>2 DEF Seated
<1> QED BY <1>4, <1>5

\* The earliest of a set of bookings.
LEMMA Earliest ==
  ASSUME NEW S \in SUBSET Nat, S # {}
  PROVE  \E i \in S : \A j \in S : i <= j
<1>1. PICK i \in S : \A j \in S : <<j, i>> \notin OpToRel(<, Nat)
  BY NatLessThanWellFounded, WFMin
<1>2. ASSUME NEW j \in S PROVE i <= j
  <2>1. ~(j < i)
    BY <1>1, i \in Nat, j \in Nat DEF OpToRel
  <2> QED BY <2>1, i \in Nat, j \in Nat
<1> QED BY <1>2

\* Where the seats are as they should be and one is free, nobody waits.
LEMMA NobodyWaitsBesideASeat ==
  ASSUME NEW n \in Nat, NEW C \in SUBSET (1..n), NEW W \in SUBSET (1..n),
         C \cap W = {}, NEW capacity \in Nat, Entitled(C, W, capacity),
         Cardinality(C) < capacity
  PROVE  W = {}
<1> SUFFICES ASSUME W # {} PROVE FALSE
  OBVIOUS
<1>1. PICK i \in W : \A j \in W : i <= j
  BY Earliest, W \in SUBSET Nat
<1> DEFINE A == {j \in C \union W : j < i}
<1>2. A \in SUBSET C
  <2> SUFFICES ASSUME NEW j \in A PROVE j \notin W
    OBVIOUS
  <2>1. j < i /\ j \in Nat /\ i \in Nat
    OBVIOUS
  <2> QED BY <1>1, <2>1
<1>3. IsFiniteSet(C) /\ Cardinality(C) \in Nat
  BY SizeBound
<1>4. Cardinality(A) <= Cardinality(C) /\ Cardinality(A) \in Nat
  BY <1>2, <1>3, FS_Subset, FS_CardinalityType
<1>5. Ahead(C \union W, i) < capacity
  BY <1>3, <1>4 DEF Ahead
<1> QED BY <1>5, i \notin C DEF Entitled

(***************************************************************************)
(* A booking created with the status its count of the confirmed ones calls *)
(* for leaves the seats as they should be.                                 *)
(***************************************************************************)
LEMMA NewcomerEntitled ==
  ASSUME NEW n \in Nat, NEW C \in SUBSET (1..n), NEW W \in SUBSET (1..n),
         C \cap W = {}, NEW capacity \in Nat, Entitled(C, W, capacity)
  PROVE  IF Cardinality(C) < capacity
         THEN Entitled(C \union {n + 1}, W, capacity)
         ELSE Entitled(C, W \union {n + 1}, capacity)
<1> DEFINE L == C \union W
           x == n + 1
           M == L \union {x}
<1>1. L \in SUBSET (1..n) /\ x \notin L
  OBVIOUS
<1>2. \A i \in L : Ahead(M, i) = Ahead(L, i)
  <2> TAKE i \in L
  <2>1. {j \in M : j < i} = {j \in L : j < i}
    OBVIOUS
  <2> QED BY <2>1 DEF Ahead
<1>3. Ahead(M, x) = Cardinality(L)
  <2>1. {j \in M : j < x} = L
    <3>1. (\A j \in L : j < x) /\ ~(x < x)
      BY <1>1
    <3> QED BY <3>1
  <2> QED BY <2>1 DEF Ahead
<1>4. IsFiniteSet(L) /\ Cardinality(L) \in Nat /\ Cardinality(C) \in Nat
      /\ Cardinality(C) <= Cardinality(L)
  <2>1. IsFiniteSet(L) /\ Cardinality(L) \in Nat /\ Cardinality(C) \in Nat
    BY <1>1, SizeBound
  <2> QED BY <2>1, FS_Subset, C \in SUBSET L
<1>5. \A i \in L : i \in C <=> Ahead(L, i) < capacity
  BY DEF Entitled
<1>6. CASE Cardinality(C) < capacity
  <2>1. W = {}
    BY <1>6, NobodyWaitsBesideASeat
  <2>2. L = C
    BY <2>1
  <2>3. Ahead(M, x) < capacity
    BY <1>3, <1>6, <2>2
  <2>4. (C \union {x}) \union W = M
    OBVIOUS
  <2> HIDE DEF M, x
  <2>5. \A i \in M : i \in C \union {x} <=> Ahead(M, i) < capacity
    BY <1>2, <1>5, <2>3 DEF M
  <2>6. Entitled(C \union {x}, W, capacity)
    BY <2>4, <2>5 DEF Entitled
  <2> QED BY <1>6, <2>6 DEF x
<1>7. CASE ~(Cardinality(C) < capacity)
  <2>1. ~(Ahead(M, x) < capacity)
    BY <1>3, <1>4, <1>7
  <2>2. C \union (W \union {x}) = M /\ x \notin C
    BY <1>1
  <2> HIDE DEF M, x
  <2>3. \A i \in M : i \in C <=> Ahead(M, i) < capacity
    BY <1>2, <1>5, <2>1, <2>2 DEF M
  <2>4. Entitled(C, W \union {x}, capacity)
    BY <2>2, <2>3 DEF Entitled
  <2> QED BY <1>7, <2>4 DEF x
<1> QED BY <1>6, <1>7

----------------------------------------------------------------------------
(* What a handler holds at each of its steps.  r is its record, n the      *)
(* number of bookings created so far.                                      *)

FitsAt(r, n) ==
  /\ r.pc \in {"gate", "count", "create", "reread"} => r.op = "book"
  /\ r.pc = "event" => r.op \in {"book", "cancel"}
  /\ r.pc \in {"find", "patch"} => r.op \in {"cancel", "checkin"}
  /\ r.pc = "save" => r.op = "edit"
  /\ r.pc = "log" => r.op \in {"book", "cancel", "checkin", "edit"}
  /\ r.pc \in {"reads", "fix"} => r.op \in {"book", "cancel", "edit"}
  /\ r.pc = "report" => r.op \in {"book", "checkin"}
  /\ r.op \in {"cancel", "checkin"} => r.target \in 1..n
  /\ r.op = "book" /\ r.pc \in {"log", "reads", "fix", "reread", "report"} => r.target \in 1..n
  /\ r.op = "edit" => r.capacity \in Capacities
  /\ r.failed => r.pc = "fix"

\* The inductive strengthening of TypeOK.
Sound == TypeOK /\ \A a \in Actors : FitsAt(h[a], size)

LEMMA RestingFits == Resting \in Handler /\ \A n \in Nat : FitsAt(Resting, n)
BY DEF Resting, Handler, Places, Lists, Capacity, None, FitsAt

LEMMA SizeType == ASSUME Sound PROVE size \in Nat /\ size <= MaxBookings
BY MaxBookingsAssumption DEF Sound, TypeOK

LEMMA CreatedIds == ASSUME Sound, NEW i \in Created PROVE i \in Ids /\ i \in 1..size
BY SizeType, MaxBookingsAssumption DEF Created, Ids

\* A step of one handler leaves the others fit.
LEMMA HandlerStep ==
  ASSUME Sound, NEW a \in Actors, NEW r \in Handler, h' = [h EXCEPT ![a] = r],
         FitsAt(r, size'), size' \in Nat, size <= size'
  PROVE  h' \in [Actors -> Handler] /\ \A b \in Actors : FitsAt(h'[b], size')
<1>1. h' \in [Actors -> Handler]
  BY DEF Sound, TypeOK
<1>2. size \in Nat
  BY SizeType
<1>3. ASSUME NEW b \in Actors PROVE FitsAt(h'[b], size')
  <2>1. CASE b = a
    BY <2>1 DEF Sound, TypeOK
  <2>2. CASE b # a
    <3>1. h'[b] = h[b] /\ FitsAt(h[b], size)
      BY <2>2 DEF Sound, TypeOK
    <3>2. 1..size \subseteq 1..size'
      BY <1>2
    <3> QED BY <3>1, <3>2 DEF FitsAt
  <2> QED BY <2>1, <2>2
<1> QED BY <1>1, <1>3

LEMMA QuietStep ==
  ASSUME Sound, NEW a \in Actors, NEW r \in Handler, h' = [h EXCEPT ![a] = r],
         FitsAt(r, size), UNCHANGED size
  PROVE  h' \in [Actors -> Handler] /\ \A b \in Actors : FitsAt(h'[b], size')
<1>1. size' \in Nat /\ size <= size' /\ size' = size
  BY SizeType
<1> QED BY <1>1, HandlerStep

\* A step that writes to no document.
LEMMA LocalStep ==
  ASSUME Sound, NEW a \in Actors, NEW r \in Handler, h' = [h EXCEPT ![a] = r],
         FitsAt(r, size), UNCHANGED <<size, owner, status, told, event>>,
         clean' \subseteq Actors, faults' \in Nat
  PROVE  Sound'
<1>1. size' \in Nat /\ size <= size' /\ size' = size
  BY SizeType
<1>2. h' \in [Actors -> Handler] /\ \A b \in Actors : FitsAt(h'[b], size')
  BY <1>1, HandlerStep
<1> QED BY <1>2 DEF Sound, TypeOK

LEMMA FinishStep ==
  ASSUME Sound, NEW a \in Actors, Finish(a),
         UNCHANGED <<size, owner, status, told, event>>,
         clean' \subseteq Actors, faults' \in Nat
  PROVE  Sound'
BY RestingFits, LocalStep, SizeType DEF Finish

LEMMA GotoStep ==
  ASSUME Sound, NEW a \in Actors, NEW place \in Places, Goto(a, place),
         FitsAt([h[a] EXCEPT !.pc = place], size),
         UNCHANGED <<size, owner, status, told, event>>,
         clean' \subseteq Actors, faults' \in Nat
  PROVE  Sound'
<1>1. h[a] \in Handler
  BY DEF Sound, TypeOK
<1>2. [h[a] EXCEPT !.pc = place] \in Handler
  BY <1>1 DEF Handler
<1>3. h' = [h EXCEPT ![a] = [h[a] EXCEPT !.pc = place]]
  BY DEF Goto
<1> QED BY <1>2, <1>3, LocalStep

LEMMA SoundInit == Init => Sound
<1> SUFFICES ASSUME Init PROVE Sound
  OBVIOUS
<1>1. size \in 0..MaxBookings /\ size \in Nat
  BY MaxBookingsAssumption DEF Init
<1>2. h \in [Actors -> Handler] /\ \A a \in Actors : FitsAt(h[a], size)
  BY <1>1, RestingFits DEF Init
<1> QED BY <1>1, <1>2 DEF Init, Sound, TypeOK, Activity, None

----------------------------------------------------------------------------
LEMMA StartSound ==
  ASSUME Sound, NEW a \in Actors, Start(a)
  PROVE  Sound'
<1>1. h[a] \in Handler /\ FitsAt(h[a], size) /\ PortOf[a] \in PortProfile
  BY PortOfAssumption DEF Sound, TypeOK
<1>2. size \in Nat /\ size <= MaxBookings /\ clean \subseteq Actors /\ faults \in Nat
  BY SizeType DEF Sound, TypeOK
<1>3. ASSUME NEW u \in Users, StartBook(a, u) PROVE Sound'
  <2> DEFINE r == [Resting EXCEPT !.pc = PortOf[a].book.first, !.op = "book", !.user = u]
  <2>1. PortOf[a].book.first \in {"event", "gate"}
    BY <1>1 DEF PortProfile, BookProfile
  <2>2. r \in Handler
    BY <2>1, RestingFits DEF Handler, Places
  <2>3. FitsAt(r, size)
    BY <2>1 DEF FitsAt, Resting
  <2>4. h' = [h EXCEPT ![a] = r]
    BY <1>3 DEF StartBook
  <2> QED BY <1>2, <1>3, <2>2, <2>3, <2>4, LocalStep DEF StartBook
<1>4. ASSUME NEW i \in Created, StartCancel(a, i) PROVE Sound'
  <2> DEFINE place == IF PortOf[a].cancel.refetch THEN "find" ELSE BeforeWrite(a)
             r == [Resting EXCEPT !.pc = place, !.op = "cancel", !.user = owner[i], !.target = i]
  <2>1. place \in {"find", "event", "patch"}
    BY DEF BeforeWrite
  <2> HIDE DEF place
  <2>2. i \in Ids /\ i \in 1..size
    BY CreatedIds
  <2>3. owner[i] \in Users \union {None}
    BY <2>2 DEF Sound, TypeOK
  <2>4. r \in Handler
    BY <2>1, <2>2, <2>3, RestingFits DEF Handler, Places
  <2>5. FitsAt(r, size)
    BY <2>1, <2>2 DEF FitsAt, Resting
  <2>6. h' = [h EXCEPT ![a] = r]
    BY <1>4 DEF StartCancel, place
  <2> QED BY <1>2, <1>4, <2>4, <2>5, <2>6, LocalStep DEF StartCancel
<1>5. ASSUME NEW i \in Created, StartCheckIn(a, i) PROVE Sound'
  <2> DEFINE r == [Resting EXCEPT !.pc = "find", !.op = "checkin", !.target = i]
  <2>1. i \in Ids /\ i \in 1..size
    BY CreatedIds
  <2>2. r \in Handler
    BY <2>1, RestingFits DEF Handler, Places
  <2>3. FitsAt(r, size)
    BY <2>1 DEF FitsAt, Resting
  <2>4. h' = [h EXCEPT ![a] = r]
    BY <1>5 DEF StartCheckIn
  <2> QED BY <1>2, <1>5, <2>2, <2>3, <2>4, LocalStep DEF StartCheckIn
<1>6. ASSUME NEW c \in Capacities, StartEdit(a, c) PROVE Sound'
  <2> DEFINE r == [Resting EXCEPT !.pc = "save", !.op = "edit", !.capacity = c]
  <2>1. r \in Handler
    BY CapacitiesAssumption, RestingFits DEF Handler, Places, Capacity
  <2>2. FitsAt(r, size)
    BY DEF FitsAt, Resting
  <2>3. h' = [h EXCEPT ![a] = r]
    BY <1>6 DEF StartEdit
  <2> QED BY <1>2, <1>6, <2>1, <2>2, <2>3, LocalStep DEF StartEdit
<1>7. CASE Delete(a)
  BY <1>7 DEF Delete, Sound, TypeOK
<1> QED BY <1>3, <1>4, <1>5, <1>6, <1>7 DEF Start

----------------------------------------------------------------------------
LEMMA BookSound ==
  ASSUME Sound, NEW a \in Actors,
         \/ GateOpen(a) \/ GateLost(a) \/ GateShut(a) \/ Count(a) \/ Create(a) \/ Reread(a) \/ Report(a)
  PROVE  Sound'
<1>1. h[a] \in Handler /\ FitsAt(h[a], size) /\ PortOf[a] \in PortProfile
  BY PortOfAssumption DEF Sound, TypeOK
<1>2. size \in Nat /\ size <= MaxBookings /\ clean \subseteq Actors /\ faults \in Nat
  BY SizeType DEF Sound, TypeOK
<1>3. CASE GateOpen(a) \/ GateLost(a)
  <2>1. AfterGate(a) \in {"event", "count"}
    BY DEF AfterGate
  <2>2. AfterGate(a) \in Places /\ FitsAt([h[a] EXCEPT !.pc = AfterGate(a)], size)
    BY <1>1, <1>3, <2>1 DEF GateOpen, GateLost, FitsAt, Handler, Places
  <2> QED BY <1>2, <1>3, <2>2, GotoStep DEF GateOpen, GateLost, Fault
<1>4. CASE GateShut(a)
  BY <1>2, <1>4, FinishStep DEF GateShut
<1>5. CASE Count(a)
  <2> DEFINE initial == IF Cardinality(WithStatus("confirmed")) < h[a].capacity
                          THEN "confirmed" ELSE "waitlisted"
             r == [h[a] EXCEPT !.pc = "create", !.initial = initial]
  <2>1. initial \in Lists
    BY DEF Lists
  <2>2. h' = [h EXCEPT ![a] = r] /\ h[a].pc = "count"
    BY <1>5 DEF Count
  <2> HIDE DEF initial
  <2>3. r \in Handler /\ FitsAt(r, size)
    BY <1>1, <2>1, <2>2 DEF Handler, Places, FitsAt
  <2> QED BY <1>2, <1>5, <2>2, <2>3, LocalStep DEF Count
<1>6. CASE Create(a)
  <2> DEFINE r == [h[a] EXCEPT !.pc = "log", !.target = size + 1]
  <2>1. h' = [h EXCEPT ![a] = r] /\ h[a].pc = "create" /\ size' = size + 1
    BY <1>6 DEF Create
  <2>2. size + 1 \in Ids /\ size' \in Nat /\ size <= size' /\ size' <= MaxBookings
    BY <1>2, <1>6, MaxBookingsAssumption DEF Create, Ids
  <2>3. r \in Handler
    BY <1>1, <2>2 DEF Handler, Places
  <2>4. FitsAt(r, size')
    <3>1. h[a].op = "book" /\ ~h[a].failed
      BY <1>1, <2>1 DEF FitsAt
    <3>2. r.pc = "log" /\ r.op = "book" /\ r.target = size + 1 /\ ~r.failed
      BY <1>1, <3>1 DEF Handler
    <3>3. r.target \in 1..size'
      BY <1>2, <2>1, <3>2
    <3> QED BY <3>2, <3>3 DEF FitsAt
  <2>5. h' \in [Actors -> Handler] /\ \A b \in Actors : FitsAt(h'[b], size')
    BY <2>1, <2>2, <2>3, <2>4, HandlerStep
  <2>6. owner' \in [Ids -> Users \union {None}] /\ status' \in [Ids -> Status \union {None}]
    <3>1. h[a].user \in Users \union {None} /\ h[a].initial \in Status \union {None}
      BY <1>1 DEF Handler, Lists, Status
    <3> QED BY <1>6, <3>1 DEF Create, Sound, TypeOK
  <2>7. clean' \subseteq Actors
    BY <1>2, <1>6 DEF Create, Disturb
  <2> QED BY <1>6, <2>2, <2>5, <2>6, <2>7, MaxBookingsAssumption DEF Create, Sound, TypeOK
<1>7. CASE Reread(a)
  <2> DEFINE r == [h[a] EXCEPT !.pc = "report", !.result = status[h[a].target]]
  <2>1. h' = [h EXCEPT ![a] = r] /\ h[a].pc = "reread" /\ h[a].op = "book"
    BY <1>1, <1>7 DEF Reread, FitsAt
  <2>2. h[a].target \in Ids
    <3>1. h[a].target \in Created
      BY <1>1, <2>1 DEF FitsAt, Created
    <3> QED BY <3>1, CreatedIds
  <2>3. status[h[a].target] \in Status \union {None}
    BY <2>2 DEF Sound, TypeOK
  <2>4. r \in Handler
    BY <1>1, <2>3 DEF Handler, Places
  <2>5. h[a].target \in 1..size /\ ~h[a].failed
    BY <1>1, <2>1 DEF FitsAt
  <2>6. r.pc = "report" /\ r.op = "book" /\ r.target \in 1..size /\ ~r.failed
    BY <1>1, <2>1, <2>5 DEF Handler
  <2>7. FitsAt(r, size)
    BY <2>6 DEF FitsAt
  <2> QED BY <1>2, <1>7, <2>1, <2>4, <2>7, LocalStep DEF Reread
<1>8. CASE Report(a)
  BY <1>2, <1>8, FinishStep DEF Report
<1> QED BY <1>3, <1>4, <1>5, <1>6, <1>7, <1>8

LEMMA ReadEventSound ==
  ASSUME Sound, NEW a \in Actors, ReadEvent(a)
  PROVE  Sound'
<1>1. h[a] \in Handler /\ FitsAt(h[a], size) /\ PortOf[a] \in PortProfile
  BY PortOfAssumption DEF Sound, TypeOK
<1>2. clean' \subseteq Actors /\ faults' \in Nat /\ UNCHANGED <<size, owner, status, told, event>>
  BY DEF ReadEvent, Sound, TypeOK
<1> DEFINE cancelling == h[a].op = "cancel"
           next == CASE ~cancelling -> IF PortOf[a].book.first = "gate" THEN "count" ELSE "gate"
                     [] cancelling /\ PortOf[a].cancel.event = "before" -> "patch"
                     [] cancelling /\ PortOf[a].cancel.event = "after" -> "reads"
           unread == IF next = "reads" THEN Lists ELSE {}
           Read(capacity) == [h[a] EXCEPT !.pc = next, !.capacity = capacity, !.unread = unread]
<1>3. h[a].pc = "event" /\ h[a].op \in {"book", "cancel"} /\ ~h[a].failed
  BY <1>1 DEF ReadEvent, FitsAt
<1>4. next \in IF cancelling THEN {"patch", "reads"} ELSE {"count", "gate"}
  BY <1>1 DEF PortProfile, CancelProfile
<1>5. unread \in SUBSET Lists
  OBVIOUS
<1>6. ASSUME NEW capacity \in Nat, h' = [h EXCEPT ![a] = Read(capacity)] PROVE Sound'
  <2> HIDE DEF next, unread
  <2>1. Read(capacity) \in Handler
    BY <1>1, <1>4, <1>5 DEF Handler, Places, Capacity
  <2>2. FitsAt(Read(capacity), size)
    BY <1>1, <1>3, <1>4 DEF Handler, FitsAt
  <2> QED BY <1>2, <1>6, <2>1, <2>2, LocalStep
<1>7. CASE event.exists
  <2>1. event.capacity \in Nat
    BY CapacitiesAssumption DEF Sound, TypeOK
  <2>2. h' = [h EXCEPT ![a] = Read(event.capacity)]
    BY <1>7 DEF ReadEvent
  <2> QED BY <1>6, <2>1, <2>2
<1>8. CASE ~event.exists /\ Gone(a) = "unbounded"
  <2>1. Unbounded \in Nat
    BY MaxBookingsAssumption DEF Unbounded
  <2>2. h' = [h EXCEPT ![a] = Read(Unbounded)]
    BY <1>8 DEF ReadEvent
  <2> QED BY <1>6, <2>1, <2>2
<1>9. CASE ~event.exists /\ Gone(a) # "unbounded" /\ Gone(a) = "skip" /\ next = "patch"
  <2> DEFINE r == [h[a] EXCEPT !.pc = "patch", !.skip = TRUE]
  <2>1. h' = [h EXCEPT ![a] = r] /\ cancelling
    BY <1>4, <1>9 DEF ReadEvent
  <2>2. r \in Handler /\ FitsAt(r, size)
    BY <1>1, <1>3, <2>1 DEF Handler, Places, FitsAt
  <2> QED BY <1>2, <2>1, <2>2, LocalStep
<1>10. CASE ~event.exists /\ Gone(a) # "unbounded" /\ ~(Gone(a) = "skip" /\ next = "patch")
  <2>1. Finish(a)
    BY <1>10 DEF ReadEvent
  <2> QED BY <1>2, <2>1, FinishStep
<1> QED BY <1>7, <1>8, <1>9, <1>10

----------------------------------------------------------------------------
LEMMA WriteSound ==
  ASSUME Sound, NEW a \in Actors, Find(a) \/ Patch(a) \/ Save(a) \/ Log(a)
  PROVE  Sound'
<1>1. h[a] \in Handler /\ FitsAt(h[a], size) /\ PortOf[a] \in PortProfile
  BY PortOfAssumption DEF Sound, TypeOK
<1>2. size \in Nat /\ size <= MaxBookings /\ clean \subseteq Actors /\ faults \in Nat
  BY SizeType DEF Sound, TypeOK
<1>3. CASE Find(a)
  <2>1. h[a].pc = "find" /\ h[a].op \in {"cancel", "checkin"} /\ ~h[a].failed
    BY <1>1, <1>3 DEF Find, FitsAt
  <2>2. BeforeWrite(a) \in {"event", "patch"} /\ (Finish(a) \/ Goto(a, "patch")
           \/ (h[a].op = "cancel" /\ Goto(a, BeforeWrite(a))))
    BY <1>3, <2>1 DEF Find, BeforeWrite
  <2>3. CASE Finish(a)
    BY <1>2, <1>3, <2>3, FinishStep DEF Find
  <2>4. ASSUME NEW place \in {"event", "patch"}, Goto(a, place),
               place = "event" => h[a].op = "cancel"
        PROVE  Sound'
    <3>1. place \in Places /\ FitsAt([h[a] EXCEPT !.pc = place], size)
      BY <1>1, <2>1, <2>4 DEF Handler, Places, FitsAt
    <3> QED BY <1>2, <1>3, <2>4, <3>1, GotoStep DEF Find
  <2> QED BY <2>2, <2>3, <2>4
<1>4. CASE Patch(a)
  <2>1. h[a].pc = "patch" /\ h[a].op \in {"cancel", "checkin"} /\ ~h[a].failed /\ size' = size
    BY <1>1, <1>4 DEF Patch, FitsAt
  <2> DEFINE r == [h[a] EXCEPT !.pc = "log"]
  <2>2. r \in Handler /\ FitsAt(r, size) /\ h' = [h EXCEPT ![a] = r]
    BY <1>1, <1>4, <2>1 DEF Patch, Goto, Handler, Places, FitsAt
  <2>3. h' \in [Actors -> Handler] /\ \A b \in Actors : FitsAt(h'[b], size')
    BY <2>1, <2>2, QuietStep
  <2>4. status' \in [Ids -> Status \union {None}]
    BY <1>4 DEF Patch, Sound, TypeOK, Status
  <2>5. clean' \subseteq Actors
    BY <1>2, <1>4 DEF Patch, Disturb
  <2> QED BY <1>4, <2>3, <2>4, <2>5 DEF Patch, Sound, TypeOK
<1>5. CASE Save(a)
  <2>1. h[a].pc = "save" /\ h[a].op = "edit" /\ ~h[a].failed /\ size' = size
        /\ h[a].capacity \in Capacities
    BY <1>1, <1>5 DEF Save, FitsAt
  <2>2. CASE event.exists
    <3> DEFINE r == [h[a] EXCEPT !.pc = "log"]
    <3>1. r \in Handler /\ FitsAt(r, size) /\ h' = [h EXCEPT ![a] = r]
      BY <1>1, <1>5, <2>1, <2>2 DEF Save, Goto, Handler, Places, FitsAt
    <3>2. h' \in [Actors -> Handler] /\ \A b \in Actors : FitsAt(h'[b], size')
      BY <2>1, <3>1, QuietStep
    <3>3. event' \in [capacity : Capacities, exists : BOOLEAN]
      BY <1>5, <2>1, <2>2 DEF Save, Sound, TypeOK
    <3> QED BY <1>5, <3>2, <3>3 DEF Save, Sound, TypeOK
  <2>3. CASE ~event.exists
    BY <1>2, <1>5, <2>3, FinishStep DEF Save
  <2> QED BY <2>2, <2>3
<1>6. CASE Log(a)
  <2>1. h[a].pc = "log" /\ h[a].op \in {"book", "cancel", "checkin", "edit"}
        /\ ~h[a].failed /\ size' = size
    BY <1>1, <1>6 DEF Log, FitsAt
  <2>2. told' \in [Ids -> Activity]
    <3>1. h[a].op # "edit" => Entry(a) \in Activity
      BY <2>1 DEF Entry, Activity
    <3> QED BY <1>6, <3>1 DEF Log, Sound, TypeOK
  <2>3. h' \in [Actors -> Handler] /\ \A b \in Actors : FitsAt(h'[b], size')
    <3>1. ASSUME NEW r \in Handler, FitsAt(r, size), h' = [h EXCEPT ![a] = r]
          PROVE  h' \in [Actors -> Handler] /\ \A b \in Actors : FitsAt(h'[b], size')
      BY <2>1, <3>1, QuietStep
    <3>2. AfterLog(a) \in IF h[a].op = "checkin" THEN {"report"}
                          ELSE IF h[a].op = "cancel" THEN {"idle", "event", "reads"}
                          ELSE {"idle", "reads"}
      BY <1>1, <2>1 DEF AfterLog, PortProfile, CancelProfile
    <3>3. CASE AfterLog(a) = "idle"
      <4>1. h' = [h EXCEPT ![a] = Resting]
        BY <1>6, <3>3 DEF Log, Finish
      <4> QED BY <1>2, <3>1, <4>1, RestingFits
    <3>4. CASE AfterLog(a) = "reads"
      <4> DEFINE r == [h[a] EXCEPT !.pc = "reads", !.unread = Lists]
      <4>1. h' = [h EXCEPT ![a] = r]
        BY <1>6, <3>4 DEF Log
      <4>2. r \in Handler /\ FitsAt(r, size)
        BY <1>1, <2>1, <3>2, <3>4 DEF Handler, Places, FitsAt
      <4> QED BY <3>1, <4>1, <4>2
    <3>5. CASE AfterLog(a) = "event"
      <4> DEFINE r == [h[a] EXCEPT !.pc = "event"]
      <4>1. h' = [h EXCEPT ![a] = r]
        BY <1>6, <3>5 DEF Log, Goto
      <4>2. r \in Handler /\ FitsAt(r, size)
        BY <1>1, <2>1, <3>2, <3>5 DEF Handler, Places, FitsAt
      <4> QED BY <3>1, <4>1, <4>2
    <3>6. CASE AfterLog(a) = "report"
      <4> DEFINE r == [h[a] EXCEPT !.pc = "report", !.result = "checked_in"]
      <4>1. h' = [h EXCEPT ![a] = r]
        BY <1>6, <3>6 DEF Log
      <4>2. r \in Handler /\ FitsAt(r, size)
        BY <1>1, <2>1, <3>2, <3>6 DEF Handler, Places, Status, FitsAt
      <4> QED BY <3>1, <4>1, <4>2
    <3> QED BY <3>2, <3>3, <3>4, <3>5, <3>6
  <2> QED BY <1>6, <2>2, <2>3 DEF Log, Sound, TypeOK
<1> QED BY <1>3, <1>4, <1>5, <1>6

----------------------------------------------------------------------------
LEMMA ReconcileSound ==
  ASSUME Sound, NEW a \in Actors,
         \/ \E list \in Lists : ReadList(a, list)
         \/ \E i \in Ids : Fix(a, i)
         \/ LogFix(a) \/ EndFix(a)
  PROVE  Sound'
<1>1. h[a] \in Handler /\ FitsAt(h[a], size) /\ PortOf[a] \in PortProfile
  BY PortOfAssumption DEF Sound, TypeOK
<1>2. size \in Nat /\ size <= MaxBookings /\ clean \subseteq Actors /\ faults \in Nat
  BY SizeType DEF Sound, TypeOK
<1>3. ASSUME NEW list \in Lists, ReadList(a, list) PROVE Sound'
  <2> DEFINE seen == Oldest(WithStatus(list), PortOf[a].reconcile.limit)
             c == IF list = "confirmed" THEN seen ELSE h[a].confirmed
             w == IF list = "waitlisted" THEN seen ELSE h[a].waitlisted
             promote == Promotions(c, w, At(a), h[a].capacity)
             demote == Demotions(c, w, At(a), h[a].capacity)
  <2>1. h[a].pc = "reads" /\ h[a].op \in {"book", "cancel", "edit"} /\ ~h[a].failed
    BY <1>1, <1>3 DEF ReadList, FitsAt
  <2>2. c \in SUBSET Ids /\ w \in SUBSET Ids
    <3>1. seen \subseteq WithStatus(list)
      BY OldestSubset
    <3>2. WithStatus(list) \subseteq Ids
      BY CreatedIds DEF WithStatus
    <3> QED BY <1>1, <3>1, <3>2 DEF Handler
  <2>3. promote \in SUBSET Ids /\ demote \in SUBSET Ids
    BY <2>2 DEF Promotions, Demotions
  <2>4. clean' \subseteq Actors /\ faults' \in Nat /\ UNCHANGED <<size, owner, status, told, event>>
    BY <1>2, <1>3 DEF ReadList
  <2>5. CASE h[a].unread = {list}
    <3> DEFINE r == [h[a] EXCEPT !.pc = "fix", !.unread = {}, !.confirmed = {}, !.waitlisted = {},
                                 !.promote = promote, !.demote = demote]
    <3>1. h' = [h EXCEPT ![a] = r]
      BY <1>3, <2>5 DEF ReadList
    <3> HIDE DEF promote, demote
    <3>2. r \in Handler
      BY <1>1, <2>3 DEF Handler, Places
    <3>3. FitsAt(r, size)
      BY <1>1, <2>1 DEF Handler, FitsAt
    <3> QED BY <2>4, <3>1, <3>2, <3>3, LocalStep
  <2>6. CASE h[a].unread # {list}
    <3> DEFINE r == [h[a] EXCEPT !.unread = h[a].unread \ {list}, !.confirmed = c, !.waitlisted = w]
    <3>1. h' = [h EXCEPT ![a] = r]
      BY <1>3, <2>6 DEF ReadList
    <3> HIDE DEF c, w
    <3>2. r \in Handler
      BY <1>1, <2>2 DEF Handler
    <3>3. FitsAt(r, size)
      BY <1>1, <2>1 DEF Handler, FitsAt
    <3> QED BY <2>4, <3>1, <3>2, <3>3, LocalStep
  <2> QED BY <2>5, <2>6
<1>4. ASSUME NEW i \in Ids, Fix(a, i) PROVE Sound'
  <2>1. h[a].pc = "fix" /\ size' = size
    BY <1>4 DEF Fix
  <2>2. ASSUME NEW promote \in SUBSET Ids, NEW demote \in SUBSET Ids,
               NEW logs \in SUBSET (Ids \X {"booking_promoted", "booking_waitlisted"}),
               h' = [h EXCEPT ![a] = [h[a] EXCEPT !.promote = promote, !.demote = demote,
                                                  !.logs = logs]]
        PROVE  h' \in [Actors -> Handler] /\ \A b \in Actors : FitsAt(h'[b], size')
    <3> DEFINE r == [h[a] EXCEPT !.promote = promote, !.demote = demote, !.logs = logs]
    <3>1. r \in Handler
      BY <1>1 DEF Handler
    <3>2. FitsAt(r, size)
      BY <1>1 DEF Handler, FitsAt
    <3> QED BY <2>1, <2>2, <3>1, <3>2, QuietStep
  <2>3. h' \in [Actors -> Handler] /\ \A b \in Actors : FitsAt(h'[b], size')
    <3>1. h[a].promote \in SUBSET Ids /\ h[a].demote \in SUBSET Ids
          /\ h[a].logs \in SUBSET (Ids \X {"booking_promoted", "booking_waitlisted"})
      BY <1>1 DEF Handler
    <3>2. CASE i \in h[a].promote
      <4> DEFINE logs == h[a].logs \union {<<i, "booking_promoted">>}
      <4>1. h' = [h EXCEPT ![a] = [h[a] EXCEPT !.promote = h[a].promote \ {i},
                                               !.demote = h[a].demote, !.logs = logs]]
        BY <1>1, <1>4, <3>2 DEF Fix, Handler
      <4>2. logs \in SUBSET (Ids \X {"booking_promoted", "booking_waitlisted"})
        BY <3>1
      <4> QED BY <2>2, <3>1, <4>1, <4>2
    <3>3. CASE i \notin h[a].promote
      <4> DEFINE logs == h[a].logs \union {<<i, "booking_waitlisted">>}
      <4>1. h' = [h EXCEPT ![a] = [h[a] EXCEPT !.promote = h[a].promote,
                                               !.demote = h[a].demote \ {i}, !.logs = logs]]
        BY <1>1, <1>4, <3>3 DEF Fix, Handler
      <4>2. logs \in SUBSET (Ids \X {"booking_promoted", "booking_waitlisted"})
        BY <3>1
      <4> QED BY <2>2, <3>1, <4>1, <4>2
    <3> QED BY <3>2, <3>3
  <2>4. status' \in [Ids -> Status \union {None}]
    BY <1>4 DEF Fix, Sound, TypeOK, Status
  <2>5. clean' \subseteq Actors
    BY <1>2, <1>4 DEF Fix, Disturb
  <2> QED BY <1>4, <2>3, <2>4, <2>5 DEF Fix, Sound, TypeOK
<1>5. CASE LogFix(a)
  <2>1. PICK entry \in h[a].logs :
          /\ told' = [told EXCEPT ![entry[1]] = entry[2]]
          /\ h' = [h EXCEPT ![a].logs = @ \ {entry}]
    BY <1>5 DEF LogFix
  <2>2. entry[1] \in Ids /\ entry[2] \in {"booking_promoted", "booking_waitlisted"}
    BY <1>1 DEF Handler
  <2>3. told' \in [Ids -> Activity]
    BY <2>1, <2>2 DEF Sound, TypeOK, Activity
  <2> DEFINE r == [h[a] EXCEPT !.logs = h[a].logs \ {entry}]
  <2>4. r \in Handler /\ h' = [h EXCEPT ![a] = r]
    BY <1>1, <2>1 DEF Handler
  <2>5. FitsAt(r, size) /\ UNCHANGED size
    BY <1>1, <1>5 DEF Handler, FitsAt, LogFix
  <2>6. h' \in [Actors -> Handler] /\ \A b \in Actors : FitsAt(h'[b], size')
    BY <2>4, <2>5, QuietStep
  <2> QED BY <1>5, <2>3, <2>6 DEF LogFix, Sound, TypeOK
<1>6. CASE EndFix(a)
  <2>1. h[a].pc = "fix" /\ clean' \subseteq Actors /\ faults' \in Nat
        /\ UNCHANGED <<size, owner, status, told, event>>
    BY <1>2, <1>6 DEF EndFix
  <2>2. AfterFix(a) \in {"idle", "reread", "report"}
        /\ (AfterFix(a) # "idle" => h[a].op = "book" /\ ~h[a].failed)
    BY <1>1 DEF AfterFix, PortProfile, BookProfile, Handler
  <2>3. CASE AfterFix(a) = "idle"
    BY <1>6, <2>1, <2>3, FinishStep DEF EndFix
  <2>4. CASE AfterFix(a) = "reread"
    <3>1. "reread" \in Places /\ FitsAt([h[a] EXCEPT !.pc = "reread"], size)
      BY <1>1, <2>1, <2>2, <2>4 DEF Handler, Places, FitsAt
    <3> QED BY <1>6, <2>1, <2>4, <3>1, GotoStep DEF EndFix
  <2>5. CASE AfterFix(a) = "report"
    <3> DEFINE r == [h[a] EXCEPT !.pc = "report", !.result = h[a].initial]
    <3>1. r \in Handler
      BY <1>1 DEF Handler, Places, Lists, Status
    <3>2. FitsAt(r, size)
      BY <1>1, <2>1, <2>2, <2>5 DEF Handler, FitsAt
    <3>3. h' = [h EXCEPT ![a] = r]
      BY <1>6, <2>5 DEF EndFix
    <3> QED BY <2>1, <3>1, <3>2, <3>3, LocalStep
  <2> QED BY <2>2, <2>3, <2>4, <2>5
<1> QED BY <1>3, <1>4, <1>5, <1>6

----------------------------------------------------------------------------
\* One correction less, or one entry less, is all that a failure changes.
LEMMA GiveUpRecord ==
  ASSUME Sound, NEW a \in Actors, GiveUp(a), h[a].pc = "fix"
  PROVE  \E promote \in SUBSET h[a].promote, demote \in SUBSET h[a].demote,
            logs \in SUBSET h[a].logs :
           h' = [h EXCEPT ![a] = [h[a] EXCEPT !.promote = promote, !.demote = demote,
                                              !.logs = logs, !.failed = TRUE]]
<1>1. h[a] \in Handler /\ h \in [Actors -> Handler]
  BY DEF Sound, TypeOK
<1>2. ASSUME NEW i \in h[a].promote \union h[a].demote,
             h' = [h EXCEPT ![a].promote = @ \ {i}, ![a].demote = @ \ {i}, ![a].failed = TRUE]
      PROVE  h' = [h EXCEPT ![a] = [h[a] EXCEPT !.promote = h[a].promote \ {i},
                     !.demote = h[a].demote \ {i}, !.logs = h[a].logs, !.failed = TRUE]]
  BY <1>1, <1>2 DEF Handler
<1>3. ASSUME NEW entry \in h[a].logs,
             h' = [h EXCEPT ![a].logs = @ \ {entry}, ![a].failed = TRUE]
      PROVE  h' = [h EXCEPT ![a] = [h[a] EXCEPT !.promote = h[a].promote,
                     !.demote = h[a].demote, !.logs = h[a].logs \ {entry}, !.failed = TRUE]]
  BY <1>1, <1>3 DEF Handler
<1> DEFINE Goal == \E promote \in SUBSET h[a].promote, demote \in SUBSET h[a].demote,
                       logs \in SUBSET h[a].logs :
                      h' = [h EXCEPT ![a] = [h[a] EXCEPT !.promote = promote,
                              !.demote = demote, !.logs = logs, !.failed = TRUE]]
<1>4. ASSUME NEW i \in h[a].promote \union h[a].demote,
             h' = [h EXCEPT ![a].promote = @ \ {i}, ![a].demote = @ \ {i}, ![a].failed = TRUE]
      PROVE  Goal
  <2> WITNESS h[a].promote \ {i} \in SUBSET h[a].promote,
              h[a].demote \ {i} \in SUBSET h[a].demote, h[a].logs \in SUBSET h[a].logs
  <2> QED BY <1>2, <1>4
<1>5. ASSUME NEW entry \in h[a].logs,
             h' = [h EXCEPT ![a].logs = @ \ {entry}, ![a].failed = TRUE]
      PROVE  Goal
  <2> WITNESS h[a].promote \in SUBSET h[a].promote, h[a].demote \in SUBSET h[a].demote,
              h[a].logs \ {entry} \in SUBSET h[a].logs
  <2> QED BY <1>3, <1>5
<1> QED BY <1>4, <1>5 DEF GiveUp

LEMMA DisruptSound ==
  ASSUME Sound, NEW a \in Actors, Disrupt(a)
  PROVE  Sound'
<1>1. h[a] \in Handler /\ FitsAt(h[a], size) /\ PortOf[a] \in PortProfile
  BY PortOfAssumption DEF Sound, TypeOK
<1>2. size \in Nat /\ size <= MaxBookings /\ clean \subseteq Actors /\ faults \in Nat
  BY SizeType DEF Sound, TypeOK
<1>3. CASE Fail(a)
  BY <1>2, <1>3, FinishStep DEF Fail, Fault
<1>4. ASSUME GiveUp(a), h[a].pc = "fix", UNCHANGED <<size, owner, status, told, event>>,
             clean' \subseteq Actors, faults' \in Nat
      PROVE  Sound'
  <2>1. PICK promote \in SUBSET h[a].promote, demote \in SUBSET h[a].demote,
             logs \in SUBSET h[a].logs :
           h' = [h EXCEPT ![a] = [h[a] EXCEPT !.promote = promote, !.demote = demote,
                                              !.logs = logs, !.failed = TRUE]]
    BY <1>4, GiveUpRecord
  <2> DEFINE r == [h[a] EXCEPT !.promote = promote, !.demote = demote,
                               !.logs = logs, !.failed = TRUE]
  <2>2. r \in Handler
    BY <1>1 DEF Handler
  <2>3. FitsAt(r, size)
    BY <1>1, <1>4 DEF Handler, FitsAt
  <2> QED BY <1>4, <2>1, <2>2, <2>3, LocalStep
<1>5. CASE FailFix(a)
  BY <1>2, <1>4, <1>5 DEF FailFix, Fault
<1>6. CASE CancelSibling(a)
  BY <1>2, <1>4, <1>6 DEF CancelSibling
<1>7. CASE Expire(a)
  <2> DEFINE place == PortOf[a].retry[h[a].op]
             target == IF h[a].op = "book" THEN 0 ELSE h[a].target
             r == [Resting EXCEPT !.pc = place, !.op = h[a].op, !.user = h[a].user,
                                  !.capacity = h[a].capacity, !.skip = h[a].skip,
                                  !.target = target]
  <2>1. h' = [h EXCEPT ![a] = r] /\ clean' \subseteq Actors /\ faults' \in Nat
        /\ h[a].op # "none" /\ h[a].pc \in Behind(place)
        /\ UNCHANGED <<size, owner, status, told, event>>
    BY <1>2, <1>7 DEF Expire, Fault
  <2>2. h[a].op \in {"book", "cancel", "checkin", "edit"}
    BY <1>1, <2>1 DEF Handler
  <2>3. place \in {"here", "count", "find", "patch", "save"}
        /\ (h[a].op = "book" => place \in {"here", "count"})
        /\ (h[a].op \in {"cancel", "checkin"} => place \in {"here", "find", "patch"})
        /\ (h[a].op = "edit" => place \in {"here", "save"})
    BY <1>1, <2>2 DEF PortProfile, RetryProfile
  <2>4. place # "here"
    BY <2>1 DEF Behind
  <2>5. target \in Ids \union {0}
    BY <1>1 DEF Handler
  <2>6. (h[a].op \in {"cancel", "checkin"} => target \in 1..size)
        /\ (h[a].op = "edit" => h[a].capacity \in Capacities)
    BY <1>1 DEF FitsAt
  <2> HIDE DEF place, target
  <2>7. r \in Handler
    <3>1. place \in Places /\ h[a].user \in Users \union {None} /\ h[a].capacity \in Capacity
          /\ h[a].skip \in BOOLEAN
      BY <1>1, <2>3, <2>4 DEF Handler, Places
    <3> QED BY <2>2, <2>5, <3>1, RestingFits DEF Handler
  <2>8. r.pc = place /\ r.op = h[a].op /\ r.target = target /\ r.capacity = h[a].capacity
        /\ ~r.failed
    BY DEF Resting
  <2>9. FitsAt(r, size)
    BY <2>2, <2>3, <2>4, <2>6, <2>8 DEF FitsAt
  <2> QED BY <2>1, <2>7, <2>9, LocalStep
<1>8. CASE GateLost(a)
  BY <1>8, BookSound
<1>9. CASE EventLost(a)
  <2> DEFINE r == [h[a] EXCEPT !.pc = "patch", !.skip = TRUE]
  <2>1. h' = [h EXCEPT ![a] = r]
    BY <1>9 DEF EventLost
  <2>2. h[a].pc = "event" /\ h[a].op = "cancel"
    BY <1>9 DEF EventLost, TakenForGone
  <2>3. /\ clean' \subseteq Actors /\ faults' \in Nat
        /\ UNCHANGED <<size, owner, status, told, event>>
    BY <1>2, <1>9 DEF EventLost, Fault
  <2>4. r \in Handler /\ FitsAt(r, size)
    BY <1>1, <2>2 DEF Handler, Places, FitsAt
  <2> QED BY <2>1, <2>3, <2>4, LocalStep
<1> QED BY <1>3, <1>5, <1>6, <1>7, <1>8, <1>9 DEF Disrupt

LEMMA SoundNext == Sound /\ [Next]_vars => Sound'
<1> SUFFICES ASSUME Sound, [Next]_vars PROVE Sound'
  OBVIOUS
<1>1. ASSUME NEW a \in Actors, Start(a) PROVE Sound'
  BY <1>1, StartSound
<1>2. ASSUME NEW a \in Actors, Proceed(a) PROVE Sound'
  BY <1>2, BookSound, ReadEventSound, WriteSound, ReconcileSound DEF Proceed
<1>3. ASSUME NEW a \in Actors, Disrupt(a) PROVE Sound'
  BY <1>3, DisruptSound
<1>4. CASE UNCHANGED vars
  BY <1>4 DEF vars, Sound, TypeOK
<1> QED BY <1>1, <1>2, <1>3, <1>4 DEF Next

THEOREM SoundAlways == Spec => []Sound
BY SoundInit, SoundNext, PTL DEF Spec

(***************************************************************************)
(* Every variable keeps its type, with any number of actors of any port,   *)
(* racing and failing as they please.  TypeOK alone is not inductive: an   *)
(* entry is written about the booking a handler has in hand, so it needs   *)
(* to be known at which of its steps a handler has one.                    *)
(***************************************************************************)
THEOREM Typed == Spec => []TypeOK
<1>1. Sound => TypeOK
  BY DEF Sound
<1> QED BY <1>1, SoundAlways, PTL

-----------------------------------------------------------------------------
(* The first `capacity' bookings.                                          *)

OnlyBookings == \A a \in Actors : Ops[a] \subseteq {"book"}

\* What a handler with record r, of a port that reads `first' first, knows of
\* the capacity when n bookings exist.
SteadyAt(r, first, n, capacity) ==
  /\ r.op \in {"none", "book"}
  /\ r.pc \in {"count", "create", "log", "reads", "fix", "reread"} => r.capacity = capacity
  /\ r.pc = "gate" /\ first = "event" => r.capacity = capacity
  /\ r.pc = "create" => r.initial = "confirmed" \/ (r.initial = "waitlisted" /\ capacity <= n)
  /\ \A i \in r.waitlisted : i > capacity
  /\ \A i \in r.demote : i > capacity

\* The inductive strengthening of EarliestSeatsKept.
Kept ==
  /\ Sound
  /\ \A a \in Actors : SteadyAt(h[a], PortOf[a].book.first, size, event.capacity)
  /\ EarliestSeatsKept

LEMMA KeptFacts ==
  ASSUME Kept, NEW a \in Actors
  PROVE  /\ h[a] \in Handler /\ FitsAt(h[a], size) /\ PortOf[a] \in PortProfile
         /\ SteadyAt(h[a], PortOf[a].book.first, size, event.capacity)
         /\ size \in Nat /\ event.capacity \in Nat
BY SizeType, PortOfAssumption, CapacitiesAssumption DEF Kept, Sound, TypeOK

LEMMA RestingSteady ==
  ASSUME NEW first, NEW n, NEW capacity
  PROVE  SteadyAt(Resting, first, n, capacity)
BY DEF Resting, SteadyAt

\* A step of one handler leaves the others steady.
LEMMA SteadyStep ==
  ASSUME Kept, NEW a \in Actors, NEW r, h' = [h EXCEPT ![a] = r],
         SteadyAt(r, PortOf[a].book.first, size', event.capacity),
         size' \in Nat, size <= size', event' = event
  PROVE  \A b \in Actors : SteadyAt(h'[b], PortOf[b].book.first, size', event'.capacity)
<1> TAKE b \in Actors
<1>1. CASE b = a
  BY <1>1 DEF Kept, Sound, TypeOK
<1>2. CASE b # a
  <2>1. h'[b] = h[b]
    BY <1>2 DEF Kept, Sound, TypeOK
  <2>2. SteadyAt(h[b], PortOf[b].book.first, size, event.capacity)
        /\ size \in Nat /\ event.capacity \in Nat
    BY KeptFacts
  <2> QED BY <2>1, <2>2 DEF SteadyAt
<1> QED BY <1>1, <1>2

LEMMA KeptLocal ==
  ASSUME Kept, Sound', NEW a \in Actors, NEW r, h' = [h EXCEPT ![a] = r],
         SteadyAt(r, PortOf[a].book.first, size, event.capacity),
         UNCHANGED <<size, status, event>>
  PROVE  Kept'
<1>1. size' = size /\ event' = event /\ size' \in Nat /\ size <= size'
  BY SizeType DEF Kept
<1>2. \A b \in Actors : SteadyAt(h'[b], PortOf[b].book.first, size', event'.capacity)
  BY <1>1, SteadyStep
<1>3. EarliestSeatsKept'
  BY DEF Kept, EarliestSeatsKept, Created
<1> QED BY <1>2, <1>3 DEF Kept

LEMMA KeptFinish ==
  ASSUME Kept, Sound', NEW a \in Actors, Finish(a), UNCHANGED <<size, status, event>>
  PROVE  Kept'
BY RestingSteady, KeptLocal DEF Finish

LEMMA KeptInit == Init => Kept
<1> SUFFICES ASSUME Init PROVE Kept
  OBVIOUS
<1>1. \A a \in Actors : SteadyAt(h[a], PortOf[a].book.first, size, event.capacity)
  BY RestingSteady DEF Init
<1>2. EarliestSeatsKept
  BY DEF Init, EarliestSeatsKept, Created
<1> QED BY <1>1, <1>2, SoundInit DEF Kept

----------------------------------------------------------------------------
LEMMA StartKept ==
  ASSUME OnlyBookings, Kept, Sound', NEW a \in Actors, Start(a)
  PROVE  Kept'
<1>1. PortOf[a].book.first \in {"event", "gate"}
  BY KeptFacts DEF PortProfile, BookProfile
<1>2. ASSUME NEW u \in Users, StartBook(a, u) PROVE Kept'
  <2> DEFINE r == [Resting EXCEPT !.pc = PortOf[a].book.first, !.op = "book", !.user = u]
  <2>1. h' = [h EXCEPT ![a] = r] /\ UNCHANGED <<size, status, event>>
    BY <1>2 DEF StartBook
  <2>2. PortOf[a].book.first = "gate" \/ PortOf[a].book.first = "event"
    BY <1>1
  <2>3. SteadyAt(r, PortOf[a].book.first, size, event.capacity)
    BY <2>2 DEF Resting, SteadyAt
  <2> QED BY <2>1, <2>3, KeptLocal
<1>3. ASSUME NEW op \in {"cancel", "checkin", "edit", "delete"} PROVE ~MayStart(a, op)
  BY DEF OnlyBookings, MayStart
<1> QED BY <1>2, <1>3 DEF Start, StartCancel, StartCheckIn, StartEdit, Delete

LEMMA BookKept ==
  ASSUME Kept, Sound', NEW a \in Actors,
         \/ GateOpen(a) \/ GateLost(a) \/ GateShut(a) \/ ReadEvent(a) \/ Count(a) \/ Reread(a) \/ Report(a)
  PROVE  Kept'
<1>1. h[a] \in Handler /\ FitsAt(h[a], size) /\ PortOf[a] \in PortProfile
      /\ SteadyAt(h[a], PortOf[a].book.first, size, event.capacity)
      /\ size \in Nat /\ event.capacity \in Nat
  BY KeptFacts
<1>2. CASE GateOpen(a) \/ GateLost(a)
  <2> DEFINE r == [h[a] EXCEPT !.pc = AfterGate(a)]
  <2>1. h' = [h EXCEPT ![a] = r] /\ UNCHANGED <<size, status, event>> /\ h[a].pc = "gate"
    BY <1>2 DEF GateOpen, GateLost, Goto
  <2>2. \/ PortOf[a].book.first = "event" /\ AfterGate(a) = "count"
        \/ PortOf[a].book.first = "gate" /\ AfterGate(a) = "event"
    <3>1. PortOf[a].book.first \in {"event", "gate"}
      BY <1>1 DEF PortProfile, BookProfile
    <3>2. CASE PortOf[a].book.first = "gate"
      BY <3>2 DEF AfterGate
    <3>3. CASE PortOf[a].book.first = "event"
      BY <3>3 DEF AfterGate
    <3> QED BY <3>1, <3>2, <3>3
  <2>3. SteadyAt(r, PortOf[a].book.first, size, event.capacity)
    BY <1>1, <2>1, <2>2 DEF SteadyAt, Handler
  <2> QED BY <2>1, <2>3, KeptLocal
<1>3. CASE GateShut(a)
  BY <1>3, KeptFinish DEF GateShut
<1>4. CASE ReadEvent(a)
  <2>1. h[a].op = "book"
    BY <1>1, <1>4 DEF ReadEvent, FitsAt, SteadyAt
  <2> DEFINE next == IF PortOf[a].book.first = "gate" THEN "count" ELSE "gate"
             r == [h[a] EXCEPT !.pc = next, !.capacity = event.capacity, !.unread = {}]
  <2>2. next \in {"count", "gate"} /\ next # "reads" /\ next # "patch"
    OBVIOUS
  <2>3. CASE event.exists
    <3>1. h' = [h EXCEPT ![a] = r] /\ UNCHANGED <<size, status, event>>
      BY <1>4, <2>1, <2>2, <2>3 DEF ReadEvent
    <3>2. SteadyAt(r, PortOf[a].book.first, size, event.capacity)
      <4> HIDE DEF next
      <4> QED BY <1>1, <2>2 DEF SteadyAt, Handler
    <3> QED BY <3>1, <3>2, KeptLocal
  <2>4. CASE ~event.exists
    <3>1. Gone(a) = "abort"
      BY <2>1 DEF Gone
    <3>2. Finish(a) /\ UNCHANGED <<size, status, event>>
      BY <1>4, <2>4, <3>1 DEF ReadEvent
    <3> QED BY <3>2, KeptFinish
  <2> QED BY <2>3, <2>4
<1>5. CASE Count(a)
  <2> DEFINE initial == IF Cardinality(WithStatus("confirmed")) < h[a].capacity
                          THEN "confirmed" ELSE "waitlisted"
             r == [h[a] EXCEPT !.pc = "create", !.initial = initial]
  <2>1. h' = [h EXCEPT ![a] = r] /\ UNCHANGED <<size, status, event>> /\ h[a].pc = "count"
    BY <1>5 DEF Count
  <2>2. h[a].capacity = event.capacity
    BY <1>1, <2>1 DEF SteadyAt
  <2>3. Cardinality(WithStatus("confirmed")) \in Nat
        /\ Cardinality(WithStatus("confirmed")) <= size
    BY <1>1, SizeBound, WithStatus("confirmed") \in SUBSET (1..size) DEF WithStatus, Created
  <2>4. initial = "confirmed" \/ (initial = "waitlisted" /\ event.capacity <= size)
    <3>1. CASE Cardinality(WithStatus("confirmed")) < h[a].capacity
      BY <3>1
    <3>2. CASE ~(Cardinality(WithStatus("confirmed")) < h[a].capacity)
      <4>1. event.capacity <= size
        BY <1>1, <2>2, <2>3, <3>2
      <4> QED BY <3>2, <4>1
    <3> QED BY <3>1, <3>2
  <2>5. SteadyAt(r, PortOf[a].book.first, size, event.capacity)
    <3> HIDE DEF initial
    <3> QED BY <1>1, <2>1, <2>2, <2>4 DEF SteadyAt, Handler
  <2> QED BY <2>1, <2>5, KeptLocal
<1>6. CASE Reread(a)
  <2> DEFINE r == [h[a] EXCEPT !.pc = "report", !.result = status[h[a].target]]
  <2>1. h' = [h EXCEPT ![a] = r] /\ UNCHANGED <<size, status, event>>
    BY <1>6 DEF Reread
  <2>2. SteadyAt(r, PortOf[a].book.first, size, event.capacity)
    BY <1>1 DEF SteadyAt, Handler
  <2> QED BY <2>1, <2>2, KeptLocal
<1>7. CASE Report(a)
  BY <1>7, KeptFinish DEF Report
<1> QED BY <1>2, <1>3, <1>4, <1>5, <1>6, <1>7

\* A booking created on the waitlist finds the seats taken by older ones.
LEMMA CreateKept ==
  ASSUME Kept, Sound', NEW a \in Actors, Create(a)
  PROVE  Kept'
<1>1. h[a] \in Handler /\ SteadyAt(h[a], PortOf[a].book.first, size, event.capacity)
      /\ size \in Nat /\ event.capacity \in Nat
  BY KeptFacts
<1> DEFINE r == [h[a] EXCEPT !.pc = "log", !.target = size + 1]
<1>2. h' = [h EXCEPT ![a] = r] /\ h[a].pc = "create" /\ size' = size + 1 /\ event' = event
      /\ status' = [status EXCEPT ![size + 1] = h[a].initial] /\ size < MaxBookings
  BY <1>1 DEF Create
<1>3. SteadyAt(r, PortOf[a].book.first, size', event.capacity)
  BY <1>1, <1>2 DEF SteadyAt, Handler
<1>4. \A b \in Actors : SteadyAt(h'[b], PortOf[b].book.first, size', event'.capacity)
  <2>1. size' \in Nat /\ size <= size'
    BY <1>1, <1>2
  <2> HIDE DEF r
  <2> QED BY <1>2, <1>3, <2>1, SteadyStep
<1>5. ASSUME NEW i \in Created', i <= event.capacity PROVE status'[i] = "confirmed"
  <2>1. status \in [Ids -> Status \union {None}] /\ size + 1 \in Ids
    BY <1>1, <1>2, MaxBookingsAssumption DEF Kept, Sound, TypeOK, Ids
  <2>2. CASE i = size + 1
    <3>1. h[a].initial = "confirmed"
      BY <1>1, <1>2, <1>5, <2>2 DEF SteadyAt
    <3> QED BY <1>2, <2>1, <2>2, <3>1
  <2>3. CASE i # size + 1
    <3>1. i \in Created
      BY <1>1, <1>2, <2>3 DEF Created
    <3>2. status[i] = "confirmed"
      BY <1>5, <3>1 DEF Kept, EarliestSeatsKept
    <3> QED BY <1>2, <2>1, <2>3, <3>2
  <2> QED BY <2>2, <2>3
<1> QED BY <1>2, <1>4, <1>5 DEF Kept, EarliestSeatsKept

\* The sort keys of every port follow the order of creation.
LEMMA KeysInOrder ==
  ASSUME NEW a \in Actors
  PROVE  At(a) \in [Ids -> Nat] /\ \A i, j \in Ids : i <= j => At(a)[i] <= At(a)[j]
<1>1. CASE PortOf[a].reconcile.exact
  BY <1>1, MaxBookingsAssumption DEF At, Ids
<1>2. CASE ~PortOf[a].reconcile.exact
  BY <1>2, SecondAssumption DEF At
<1> QED BY <1>1, <1>2

LEMMA ReconcileKept ==
  ASSUME Kept, Sound', NEW a \in Actors,
         \/ \E list \in Lists : ReadList(a, list)
         \/ \E i \in Ids : Fix(a, i)
         \/ LogFix(a) \/ EndFix(a)
  PROVE  Kept'
<1>1. h[a] \in Handler /\ FitsAt(h[a], size) /\ PortOf[a] \in PortProfile
      /\ SteadyAt(h[a], PortOf[a].book.first, size, event.capacity)
      /\ size \in Nat /\ event.capacity \in Nat
  BY KeptFacts
<1>2. ASSUME NEW list \in Lists, ReadList(a, list) PROVE Kept'
  <2> DEFINE seen == Oldest(WithStatus(list), PortOf[a].reconcile.limit)
             c == IF list = "confirmed" THEN seen ELSE h[a].confirmed
             w == IF list = "waitlisted" THEN seen ELSE h[a].waitlisted
             promote == Promotions(c, w, At(a), h[a].capacity)
             demote == Demotions(c, w, At(a), h[a].capacity)
  <2>1. h[a].pc = "reads" /\ UNCHANGED <<size, status, event>>
    BY <1>2 DEF ReadList
  <2>2. h[a].capacity = event.capacity
    BY <1>1, <2>1 DEF SteadyAt
  <2>3. seen \subseteq WithStatus(list) /\ WithStatus(list) \subseteq Ids
    BY OldestSubset, CreatedIds DEF WithStatus, Kept
  <2>4. c \in SUBSET Ids /\ w \in SUBSET Ids
    BY <1>1, <2>3 DEF Handler
  <2>5. \A i \in w : i > event.capacity
    <3>1. CASE list = "waitlisted"
      <4>1. \A i \in WithStatus("waitlisted") : ~(i <= event.capacity)
        BY DEF WithStatus, Kept, EarliestSeatsKept
      <4>2. \A i \in w : i \in WithStatus("waitlisted") /\ i \in Ids
        BY <2>3, <3>1
      <4> QED BY <1>1, <4>1, <4>2, MaxBookingsAssumption DEF Ids
    <3>2. CASE list = "confirmed"
      BY <1>1, <3>2 DEF SteadyAt
    <3> QED BY <3>1, <3>2 DEF Lists
  <2>6. \A i \in demote : i > event.capacity
    <3> SUFFICES ASSUME NEW i \in demote, ~(i > event.capacity) PROVE FALSE
      OBVIOUS
    <3>1. i \in c /\ i \in 1..MaxBookings /\ i <= event.capacity
      BY <1>1, <2>4, MaxBookingsAssumption DEF Demotions, Ids
    <3> HIDE DEF c, w
    <3>2. i \notin Demotions(c, w, At(a), event.capacity)
      BY <1>1, <2>4, <2>5, <3>1, MaxBookingsAssumption, KeysInOrder, EarliestNotDemoted DEF Ids
    <3> QED BY <2>2, <3>2
  <2>7. CASE h[a].unread = {list}
    <3> DEFINE r == [h[a] EXCEPT !.pc = "fix", !.unread = {}, !.confirmed = {}, !.waitlisted = {},
                                 !.promote = promote, !.demote = demote]
    <3>1. h' = [h EXCEPT ![a] = r]
      BY <1>2, <2>7 DEF ReadList
    <3> HIDE DEF promote, demote
    <3>2. SteadyAt(r, PortOf[a].book.first, size, event.capacity)
      BY <1>1, <2>1, <2>2, <2>6 DEF Handler, SteadyAt
    <3> QED BY <2>1, <3>1, <3>2, KeptLocal
  <2>8. CASE h[a].unread # {list}
    <3> DEFINE r == [h[a] EXCEPT !.unread = h[a].unread \ {list}, !.confirmed = c, !.waitlisted = w]
    <3>1. h' = [h EXCEPT ![a] = r]
      BY <1>2, <2>8 DEF ReadList
    <3> HIDE DEF c, w
    <3>2. SteadyAt(r, PortOf[a].book.first, size, event.capacity)
      BY <1>1, <2>1, <2>5 DEF Handler, SteadyAt
    <3> QED BY <2>1, <3>1, <3>2, KeptLocal
  <2> QED BY <2>7, <2>8
<1>3. ASSUME NEW i \in Ids, Fix(a, i) PROVE Kept'
  <2>1. UNCHANGED <<size, event>> /\ size' \in Nat /\ size <= size' /\ size' = size
    BY <1>1, <1>3 DEF Fix
  <2>2. \A b \in Actors : SteadyAt(h'[b], PortOf[b].book.first, size', event'.capacity)
    <3>1. CASE i \in h[a].promote
      <4> DEFINE r == [h[a] EXCEPT !.promote = h[a].promote \ {i},
                                   !.logs = h[a].logs \union {<<i, "booking_promoted">>}]
      <4>1. h' = [h EXCEPT ![a] = r]
        BY <1>3, <3>1 DEF Fix
      <4>2. SteadyAt(r, PortOf[a].book.first, size, event.capacity)
        BY <1>1 DEF Handler, SteadyAt
      <4> QED BY <2>1, <4>1, <4>2, SteadyStep
    <3>2. CASE i \notin h[a].promote
      <4> DEFINE r == [h[a] EXCEPT !.demote = h[a].demote \ {i},
                                   !.logs = h[a].logs \union {<<i, "booking_waitlisted">>}]
      <4>1. h' = [h EXCEPT ![a] = r]
        BY <1>3, <3>2 DEF Fix
      <4>2. SteadyAt(r, PortOf[a].book.first, size, event.capacity)
        BY <1>1 DEF Handler, SteadyAt
      <4> QED BY <2>1, <4>1, <4>2, SteadyStep
    <3> QED BY <3>1, <3>2
  <2>3. EarliestSeatsKept'
    <3>1. CASE i \in h[a].promote
      <4>1. status' = [status EXCEPT ![i] = "confirmed"]
        BY <1>3, <3>1 DEF Fix
      <4> QED BY <2>1, <4>1 DEF Kept, Sound, TypeOK, EarliestSeatsKept, Created
    <3>2. CASE i \notin h[a].promote
      <4>1. status' = [status EXCEPT ![i] = "waitlisted"] /\ i \in h[a].demote
        BY <1>3, <3>2 DEF Fix
      <4>2. ~(i <= event.capacity)
        BY <1>1, <4>1, MaxBookingsAssumption DEF SteadyAt, Ids
      <4> QED BY <2>1, <4>1, <4>2 DEF Kept, Sound, TypeOK, EarliestSeatsKept, Created
    <3> QED BY <3>1, <3>2
  <2> QED BY <2>2, <2>3 DEF Kept
<1>4. CASE LogFix(a)
  <2>1. PICK entry \in h[a].logs : h' = [h EXCEPT ![a].logs = @ \ {entry}]
    BY <1>4 DEF LogFix
  <2> DEFINE r == [h[a] EXCEPT !.logs = h[a].logs \ {entry}]
  <2>2. h' = [h EXCEPT ![a] = r] /\ UNCHANGED <<size, status, event>>
    BY <1>4, <2>1 DEF LogFix
  <2>3. SteadyAt(r, PortOf[a].book.first, size, event.capacity)
    BY <1>1 DEF Handler, SteadyAt
  <2> QED BY <2>2, <2>3, KeptLocal
<1>5. CASE EndFix(a)
  <2>1. UNCHANGED <<size, status, event>> /\ h[a].pc = "fix"
    BY <1>5 DEF EndFix
  <2>2. CASE AfterFix(a) = "idle"
    BY <1>5, <2>1, <2>2, KeptFinish DEF EndFix
  <2>3. CASE AfterFix(a) = "reread"
    <3> DEFINE r == [h[a] EXCEPT !.pc = "reread"]
    <3>1. h' = [h EXCEPT ![a] = r]
      BY <1>5, <2>3 DEF EndFix, Goto
    <3>2. SteadyAt(r, PortOf[a].book.first, size, event.capacity)
      BY <1>1, <2>1 DEF Handler, SteadyAt
    <3> QED BY <2>1, <3>1, <3>2, KeptLocal
  <2>4. CASE AfterFix(a) = "report"
    <3> DEFINE r == [h[a] EXCEPT !.pc = "report", !.result = h[a].initial]
    <3>1. h' = [h EXCEPT ![a] = r]
      BY <1>5, <2>4 DEF EndFix
    <3>2. SteadyAt(r, PortOf[a].book.first, size, event.capacity)
      BY <1>1 DEF Handler, SteadyAt
    <3> QED BY <2>1, <3>1, <3>2, KeptLocal
  <2>5. AfterFix(a) \in {"idle", "reread", "report"}
    BY <1>1 DEF AfterFix, PortProfile, BookProfile
  <2> QED BY <2>2, <2>3, <2>4, <2>5
<1> QED BY <1>2, <1>3, <1>4, <1>5

LEMMA LogKept ==
  ASSUME Kept, Sound', NEW a \in Actors, Find(a) \/ Patch(a) \/ Save(a) \/ Log(a)
  PROVE  Kept'
<1>1. h[a] \in Handler /\ FitsAt(h[a], size)
      /\ SteadyAt(h[a], PortOf[a].book.first, size, event.capacity)
  BY KeptFacts
<1>2. h[a].op \in {"none", "book"} /\ h[a].pc \notin {"find", "patch", "save"}
  BY <1>1 DEF FitsAt, SteadyAt
<1>3. Log(a)
  BY <1>2 DEF Find, Patch, Save
<1>4. h[a].op = "book" /\ h[a].pc = "log"
  BY <1>1, <1>2, <1>3 DEF Log, FitsAt
<1>5. AfterLog(a) = "reads"
  BY <1>4 DEF AfterLog
<1> DEFINE r == [h[a] EXCEPT !.pc = "reads", !.unread = Lists]
<1>6. h' = [h EXCEPT ![a] = r] /\ UNCHANGED <<size, status, event>>
  BY <1>3, <1>5 DEF Log
<1>7. SteadyAt(r, PortOf[a].book.first, size, event.capacity)
  BY <1>1, <1>4 DEF Handler, SteadyAt
<1> QED BY <1>6, <1>7, KeptLocal

LEMMA DisruptKept ==
  ASSUME Kept, Sound', NEW a \in Actors, Disrupt(a)
  PROVE  Kept'
<1>1. h[a] \in Handler /\ FitsAt(h[a], size) /\ PortOf[a] \in PortProfile
      /\ SteadyAt(h[a], PortOf[a].book.first, size, event.capacity)
  BY KeptFacts
<1>2. CASE Fail(a)
  BY <1>2, KeptFinish DEF Fail
<1>3. ASSUME GiveUp(a), h[a].pc = "fix", UNCHANGED <<size, status, event>> PROVE Kept'
  <2>1. PICK promote \in SUBSET h[a].promote, demote \in SUBSET h[a].demote,
             logs \in SUBSET h[a].logs :
           h' = [h EXCEPT ![a] = [h[a] EXCEPT !.promote = promote, !.demote = demote,
                                              !.logs = logs, !.failed = TRUE]]
    BY <1>3, GiveUpRecord DEF Kept
  <2> DEFINE r == [h[a] EXCEPT !.promote = promote, !.demote = demote,
                               !.logs = logs, !.failed = TRUE]
  <2>2. SteadyAt(r, PortOf[a].book.first, size, event.capacity)
    BY <1>1 DEF Handler, SteadyAt
  <2> QED BY <1>3, <2>1, <2>2, KeptLocal
<1>4. CASE FailFix(a) \/ CancelSibling(a)
  BY <1>3, <1>4 DEF FailFix, CancelSibling
<1>5. CASE Expire(a)
  <2> DEFINE place == PortOf[a].retry[h[a].op]
             r == [Resting EXCEPT !.pc = place, !.op = h[a].op, !.user = h[a].user,
                                  !.capacity = h[a].capacity, !.skip = h[a].skip,
                                  !.target = IF h[a].op = "book" THEN 0 ELSE h[a].target]
  <2>1. h' = [h EXCEPT ![a] = r] /\ h[a].op # "none" /\ h[a].pc \in Behind(place)
        /\ UNCHANGED <<size, status, event>>
    BY <1>5 DEF Expire
  <2>2. h[a].op = "book"
    BY <1>1, <2>1 DEF SteadyAt
  <2>3. place \in {"here", "count"}
    BY <1>1, <2>2 DEF PortProfile, RetryProfile
  <2>4. place = "count"
    BY <2>1, <2>3 DEF Behind
  <2>5. h[a].pc \in {"create", "log", "reads", "fix", "reread"}
    BY <2>1, <2>4 DEF Behind
  <2>6. h[a].capacity = event.capacity
    BY <1>1, <2>5 DEF SteadyAt
  <2> HIDE DEF place
  <2>7. SteadyAt(r, PortOf[a].book.first, size, event.capacity)
    BY <2>2, <2>4, <2>6 DEF Resting, SteadyAt
  <2> QED BY <2>1, <2>7, KeptLocal
<1>6. CASE GateLost(a)
  BY <1>6, BookKept
<1>7. ~EventLost(a)
  BY <1>1 DEF EventLost, TakenForGone, SteadyAt
<1> QED BY <1>2, <1>4, <1>5, <1>6, <1>7 DEF Disrupt

LEMMA KeptNext == OnlyBookings /\ Kept /\ [Next]_vars => Kept'
<1> SUFFICES ASSUME OnlyBookings, Kept, [Next]_vars PROVE Kept'
  OBVIOUS
<1>1. Sound'
  BY SoundNext DEF Kept
<1>2. ASSUME NEW a \in Actors, Start(a) PROVE Kept'
  BY <1>1, <1>2, StartKept
<1>3. ASSUME NEW a \in Actors, Proceed(a) PROVE Kept'
  BY <1>1, <1>3, BookKept, CreateKept, LogKept, ReconcileKept DEF Proceed
<1>4. ASSUME NEW a \in Actors, Disrupt(a) PROVE Kept'
  BY <1>1, <1>4, DisruptKept
<1>5. CASE UNCHANGED vars
  BY <1>1, <1>5 DEF vars, Kept, EarliestSeatsKept, Created
<1> QED BY <1>2, <1>3, <1>4, <1>5 DEF Next

(***************************************************************************)
(* Where nobody cancels, checks in or edits, no booking among the first    *)
(* `capacity' is ever anything but confirmed.  The invariant alone says    *)
(* nothing of what a handler has already decided: Kept adds that nobody    *)
(* holds an outdated capacity, a waitlist with one of the first on it, a   *)
(* decision to create one of them waiting, or to demote one.               *)
(***************************************************************************)
THEOREM EarliestSeats ==
  ASSUME OnlyBookings
  PROVE  Spec => []EarliestSeatsKept
<1>1. Kept /\ [Next]_vars => Kept'
  BY KeptNext
<1>2. Kept => EarliestSeatsKept
  BY DEF Kept
<1> QED BY <1>1, <1>2, KeptInit, PTL DEF Spec

-----------------------------------------------------------------------------
(* A reconciliation nobody disturbs.                                       *)

\* Every page limit holds all bookings, and the creation times a port compares tell
\* every two of them apart.
CompleteLists ==
  \A a \in Actors :
    /\ MaxBookings <= PortOf[a].reconcile.limit
    /\ \A i, j \in Ids : i < j => At(a)[i] < At(a)[j]

\* What an undisturbed reconciliation with record r has in hand, when C are
\* confirmed and W wait: lists that are current, or corrections that lead from
\* C and W to where they should be.
SettlingAt(r, C, W) ==
  /\ r.pc \in {"reads", "fix"}
  /\ ~r.failed
  /\ r.pc = "reads" =>
       /\ \E list \in Lists : r.unread = {list}
       /\ "confirmed" \notin r.unread => r.confirmed = C
       /\ "waitlisted" \notin r.unread => r.waitlisted = W
  /\ r.pc = "fix" =>
       /\ r.promote \subseteq W /\ r.demote \subseteq C
       /\ Entitled((C \union r.promote) \ r.demote, (W \union r.demote) \ r.promote, r.capacity)

\* The inductive strengthening of SelfCorrection.
Settled == Sound /\ \A a \in clean : SettlingAt(h[a], Confirmed, Waitlisted)

LEMMA SettledFacts ==
  ASSUME Settled, NEW a \in Actors
  PROVE  /\ h \in [Actors -> Handler] /\ h[a] \in Handler /\ FitsAt(h[a], size)
         /\ clean \subseteq Actors /\ PortOf[a] \in PortProfile
         /\ a \in clean => SettlingAt(h[a], Confirmed, Waitlisted)
BY PortOfAssumption DEF Settled, Sound, TypeOK

LEMMA Lists2 ==
  ASSUME Sound
  PROVE  /\ Confirmed \in SUBSET Ids /\ Waitlisted \in SUBSET Ids
         /\ Confirmed \cap Waitlisted = {}
BY CreatedIds DEF Confirmed, Waitlisted, WithStatus

\* A step of a that writes no booking leaves the other reconciliations undisturbed.
LEMMA QuietSettled ==
  ASSUME Settled, Sound', NEW a \in Actors, \A b \in Actors : b # a => h'[b] = h[b],
         UNCHANGED <<size, status>>, clean' \subseteq clean \union {a},
         a \in clean' => SettlingAt(h'[a], Confirmed, Waitlisted)
  PROVE  Settled'
<1>1. Confirmed' = Confirmed /\ Waitlisted' = Waitlisted
  BY DEF Confirmed, Waitlisted, WithStatus, Created
<1>2. ASSUME NEW b \in clean', b # a PROVE SettlingAt(h'[b], Confirmed, Waitlisted)
  BY <1>2, SettledFacts DEF Settled
<1> QED BY <1>1, <1>2 DEF Settled

\* A step of a handler that is not reconciling.
LEMMA ElsewhereSettled ==
  ASSUME Settled, Sound', NEW a \in Actors, h[a].pc \notin {"reads", "fix"},
         \A b \in Actors : b # a => h'[b] = h[b], UNCHANGED <<size, status, clean>>
  PROVE  Settled'
<1>1. a \notin clean
  BY DEF Settled, SettlingAt
<1> QED BY <1>1, QuietSettled

\* A write of a handler that is not reconciling: nobody is undisturbed then.
LEMMA DisturbSettled ==
  ASSUME Settled, Sound', NEW a \in Actors, h[a].pc \notin {"reads", "fix"}, Disturb(a)
  PROVE  Settled'
<1>1. a \notin clean
  BY DEF Settled, SettlingAt
<1>2. clean' = {}
  BY <1>1 DEF Disturb
<1> QED BY <1>2 DEF Settled

LEMMA SettledInit == Init => Settled
BY SoundInit DEF Init, Settled

----------------------------------------------------------------------------
LEMMA OperationsSettled ==
  ASSUME Settled, Sound', NEW a \in Actors,
         \/ Start(a) \/ GateOpen(a) \/ GateLost(a) \/ GateShut(a) \/ ReadEvent(a) \/ Count(a) \/ Create(a)
         \/ Find(a) \/ Patch(a) \/ Save(a) \/ Log(a) \/ Reread(a) \/ Report(a)
  PROVE  Settled'
<1>1. h \in [Actors -> Handler]
  BY SettledFacts
<1> DEFINE Others == \A b \in Actors : b # a => h'[b] = h[b]
<1>2. CASE Start(a)
  <2>1. h[a].pc = "idle" /\ Others /\ UNCHANGED <<size, status, clean>>
    BY <1>1, <1>2 DEF Start, StartBook, StartCancel, StartCheckIn, StartEdit, Delete, MayStart
  <2> QED BY <2>1, ElsewhereSettled
<1>3. CASE GateOpen(a) \/ GateLost(a)
  <2>1. h[a].pc = "gate" /\ Others /\ UNCHANGED <<size, status, clean>>
    BY <1>1, <1>3 DEF GateOpen, GateLost, Goto
  <2> QED BY <2>1, ElsewhereSettled
<1>4. CASE GateShut(a)
  <2>1. h[a].pc = "gate" /\ Others /\ UNCHANGED <<size, status, clean>>
    BY <1>1, <1>4 DEF GateShut, Finish
  <2> QED BY <2>1, ElsewhereSettled
<1>5. CASE ReadEvent(a)
  <2>1. h[a].pc = "event" /\ Others /\ UNCHANGED <<size, status, clean>>
    BY <1>1, <1>5 DEF ReadEvent, Finish
  <2> QED BY <2>1, ElsewhereSettled
<1>6. CASE Count(a)
  <2>1. h[a].pc = "count" /\ Others /\ UNCHANGED <<size, status, clean>>
    BY <1>1, <1>6 DEF Count
  <2> QED BY <2>1, ElsewhereSettled
<1>7. CASE Create(a)
  BY <1>7, DisturbSettled DEF Create
<1>8. CASE Find(a)
  <2>1. h[a].op \in {"cancel", "checkin"} /\ h[a].pc = "find"
    BY <1>8, SettledFacts DEF Find, FitsAt
  <2>2. Others /\ UNCHANGED <<size, status, clean>>
    BY <1>1, <1>8, <2>1 DEF Find, Finish, Goto
  <2> QED BY <2>1, <2>2, ElsewhereSettled
<1>9. CASE Patch(a)
  BY <1>9, DisturbSettled DEF Patch
<1>10. CASE Save(a)
  <2>1. h[a].pc = "save" /\ Others /\ UNCHANGED <<size, status, clean>>
    BY <1>1, <1>10 DEF Save, Goto, Finish
  <2> QED BY <2>1, ElsewhereSettled
<1>11. CASE Log(a)
  <2>1. h[a].pc = "log" /\ h[a].op \in {"book", "cancel", "checkin", "edit"}
    BY <1>11, SettledFacts DEF Log, FitsAt
  <2>2. AfterLog(a) \in {"idle", "reads", "event", "report"}
    BY <2>1, SettledFacts DEF AfterLog, PortProfile, CancelProfile
  <2>3. Others /\ UNCHANGED <<size, status, clean>>
    BY <1>1, <1>11, <2>2 DEF Log, Finish, Goto
  <2> QED BY <2>1, <2>3, ElsewhereSettled
<1>12. CASE Reread(a)
  <2>1. h[a].pc = "reread" /\ Others /\ UNCHANGED <<size, status, clean>>
    BY <1>1, <1>12 DEF Reread
  <2> QED BY <2>1, ElsewhereSettled
<1>13. CASE Report(a)
  <2>1. h[a].pc = "report" /\ Others /\ UNCHANGED <<size, status, clean>>
    BY <1>1, <1>13 DEF Report, Finish
  <2> QED BY <2>1, ElsewhereSettled
<1> QED BY <1>2, <1>3, <1>4, <1>5, <1>6, <1>7, <1>8, <1>9, <1>10, <1>11, <1>12, <1>13

\* The second list of an undisturbed reconciliation makes its corrections right.
LEMMA ReadListSettled ==
  ASSUME CompleteLists, Settled, Sound', NEW a \in Actors, NEW list \in Lists, ReadList(a, list)
  PROVE  Settled'
<1>1. h \in [Actors -> Handler] /\ h[a] \in Handler /\ FitsAt(h[a], size)
      /\ clean \subseteq Actors /\ PortOf[a] \in PortProfile
      /\ (a \in clean => SettlingAt(h[a], Confirmed, Waitlisted))
  BY SettledFacts
<1> DEFINE seen == Oldest(WithStatus(list), PortOf[a].reconcile.limit)
           c == IF list = "confirmed" THEN seen ELSE h[a].confirmed
           w == IF list = "waitlisted" THEN seen ELSE h[a].waitlisted
           promote == Promotions(c, w, At(a), h[a].capacity)
           demote == Demotions(c, w, At(a), h[a].capacity)
<1>2. h[a].pc = "reads" /\ list \in h[a].unread /\ h[a].unread \in SUBSET Lists
      /\ ~h[a].failed /\ h[a].capacity \in Nat /\ UNCHANGED <<size, status>>
  BY <1>1 DEF ReadList, FitsAt, Handler, Capacity
<1>3. seen = WithStatus(list)
  <2>1. WithStatus(list) \in SUBSET (1..MaxBookings)
    BY CreatedIds DEF WithStatus, Settled, Ids
  <2>2. PortOf[a].reconcile.limit \in Nat /\ MaxBookings <= PortOf[a].reconcile.limit
    BY <1>1 DEF CompleteLists, PortProfile, ReconcileProfile
  <2> QED BY <2>1, <2>2, MaxBookingsAssumption, OldestIsAll
<1>4. (list = "confirmed" => c = Confirmed) /\ (list = "waitlisted" => w = Waitlisted)
  BY <1>3 DEF Confirmed, Waitlisted
<1>5. CASE h[a].unread = {list}
  <2> DEFINE r == [h[a] EXCEPT !.pc = "fix", !.unread = {}, !.confirmed = {}, !.waitlisted = {},
                               !.promote = promote, !.demote = demote]
  <2>1. h' = [h EXCEPT ![a] = r]
    BY <1>5 DEF ReadList
  <2>2. clean' = clean
    <3>1. h[a].unread # Lists
      BY <1>5 DEF Lists
    <3> QED BY <3>1 DEF ReadList
  <2>3. (\A b \in Actors : b # a => h'[b] = h[b]) /\ h'[a] = r
    BY <1>1, <2>1
  <2>4. ASSUME a \in clean PROVE SettlingAt(r, Confirmed, Waitlisted)
    <3>1. c = Confirmed /\ w = Waitlisted
      BY <1>1, <1>2, <1>4, <1>5, <2>4 DEF SettlingAt, Lists
    <3>2. Confirmed \in SUBSET (1..MaxBookings) /\ Waitlisted \in SUBSET (1..MaxBookings)
          /\ Confirmed \cap Waitlisted = {}
      BY Lists2 DEF Settled, Ids
    <3>3. /\ At(a) \in [1..MaxBookings -> Nat]
          /\ \A i, j \in 1..MaxBookings : i < j => At(a)[i] < At(a)[j]
      BY KeysInOrder DEF CompleteLists, Ids
    <3>4. promote = Promotions(Confirmed, Waitlisted, At(a), h[a].capacity)
          /\ demote = Demotions(Confirmed, Waitlisted, At(a), h[a].capacity)
      BY <3>1
    <3> HIDE DEF promote, demote
    <3>5. /\ promote \subseteq Waitlisted /\ demote \subseteq Confirmed
          /\ Entitled((Confirmed \union promote) \ demote,
                      (Waitlisted \union demote) \ promote, h[a].capacity)
      <4> DEFINE C == Confirmed
                 W == Waitlisted
                 at == At(a)
                 capacity == h[a].capacity
      <4>1. C \in SUBSET (1..MaxBookings) /\ W \in SUBSET (1..MaxBookings) /\ C \cap W = {}
            /\ capacity \in Nat /\ MaxBookings \in Nat /\ at \in [1..MaxBookings -> Nat]
            /\ (\A i, j \in 1..MaxBookings : i < j => at[i] < at[j])
            /\ promote = Promotions(C, W, at, capacity) /\ demote = Demotions(C, W, at, capacity)
        BY <1>2, <3>2, <3>3, <3>4, MaxBookingsAssumption
      <4> HIDE DEF C, W, at, capacity
      <4>2. promote \subseteq W /\ demote \subseteq C
            /\ Entitled((C \union promote) \ demote, (W \union demote) \ promote, capacity)
        BY <4>1, PassSettles
      <4> QED BY <4>2 DEF C, W, capacity
    <3>6. r.pc = "fix" /\ ~r.failed /\ r.promote = promote /\ r.demote = demote
          /\ r.capacity = h[a].capacity
      BY <1>1, <1>2 DEF Handler
    <3> QED BY <3>5, <3>6 DEF SettlingAt
  <2> HIDE DEF r
  <2> QED BY <1>2, <2>2, <2>3, <2>4, QuietSettled
<1>6. CASE h[a].unread # {list}
  <2>1. h[a].unread = Lists
    BY <1>2, <1>6 DEF Lists
  <2> DEFINE r == [h[a] EXCEPT !.unread = h[a].unread \ {list}, !.confirmed = c, !.waitlisted = w]
  <2>2. h' = [h EXCEPT ![a] = r]
    BY <1>6 DEF ReadList
  <2>3. clean' = clean \union {a}
    BY <2>1 DEF ReadList
  <2>4. (\A b \in Actors : b # a => h'[b] = h[b]) /\ h'[a] = r
    BY <1>1, <2>2
  <2> HIDE DEF c, w
  <2>5. r.pc = "reads" /\ ~r.failed /\ r.unread = Lists \ {list} /\ r.confirmed = c /\ r.waitlisted = w
    BY <1>1, <1>2, <2>1 DEF Handler
  <2> HIDE DEF r
  <2>6. SettlingAt(r, Confirmed, Waitlisted)
    <3>1. CASE list = "confirmed"
      <4>1. r.unread = {"waitlisted"} /\ r.confirmed = Confirmed
        BY <1>4, <2>5, <3>1 DEF Lists
      <4> QED BY <2>5, <4>1 DEF SettlingAt, Lists
    <3>2. CASE list = "waitlisted"
      <4>1. r.unread = {"confirmed"} /\ r.waitlisted = Waitlisted
        BY <1>4, <2>5, <3>2 DEF Lists
      <4> QED BY <2>5, <4>1 DEF SettlingAt, Lists
    <3> QED BY <3>1, <3>2 DEF Lists
  <2> QED BY <1>2, <2>3, <2>4, <2>6, QuietSettled
<1> QED BY <1>5, <1>6

\* A correction made brings the event one booking closer.
LEMMA FixSettled ==
  ASSUME Settled, Sound', NEW a \in Actors, NEW i \in Ids, Fix(a, i)
  PROVE  Settled'
<1>1. h \in [Actors -> Handler] /\ h[a] \in Handler
      /\ (a \in clean => SettlingAt(h[a], Confirmed, Waitlisted))
      /\ status \in [Ids -> Status \union {None}]
  BY SettledFacts DEF Settled, Sound, TypeOK
<1>2. clean' = clean \intersect {a} /\ h[a].pc = "fix" /\ size' = size
  BY DEF Fix, Disturb
<1>3. ASSUME a \in clean PROVE SettlingAt(h'[a], Confirmed', Waitlisted')
  <2>1. /\ ~h[a].failed /\ h[a].promote \subseteq Waitlisted /\ h[a].demote \subseteq Confirmed
        /\ Entitled((Confirmed \union h[a].promote) \ h[a].demote,
                    (Waitlisted \union h[a].demote) \ h[a].promote, h[a].capacity)
    BY <1>1, <1>2, <1>3 DEF SettlingAt
  <2>2. Confirmed \cap Waitlisted = {}
    BY Lists2 DEF Settled
  <2>3. Created' = Created
    BY <1>2 DEF Created
  <2>4. CASE i \in h[a].promote
    <3>1. status' = [status EXCEPT ![i] = "confirmed"] /\ i \in Waitlisted
      BY <2>1, <2>4 DEF Fix
    <3>2. Confirmed' = Confirmed \union {i} /\ Waitlisted' = Waitlisted \ {i}
      BY <1>1, <2>3, <3>1 DEF Confirmed, Waitlisted, WithStatus
    <3>3. /\ h'[a].pc = "fix" /\ ~h'[a].failed /\ h'[a].promote = h[a].promote \ {i}
          /\ h'[a].demote = h[a].demote /\ h'[a].capacity = h[a].capacity
      BY <1>1, <1>2, <2>1, <2>4 DEF Fix, Handler
    <3>4. (Confirmed' \union h'[a].promote) \ h'[a].demote
            = (Confirmed \union h[a].promote) \ h[a].demote
      BY <2>4, <3>2, <3>3
    <3>5. (Waitlisted' \union h'[a].demote) \ h'[a].promote
            = (Waitlisted \union h[a].demote) \ h[a].promote
      BY <2>1, <2>2, <2>4, <3>1, <3>2, <3>3
    <3>6. h'[a].promote \subseteq Waitlisted' /\ h'[a].demote \subseteq Confirmed'
      BY <2>1, <3>2, <3>3
    <3>7. Entitled((Confirmed' \union h'[a].promote) \ h'[a].demote,
                   (Waitlisted' \union h'[a].demote) \ h'[a].promote, h'[a].capacity)
      BY <2>1, <3>3, <3>4, <3>5
    <3> QED BY <3>3, <3>6, <3>7 DEF SettlingAt
  <2>5. CASE i \notin h[a].promote
    <3>1. status' = [status EXCEPT ![i] = "waitlisted"] /\ i \in h[a].demote /\ i \in Confirmed
      BY <2>1, <2>5 DEF Fix
    <3>2. Confirmed' = Confirmed \ {i} /\ Waitlisted' = Waitlisted \union {i}
      BY <1>1, <2>3, <3>1 DEF Confirmed, Waitlisted, WithStatus
    <3>3. /\ h'[a].pc = "fix" /\ ~h'[a].failed /\ h'[a].promote = h[a].promote
          /\ h'[a].demote = h[a].demote \ {i} /\ h'[a].capacity = h[a].capacity
      BY <1>1, <1>2, <2>1, <2>5 DEF Fix, Handler
    <3>4. (Confirmed' \union h'[a].promote) \ h'[a].demote
            = (Confirmed \union h[a].promote) \ h[a].demote
      BY <2>1, <2>2, <2>5, <3>1, <3>2, <3>3
    <3>5. (Waitlisted' \union h'[a].demote) \ h'[a].promote
            = (Waitlisted \union h[a].demote) \ h[a].promote
      BY <2>5, <3>1, <3>2, <3>3
    <3>6. h'[a].promote \subseteq Waitlisted' /\ h'[a].demote \subseteq Confirmed'
      BY <2>1, <3>2, <3>3
    <3>7. Entitled((Confirmed' \union h'[a].promote) \ h'[a].demote,
                   (Waitlisted' \union h'[a].demote) \ h'[a].promote, h'[a].capacity)
      BY <2>1, <3>3, <3>4, <3>5
    <3> QED BY <3>3, <3>6, <3>7 DEF SettlingAt
  <2> QED BY <2>4, <2>5
<1> QED BY <1>2, <1>3 DEF Settled

LEMMA RestSettled ==
  ASSUME Settled, Sound', NEW a \in Actors, LogFix(a) \/ EndFix(a) \/ Disrupt(a)
  PROVE  Settled'
<1>1. h \in [Actors -> Handler] /\ h[a] \in Handler /\ PortOf[a] \in PortProfile
      /\ (a \in clean => SettlingAt(h[a], Confirmed, Waitlisted))
  BY SettledFacts
<1> DEFINE Others == \A b \in Actors : b # a => h'[b] = h[b]
<1>2. CASE LogFix(a)
  <2>1. PICK entry \in h[a].logs : h' = [h EXCEPT ![a].logs = @ \ {entry}]
    BY <1>2 DEF LogFix
  <2>2. Others /\ h'[a] = [h[a] EXCEPT !.logs = h[a].logs \ {entry}]
    BY <1>1, <2>1
  <2>3. h[a].pc = "fix" /\ UNCHANGED <<size, status, clean>>
    BY <1>2 DEF LogFix
  <2>4. ASSUME a \in clean PROVE SettlingAt(h'[a], Confirmed, Waitlisted)
    BY <1>1, <2>2, <2>3, <2>4 DEF SettlingAt, Handler
  <2> QED BY <2>2, <2>3, <2>4, QuietSettled
<1>3. ASSUME Others, UNCHANGED <<size, status>>, clean' = clean \ {a} PROVE Settled'
  BY <1>3, QuietSettled
<1>4. CASE EndFix(a)
  <2>1. AfterFix(a) \in {"idle", "reread", "report"}
    BY <1>1 DEF AfterFix, PortProfile, BookProfile
  <2>2. Others
    BY <1>1, <1>4, <2>1 DEF EndFix, Finish, Goto
  <2> QED BY <1>3, <1>4, <2>2 DEF EndFix
<1>5. CASE Fail(a)
  BY <1>1, <1>3, <1>5 DEF Fail, Finish
<1>6. GiveUp(a) => Others
  BY <1>1 DEF GiveUp
<1>7. CASE FailFix(a)
  BY <1>3, <1>6, <1>7 DEF FailFix
<1>8. CASE CancelSibling(a)
  <2>1. a \notin clean
    BY <1>1, <1>8 DEF CancelSibling, SettlingAt
  <2>2. UNCHANGED <<size, status, clean>>
    BY <1>8 DEF CancelSibling
  <2> QED BY <1>6, <1>8, <2>1, <2>2, QuietSettled DEF CancelSibling
<1>9. CASE Expire(a)
  <2>1. Others
    BY <1>1, <1>9 DEF Expire
  <2> QED BY <1>3, <1>9, <2>1 DEF Expire
<1>10. CASE GateLost(a)
  BY <1>10, OperationsSettled
<1>11. CASE EventLost(a)
  BY <1>1, <1>3, <1>11 DEF EventLost
<1> QED BY <1>2, <1>4, <1>5, <1>7, <1>8, <1>9, <1>10, <1>11 DEF Disrupt

LEMMA SettledNext == CompleteLists /\ Settled /\ [Next]_vars => Settled'
<1> SUFFICES ASSUME CompleteLists, Settled, [Next]_vars PROVE Settled'
  OBVIOUS
<1>1. Sound'
  BY SoundNext DEF Settled
<1>2. ASSUME NEW a \in Actors, Start(a) \/ Proceed(a) \/ Disrupt(a) PROVE Settled'
  BY <1>1, <1>2, OperationsSettled, ReadListSettled, FixSettled, RestSettled DEF Proceed
<1>3. CASE UNCHANGED vars
  BY <1>1, <1>3 DEF vars, Settled, Confirmed, Waitlisted, WithStatus, Created
<1> QED BY <1>2, <1>3 DEF Next

(***************************************************************************)
(* Once a reconciliation whose two lists were read, and whose corrections  *)
(* were written, without another write to a booking in between has written *)
(* the last of them, the oldest live bookings hold the seats of the        *)
(* capacity it knows and the others wait.                                  *)
(***************************************************************************)
THEOREM Corrected ==
  ASSUME CompleteLists
  PROVE  Spec => []SelfCorrection
<1>1. Settled /\ [Next]_vars => Settled'
  BY SettledNext
<1>2. Settled => SelfCorrection
  <2> SUFFICES ASSUME Settled, NEW a \in clean,
                      h[a].pc = "fix", h[a].promote = {}, h[a].demote = {}
               PROVE  Entitled(Confirmed, Waitlisted, h[a].capacity)
    BY DEF SelfCorrection
  <2>1. Entitled((Confirmed \union {}) \ {}, (Waitlisted \union {}) \ {}, h[a].capacity)
    BY DEF Settled, SettlingAt
  <2>2. (Confirmed \union {}) \ {} = Confirmed /\ (Waitlisted \union {}) \ {} = Waitlisted
    OBVIOUS
  <2> QED BY <2>1, <2>2
<1> QED BY <1>1, <1>2, SettledInit, PTL DEF Spec

-----------------------------------------------------------------------------
(* One operation at a time.                                                *)

\* An idle handler holds nothing, a busy one does what it was asked, and no two
\* are busy.
Alone ==
  /\ Sound
  /\ \A a \in Actors : /\ h[a].pc = "idle" => h[a] = Resting
                       /\ h[a].op \in Ops[a] \union {"none"}
  /\ \A a, b \in Actors : h[a].pc # "idle" /\ h[b].pc # "idle" => a = b

\* What a step does to the record of the handler that takes it: the operation is
\* over, or it is still the same one.
Onward(r, s) ==
  \/ s = Resting
  \/ /\ s.pc # "idle" /\ s.op = r.op /\ s.user = r.user
     /\ r.op # "book" => s.target = r.target

LEMMA Records ==
  ASSUME Sound, NEW a \in Actors
  PROVE  /\ h \in [Actors -> Handler] /\ h[a] \in Handler /\ FitsAt(h[a], size)
         /\ PortOf[a] \in PortProfile
BY PortOfAssumption DEF Sound, TypeOK

-----------------------------------------------------------------------------
(* What each step makes of the record of the handler that takes it: r      *)
(* before the step, s after it, p the port of the handler.                 *)

\* Still the same operation, with all it knows.
SameTask(r, s) ==
  /\ s.op = r.op /\ s.user = r.user /\ s.target = r.target
  /\ s.capacity = r.capacity /\ s.skip = r.skip /\ s.initial = r.initial

\* The corrections are untouched.
SameFixes(r, s) ==
  s.promote = r.promote /\ s.demote = r.demote /\ s.logs = r.logs /\ s.failed = r.failed

PassesGate(p, r, s) ==
  /\ r.pc = "gate" /\ r.op = "book" /\ SameTask(r, s) /\ SameFixes(r, s)
  /\ \/ p.book.first = "gate" /\ s.pc = "event"
     \/ p.book.first = "event" /\ s.pc = "count"

LEMMA GateRecord ==
  ASSUME Sound, NEW a \in Actors, GateOpen(a) \/ GateLost(a)
  PROVE  PassesGate(PortOf[a], h[a], h'[a])
<1>1. h[a].pc = "gate" /\ h'[a] = [h[a] EXCEPT !.pc = AfterGate(a)]
  BY Records DEF GateOpen, GateLost, Goto
<1>2. h[a].op = "book"
  BY <1>1, Records DEF FitsAt
<1>3. SameTask(h[a], h'[a]) /\ SameFixes(h[a], h'[a]) /\ h'[a].pc = AfterGate(a)
  BY <1>1, Records DEF SameTask, SameFixes, Handler
<1>4. PortOf[a].book.first \in {"event", "gate"}
  BY Records DEF PortProfile, BookProfile
<1> QED BY <1>1, <1>2, <1>3, <1>4 DEF AfterGate, PassesGate

\* It has read the event, or made up its mind about a deleted one.
Knows(r, s, place, capacity, unread) ==
  /\ s.pc = place /\ s.capacity = capacity /\ s.unread = unread
  /\ s.op = r.op /\ s.user = r.user /\ s.target = r.target
  /\ s.skip = r.skip /\ s.initial = r.initial /\ SameFixes(r, s)

ReadsEvent(p, r, s, e) ==
  /\ r.pc = "event" /\ r.op \in {"book", "cancel"}
  /\ \/ /\ s = Resting /\ ~e.exists
        /\ r.op = "cancel" => p.cancel.gone # "unbounded"
     \/ /\ r.op = "book" /\ e.exists
        /\ \/ p.book.first = "gate" /\ Knows(r, s, "count", e.capacity, {})
           \/ p.book.first = "event" /\ Knows(r, s, "gate", e.capacity, {})
     \/ /\ r.op = "cancel" /\ e.exists
        /\ \/ p.cancel.event = "before" /\ Knows(r, s, "patch", e.capacity, {})
           \/ p.cancel.event = "after" /\ Knows(r, s, "reads", e.capacity, Lists)
     \/ /\ r.op = "cancel" /\ ~e.exists /\ p.cancel.gone = "unbounded"
        /\ \/ p.cancel.event = "before" /\ Knows(r, s, "patch", Unbounded, {})
           \/ p.cancel.event = "after" /\ Knows(r, s, "reads", Unbounded, Lists)
     \/ /\ r.op = "cancel" /\ ~e.exists /\ p.cancel.event = "before" /\ p.cancel.gone = "skip"
        /\ s.pc = "patch" /\ s.skip
        /\ s.op = r.op /\ s.user = r.user /\ s.target = r.target /\ s.capacity = r.capacity
        /\ s.initial = r.initial /\ SameFixes(r, s)

LEMMA ReadEventRecord ==
  ASSUME Sound, NEW a \in Actors, ReadEvent(a)
  PROVE  ReadsEvent(PortOf[a], h[a], h'[a], event)
<1>1. h \in [Actors -> Handler] /\ h[a] \in Handler /\ FitsAt(h[a], size) /\ PortOf[a] \in PortProfile
  BY Records
<1>2. h[a].pc = "event" /\ h[a].op \in {"book", "cancel"}
  BY <1>1 DEF ReadEvent, FitsAt
<1> DEFINE cancelling == h[a].op = "cancel"
           next == CASE ~cancelling -> IF PortOf[a].book.first = "gate" THEN "count" ELSE "gate"
                     [] cancelling /\ PortOf[a].cancel.event = "before" -> "patch"
                     [] cancelling /\ PortOf[a].cancel.event = "after" -> "reads"
           unread == IF next = "reads" THEN Lists ELSE {}
<1>3. /\ PortOf[a].book.first \in {"event", "gate"}
      /\ PortOf[a].cancel.event \in {"before", "after"}
  BY <1>1 DEF PortProfile, BookProfile, CancelProfile
<1>4. \/ ~cancelling /\ PortOf[a].book.first = "gate" /\ next = "count" /\ unread = {}
      \/ ~cancelling /\ PortOf[a].book.first = "event" /\ next = "gate" /\ unread = {}
      \/ cancelling /\ PortOf[a].cancel.event = "before" /\ next = "patch" /\ unread = {}
      \/ cancelling /\ PortOf[a].cancel.event = "after" /\ next = "reads" /\ unread = Lists
  BY <1>3
<1>5. \/ /\ event.exists
         /\ h' = [h EXCEPT ![a].pc = next, ![a].capacity = event.capacity, ![a].unread = unread]
      \/ /\ ~event.exists /\ Gone(a) = "unbounded"
         /\ h' = [h EXCEPT ![a].pc = next, ![a].capacity = Unbounded, ![a].unread = unread]
      \/ /\ ~event.exists /\ Gone(a) = "skip" /\ next = "patch"
         /\ h' = [h EXCEPT ![a].pc = "patch", ![a].skip = TRUE]
      \/ ~event.exists /\ Gone(a) # "unbounded" /\ Finish(a)
  <2> HIDE DEF next, unread
  <2>1. CASE event.exists
    BY <2>1 DEF ReadEvent, next, unread
  <2>2. CASE ~event.exists /\ Gone(a) = "unbounded"
    BY <2>2 DEF ReadEvent, next, unread
  <2>3. CASE ~event.exists /\ Gone(a) # "unbounded" /\ Gone(a) = "skip" /\ next = "patch"
    BY <2>3 DEF ReadEvent, next, unread
  <2>4. CASE ~event.exists /\ Gone(a) # "unbounded" /\ ~(Gone(a) = "skip" /\ next = "patch")
    BY <2>4 DEF ReadEvent, next, unread
  <2> QED BY <2>1, <2>2, <2>3, <2>4
<1> HIDE DEF next, unread
<1>6. ASSUME NEW capacity,
             h' = [h EXCEPT ![a].pc = next, ![a].capacity = capacity, ![a].unread = unread]
      PROVE  Knows(h[a], h'[a], next, capacity, unread)
  BY <1>1, <1>6 DEF Knows, SameFixes, Handler
<1>7. (cancelling => Gone(a) = PortOf[a].cancel.gone) /\ (~cancelling => Gone(a) = "abort")
  BY DEF Gone
<1>8. \/ event.exists /\ Knows(h[a], h'[a], next, event.capacity, unread)
      \/ /\ ~event.exists /\ cancelling /\ PortOf[a].cancel.gone = "unbounded"
         /\ Knows(h[a], h'[a], next, Unbounded, unread)
      \/ /\ ~event.exists /\ cancelling /\ PortOf[a].cancel.gone = "skip" /\ next = "patch"
         /\ h'[a] = [h[a] EXCEPT !.pc = "patch", !.skip = TRUE]
      \/ ~event.exists /\ (cancelling => PortOf[a].cancel.gone # "unbounded") /\ h'[a] = Resting
  BY <1>1, <1>5, <1>6, <1>7 DEF Finish
<1>9. CASE event.exists
  <2>1. Knows(h[a], h'[a], next, event.capacity, unread)
    BY <1>8, <1>9
  <2> QED BY <1>2, <1>4, <1>9, <2>1 DEF ReadsEvent
<1>10. CASE ~event.exists /\ cancelling /\ PortOf[a].cancel.gone = "unbounded"
  <2>1. Knows(h[a], h'[a], next, Unbounded, unread)
    BY <1>8, <1>10
  <2> QED BY <1>2, <1>4, <1>10, <2>1 DEF ReadsEvent
<1>11. CASE /\ ~event.exists /\ cancelling /\ PortOf[a].cancel.gone = "skip" /\ next = "patch"
            /\ h'[a] = [h[a] EXCEPT !.pc = "patch", !.skip = TRUE]
  <2> DEFINE r == h[a]
             s == h'[a]
  <2>1. /\ s.pc = "patch" /\ s.skip
        /\ s.op = r.op /\ s.user = r.user /\ s.target = r.target /\ s.capacity = r.capacity
        /\ s.initial = r.initial /\ SameFixes(r, s)
    BY <1>1, <1>11 DEF Handler, SameFixes
  <2>2. PortOf[a].cancel.event = "before"
    BY <1>4, <1>11
  <2> HIDE DEF r, s
  <2>3. ReadsEvent(PortOf[a], r, s, event)
    BY <1>2, <1>11, <2>1, <2>2 DEF ReadsEvent, r
  <2> QED BY <2>3 DEF r, s
<1>12. CASE ~event.exists /\ (cancelling => PortOf[a].cancel.gone # "unbounded") /\ h'[a] = Resting
  BY <1>2, <1>12 DEF ReadsEvent
<1> QED BY <1>8, <1>9, <1>10, <1>11, <1>12

Counts(r, s, C) ==
  /\ r.pc = "count" /\ r.op = "book"
  /\ s.pc = "create"
  /\ s.initial = IF Cardinality(C) < r.capacity THEN "confirmed" ELSE "waitlisted"
  /\ s.op = r.op /\ s.user = r.user /\ s.target = r.target
  /\ s.capacity = r.capacity /\ s.skip = r.skip /\ SameFixes(r, s)

LEMMA CountRecord ==
  ASSUME Sound, NEW a \in Actors, Count(a)
  PROVE  Counts(h[a], h'[a], Confirmed)
<1> DEFINE r == h[a]
           s == h'[a]
           initial == IF Cardinality(Confirmed) < r.capacity THEN "confirmed" ELSE "waitlisted"
<1>1. r.pc = "count" /\ r.op = "book"
  BY Records DEF Count, FitsAt
<1>2. h' = [h EXCEPT ![a].pc = "create", ![a].initial = initial]
  BY DEF Count, Confirmed
<1> HIDE DEF initial
<1>3. /\ s.pc = "create" /\ s.initial = initial
      /\ s.op = r.op /\ s.user = r.user /\ s.target = r.target
      /\ s.capacity = r.capacity /\ s.skip = r.skip /\ SameFixes(r, s)
  BY <1>2, Records DEF SameFixes, Handler
<1> HIDE DEF r, s
<1>4. Counts(r, s, Confirmed)
  BY <1>1, <1>3 DEF Counts, initial
<1> QED BY <1>4 DEF r, s

Creates(r, s, n) ==
  /\ r.pc = "create" /\ r.op = "book"
  /\ s.pc = "log" /\ s.target = n + 1
  /\ s.op = r.op /\ s.user = r.user /\ s.capacity = r.capacity /\ s.skip = r.skip
  /\ s.initial = r.initial /\ SameFixes(r, s)

LEMMA CreateRecord ==
  ASSUME Sound, NEW a \in Actors, Create(a)
  PROVE  /\ Creates(h[a], h'[a], size)
         /\ size' = size + 1 /\ size + 1 \in Ids
         /\ status' = [status EXCEPT ![size + 1] = h[a].initial]
         /\ owner' = [owner EXCEPT ![size + 1] = h[a].user]
<1>1. h[a].pc = "create" /\ h[a].op = "book"
  BY Records DEF Create, FitsAt
<1>2. size + 1 \in Ids
  BY SizeType, MaxBookingsAssumption DEF Create, Ids
<1>3. Creates(h[a], h'[a], size)
  BY <1>1, Records DEF Create, Creates, SameFixes, Handler
<1> QED BY <1>2, <1>3 DEF Create

Finds(p, r, s, found) ==
  /\ r.pc = "find" /\ r.op \in {"cancel", "checkin"}
  /\ \/ s = Resting /\ (r.op = "cancel" => found \notin p.cancel.accepts)
     \/ /\ SameTask(r, s) /\ SameFixes(r, s)
        /\ \/ r.op = "cancel" /\ p.cancel.event = "before" /\ s.pc = "event"
           \/ r.op = "cancel" /\ p.cancel.event = "after" /\ s.pc = "patch"
           \/ r.op = "checkin" /\ found = "confirmed" /\ s.pc = "patch"

LEMMA FindRecord ==
  ASSUME Sound, NEW a \in Actors, Find(a)
  PROVE  Finds(PortOf[a], h[a], h'[a], status[h[a].target])
<1> DEFINE r == h[a]
           s == h'[a]
           found == status[r.target]
<1>1. r.pc = "find" /\ r.op \in {"cancel", "checkin"}
  BY Records DEF Find, FitsAt
<1>2. ASSUME NEW place, Goto(a, place)
      PROVE  s.pc = place /\ SameTask(r, s) /\ SameFixes(r, s)
  BY <1>2, Records DEF Goto, SameTask, SameFixes, Handler
<1>3. \/ Finish(a) /\ (r.op = "cancel" => found \notin PortOf[a].cancel.accepts)
      \/ r.op = "cancel" /\ Goto(a, BeforeWrite(a))
      \/ r.op = "checkin" /\ found = "confirmed" /\ Goto(a, "patch")
  BY <1>1 DEF Find
<1>4. Finish(a) => s = Resting
  BY Records DEF Finish
<1>5. \/ PortOf[a].cancel.event = "before" /\ BeforeWrite(a) = "event"
      \/ PortOf[a].cancel.event = "after" /\ BeforeWrite(a) = "patch"
  BY Records DEF BeforeWrite, PortProfile, CancelProfile
<1> HIDE DEF r, s, found
<1>6. Finds(PortOf[a], r, s, found)
  BY <1>1, <1>2, <1>3, <1>4, <1>5 DEF Finds
<1> QED BY <1>6 DEF r, s, found

Patches(r, s) ==
  /\ r.pc = "patch" /\ r.op \in {"cancel", "checkin"}
  /\ s.pc = "log" /\ SameTask(r, s) /\ SameFixes(r, s)

LEMMA PatchRecord ==
  ASSUME Sound, NEW a \in Actors, Patch(a)
  PROVE  /\ Patches(h[a], h'[a]) /\ h[a].target \in Ids /\ h[a].target \in Created
         /\ status' = [status EXCEPT ![h[a].target] =
                         IF h[a].op = "cancel" THEN "cancelled" ELSE "checked_in"]
<1>1. h[a].pc = "patch" /\ h[a].op \in {"cancel", "checkin"} /\ h[a].target \in Created
  BY Records DEF Patch, FitsAt, Created
<1>2. h[a].target \in Ids
  BY <1>1, CreatedIds
<1>3. Patches(h[a], h'[a])
  BY <1>1, Records DEF Patch, Goto, Patches, SameTask, SameFixes, Handler
<1> QED BY <1>1, <1>2, <1>3 DEF Patch

Saves(r, s, e, f) ==
  /\ r.pc = "save" /\ r.op = "edit"
  /\ \/ s = Resting /\ ~e.exists /\ f = e
     \/ /\ e.exists /\ s.pc = "log" /\ SameTask(r, s) /\ SameFixes(r, s)
        /\ f.exists /\ f.capacity = r.capacity

LEMMA SaveRecord ==
  ASSUME Sound, NEW a \in Actors, Save(a)
  PROVE  Saves(h[a], h'[a], event, event')
<1>1. h[a].pc = "save" /\ h[a].op = "edit"
  BY Records DEF Save, FitsAt
<1>2. event \in [capacity : Capacities, exists : BOOLEAN]
  BY DEF Sound, TypeOK
<1>3. CASE event.exists
  <2>1. event' = [event EXCEPT !.capacity = h[a].capacity] /\ h'[a] = [h[a] EXCEPT !.pc = "log"]
    BY <1>3, Records DEF Save, Goto
  <2>2. event'.exists /\ event'.capacity = h[a].capacity
    BY <1>2, <1>3, <2>1
  <2>3. h'[a].pc = "log" /\ SameTask(h[a], h'[a]) /\ SameFixes(h[a], h'[a])
    BY <2>1, Records DEF SameTask, SameFixes, Handler
  <2> QED BY <1>1, <1>3, <2>2, <2>3 DEF Saves
<1>4. CASE ~event.exists
  BY <1>1, <1>4, Records DEF Save, Finish, Saves
<1> QED BY <1>3, <1>4

Logs(p, r, s) ==
  /\ r.pc = "log" /\ r.op \in {"book", "cancel", "checkin", "edit"}
  /\ \/ s = Resting /\ r.op = "cancel" /\ p.cancel.event = "before" /\ r.skip
     \/ s = Resting /\ r.op = "edit" /\ ~p.edit.reconciles
     \/ /\ SameTask(r, s) /\ SameFixes(r, s)
        /\ \/ /\ \/ r.op = "book"
                 \/ r.op = "cancel" /\ p.cancel.event = "before" /\ ~r.skip
                 \/ r.op = "edit" /\ p.edit.reconciles
              /\ s.pc = "reads" /\ s.unread = Lists
           \/ r.op = "cancel" /\ p.cancel.event = "after" /\ s.pc = "event"
           \/ r.op = "checkin" /\ s.pc = "report"

LEMMA LogRecord ==
  ASSUME Sound, NEW a \in Actors, Log(a)
  PROVE  Logs(PortOf[a], h[a], h'[a])
<1> DEFINE r == h[a]
           s == h'[a]
<1>1. r.pc = "log" /\ r.op \in {"book", "cancel", "checkin", "edit"}
  BY Records DEF Log, FitsAt
<1>2. PortOf[a].cancel.event \in {"before", "after"}
  BY Records DEF PortProfile, CancelProfile
<1>3. \/ /\ AfterLog(a) = "idle"
         /\ \/ r.op = "cancel" /\ PortOf[a].cancel.event = "before" /\ r.skip
            \/ r.op = "edit" /\ ~PortOf[a].edit.reconciles
      \/ /\ AfterLog(a) = "reads"
         /\ \/ r.op = "book"
            \/ r.op = "cancel" /\ PortOf[a].cancel.event = "before" /\ ~r.skip
            \/ r.op = "edit" /\ PortOf[a].edit.reconciles
      \/ AfterLog(a) = "event" /\ r.op = "cancel" /\ PortOf[a].cancel.event = "after"
      \/ AfterLog(a) = "report" /\ r.op = "checkin"
  BY <1>1, <1>2 DEF AfterLog
<1>4. \/ AfterLog(a) = "idle" /\ s = Resting
      \/ AfterLog(a) = "reads" /\ s = [r EXCEPT !.pc = "reads", !.unread = Lists]
      \/ AfterLog(a) = "event" /\ s = [r EXCEPT !.pc = "event"]
      \/ AfterLog(a) = "report" /\ s = [r EXCEPT !.pc = "report", !.result = "checked_in"]
  BY <1>3, Records DEF Log, Goto, Finish
<1>5. \/ AfterLog(a) = "idle" /\ s = Resting
      \/ AfterLog(a) = "reads" /\ SameTask(r, s) /\ SameFixes(r, s) /\ s.pc = "reads" /\ s.unread = Lists
      \/ AfterLog(a) = "event" /\ SameTask(r, s) /\ SameFixes(r, s) /\ s.pc = "event"
      \/ AfterLog(a) = "report" /\ SameTask(r, s) /\ SameFixes(r, s) /\ s.pc = "report"
  BY <1>4, Records DEF SameTask, SameFixes, Handler
<1> HIDE DEF r, s
<1>6. Logs(PortOf[a], r, s)
  BY <1>1, <1>3, <1>5 DEF Logs
<1> QED BY <1>6 DEF r, s

\* With the lists c and w in hand, list being the one that has just arrived.
ReadsLists(r, s, list, C, W, c, w, promote, demote) ==
  /\ IF list = "confirmed" THEN c \subseteq C ELSE c = r.confirmed
  /\ IF list = "waitlisted" THEN w \subseteq W ELSE w = r.waitlisted
  /\ promote \subseteq w /\ demote \subseteq c
  /\ SameTask(r, s) /\ s.logs = r.logs /\ s.failed = r.failed
  /\ \/ /\ r.unread = {list}
        /\ s.pc = "fix" /\ s.promote = promote /\ s.demote = demote
     \/ /\ r.unread = Lists
        /\ s.pc = "reads" /\ s.unread = Lists \ {list} /\ s.confirmed = c /\ s.waitlisted = w
        /\ s.promote = r.promote /\ s.demote = r.demote

ReadsList(r, s, list, C, W) ==
  /\ r.pc = "reads" /\ r.op \in {"book", "cancel", "edit"}
  /\ \E c, w, promote, demote \in SUBSET Ids :
       ReadsLists(r, s, list, C, W, c, w, promote, demote)

LEMMA ReadListRecord ==
  ASSUME Sound, NEW a \in Actors, NEW list \in Lists, ReadList(a, list)
  PROVE  ReadsList(h[a], h'[a], list, Confirmed, Waitlisted)
<1>1. h \in [Actors -> Handler] /\ h[a] \in Handler
  BY Records
<1> DEFINE seen == Oldest(WithStatus(list), PortOf[a].reconcile.limit)
           c == IF list = "confirmed" THEN seen ELSE h[a].confirmed
           w == IF list = "waitlisted" THEN seen ELSE h[a].waitlisted
           promote == Promotions(c, w, At(a), h[a].capacity)
           demote == Demotions(c, w, At(a), h[a].capacity)
<1>2. h[a].pc = "reads" /\ h[a].op \in {"book", "cancel", "edit"} /\ list \in h[a].unread
      /\ h[a].unread \in SUBSET Lists
  BY Records DEF ReadList, FitsAt, Handler
<1>3. seen \subseteq WithStatus(list) /\ WithStatus(list) \subseteq Ids
  BY OldestSubset, CreatedIds DEF WithStatus
<1>4. /\ IF list = "confirmed" THEN c \subseteq Confirmed ELSE c = h[a].confirmed
      /\ IF list = "waitlisted" THEN w \subseteq Waitlisted ELSE w = h[a].waitlisted
      /\ c \in SUBSET Ids /\ w \in SUBSET Ids
  BY <1>1, <1>3 DEF Confirmed, Waitlisted, Handler
<1>5. promote \subseteq w /\ demote \subseteq c
  BY DEF Promotions, Demotions
<1>6. h[a].unread = {list} \/ h[a].unread = Lists
  BY <1>2 DEF Lists
<1>7. IF h[a].unread = {list}
        THEN h'[a] = [h[a] EXCEPT !.pc = "fix", !.unread = {}, !.confirmed = {},
                                  !.waitlisted = {}, !.promote = promote, !.demote = demote]
        ELSE h'[a] = [h[a] EXCEPT !.unread = h[a].unread \ {list},
                                  !.confirmed = c, !.waitlisted = w]
  BY <1>1 DEF ReadList
<1> HIDE DEF c, w, promote, demote
<1>8. promote \in SUBSET Ids /\ demote \in SUBSET Ids
  BY <1>4, <1>5
<1>9. SameTask(h[a], h'[a]) /\ h'[a].logs = h[a].logs /\ h'[a].failed = h[a].failed
  BY <1>1, <1>7 DEF SameTask, Handler
<1>10. \/ /\ h[a].unread = {list}
         /\ h'[a].pc = "fix" /\ h'[a].promote = promote /\ h'[a].demote = demote
      \/ /\ h[a].unread = Lists
         /\ h'[a].pc = "reads" /\ h'[a].unread = Lists \ {list}
         /\ h'[a].confirmed = c /\ h'[a].waitlisted = w
         /\ h'[a].promote = h[a].promote /\ h'[a].demote = h[a].demote
  BY <1>1, <1>2, <1>6, <1>7 DEF Handler
<1>11. ReadsLists(h[a], h'[a], list, Confirmed, Waitlisted, c, w, promote, demote)
  BY <1>4, <1>5, <1>9, <1>10 DEF ReadsLists
<1>12. \E c2, w2, p2, d2 \in SUBSET Ids :
          ReadsLists(h[a], h'[a], list, Confirmed, Waitlisted, c2, w2, p2, d2)
  BY <1>4, <1>8, <1>11
<1> QED BY <1>2, <1>12 DEF ReadsList

Fixes(r, s, i, before, after) ==
  /\ r.pc = "fix" /\ r.op \in {"book", "cancel", "edit"}
  /\ s.pc = "fix" /\ SameTask(r, s) /\ s.failed = r.failed
  /\ \/ /\ i \in r.promote /\ after = [before EXCEPT ![i] = "confirmed"]
        /\ s.promote = r.promote \ {i} /\ s.demote = r.demote
        /\ s.logs = r.logs \union {<<i, "booking_promoted">>}
     \/ /\ i \in r.demote /\ i \notin r.promote /\ after = [before EXCEPT ![i] = "waitlisted"]
        /\ s.promote = r.promote /\ s.demote = r.demote \ {i}
        /\ s.logs = r.logs \union {<<i, "booking_waitlisted">>}

LEMMA FixRecord ==
  ASSUME Sound, NEW a \in Actors, NEW i \in Ids, Fix(a, i)
  PROVE  Fixes(h[a], h'[a], i, status, status')
<1> DEFINE r == h[a]
           s == h'[a]
<1>1. r.pc = "fix" /\ r.op \in {"book", "cancel", "edit"}
  BY Records DEF Fix, FitsAt
<1>2. \/ /\ i \in r.promote /\ status' = [status EXCEPT ![i] = "confirmed"]
         /\ s = [r EXCEPT !.promote = r.promote \ {i},
                          !.logs = r.logs \union {<<i, "booking_promoted">>}]
      \/ /\ i \in r.demote /\ i \notin r.promote /\ status' = [status EXCEPT ![i] = "waitlisted"]
         /\ s = [r EXCEPT !.demote = r.demote \ {i},
                          !.logs = r.logs \union {<<i, "booking_waitlisted">>}]
  BY Records DEF Fix
<1>3. s.pc = "fix" /\ SameTask(r, s) /\ s.failed = r.failed
  BY <1>1, <1>2, Records DEF SameTask, Handler
<1>4. \/ /\ i \in r.promote /\ status' = [status EXCEPT ![i] = "confirmed"]
         /\ s.promote = r.promote \ {i} /\ s.demote = r.demote
         /\ s.logs = r.logs \union {<<i, "booking_promoted">>}
      \/ /\ i \in r.demote /\ i \notin r.promote /\ status' = [status EXCEPT ![i] = "waitlisted"]
         /\ s.promote = r.promote /\ s.demote = r.demote \ {i}
         /\ s.logs = r.logs \union {<<i, "booking_waitlisted">>}
  BY <1>2, Records DEF Handler
<1> HIDE DEF r, s
<1>5. Fixes(r, s, i, status, status')
  BY <1>1, <1>3, <1>4 DEF Fixes
<1> QED BY <1>5 DEF r, s

LogsFix(r, s, before, after) ==
  /\ r.pc = "fix" /\ s.pc = "fix" /\ SameTask(r, s)
  /\ s.failed = r.failed /\ s.promote = r.promote /\ s.demote = r.demote
  /\ \E entry \in r.logs : /\ after = [before EXCEPT ![entry[1]] = entry[2]]
                           /\ s.logs = r.logs \ {entry}

LEMMA LogFixRecord ==
  ASSUME Sound, NEW a \in Actors, LogFix(a)
  PROVE  LogsFix(h[a], h'[a], told, told')
<1>1. PICK entry \in h[a].logs :
        told' = [told EXCEPT ![entry[1]] = entry[2]] /\ h' = [h EXCEPT ![a].logs = @ \ {entry}]
  BY DEF LogFix
<1>2. h'[a] = [h[a] EXCEPT !.logs = h[a].logs \ {entry}] /\ h[a].pc = "fix"
  BY <1>1, Records DEF LogFix
<1>3. /\ h'[a].pc = "fix" /\ SameTask(h[a], h'[a]) /\ h'[a].failed = h[a].failed
      /\ h'[a].promote = h[a].promote /\ h'[a].demote = h[a].demote
      /\ h'[a].logs = h[a].logs \ {entry}
  BY <1>2, Records DEF SameTask, Handler
<1> QED BY <1>1, <1>2, <1>3 DEF LogsFix

EndsFix(p, r, s) ==
  /\ r.pc = "fix" /\ r.op \in {"book", "cancel", "edit"}
  /\ r.promote = {} /\ r.demote = {} /\ r.logs = {}
  /\ \/ s = Resting
     \/ /\ r.op = "book" /\ ~r.failed /\ SameTask(r, s) /\ SameFixes(r, s)
        /\ \/ p.book.report = "reread" /\ s.pc = "reread"
           \/ p.book.report = "initial" /\ s.pc = "report" /\ s.result = r.initial

LEMMA EndFixRecord ==
  ASSUME Sound, NEW a \in Actors, EndFix(a)
  PROVE  EndsFix(PortOf[a], h[a], h'[a])
<1> DEFINE r == h[a]
           s == h'[a]
<1>1. r.pc = "fix" /\ r.op \in {"book", "cancel", "edit"}
      /\ r.promote = {} /\ r.demote = {} /\ r.logs = {}
  BY Records DEF EndFix, FitsAt
<1>2. PortOf[a].book.report \in {"reread", "initial", "none"}
  BY Records DEF PortProfile, BookProfile
<1>3. \/ AfterFix(a) = "idle"
      \/ AfterFix(a) = "reread" /\ r.op = "book" /\ ~r.failed /\ PortOf[a].book.report = "reread"
      \/ AfterFix(a) = "report" /\ r.op = "book" /\ ~r.failed /\ PortOf[a].book.report = "initial"
  BY <1>2 DEF AfterFix
<1>4. \/ AfterFix(a) = "idle" /\ s = Resting
      \/ AfterFix(a) = "reread" /\ s = [r EXCEPT !.pc = "reread"]
      \/ AfterFix(a) = "report" /\ s = [r EXCEPT !.pc = "report", !.result = r.initial]
  BY <1>3, Records DEF EndFix, Goto, Finish
<1>5. \/ AfterFix(a) = "idle" /\ s = Resting
      \/ AfterFix(a) = "reread" /\ s.pc = "reread" /\ SameTask(r, s) /\ SameFixes(r, s)
      \/ AfterFix(a) = "report" /\ s.pc = "report" /\ s.result = r.initial
         /\ SameTask(r, s) /\ SameFixes(r, s)
  BY <1>4, Records DEF SameTask, SameFixes, Handler
<1> HIDE DEF r, s
<1>6. EndsFix(PortOf[a], r, s)
  BY <1>1, <1>3, <1>5 DEF EndsFix
<1> QED BY <1>6 DEF r, s

Rereads(r, s, current) ==
  /\ r.pc = "reread" /\ r.op = "book"
  /\ s.pc = "report" /\ s.result = current /\ SameTask(r, s) /\ SameFixes(r, s)

LEMMA RereadRecord ==
  ASSUME Sound, NEW a \in Actors, Reread(a)
  PROVE  Rereads(h[a], h'[a], status[h[a].target])
<1>1. h[a].pc = "reread" /\ h[a].op = "book"
  BY Records DEF Reread, FitsAt
<1>2. h'[a] = [h[a] EXCEPT !.pc = "report", !.result = status[h[a].target]]
  BY Records DEF Reread
<1> QED BY <1>1, <1>2, Records DEF Rereads, SameTask, SameFixes, Handler

FailsFix(r, s) ==
  /\ r.pc = "fix" /\ s.pc = "fix" /\ SameTask(r, s) /\ s.failed
  /\ s.promote \subseteq r.promote /\ s.demote \subseteq r.demote /\ s.logs \subseteq r.logs

LEMMA FailFixRecord ==
  ASSUME Sound, NEW a \in Actors, FailFix(a) \/ CancelSibling(a)
  PROVE  FailsFix(h[a], h'[a])
<1>1. GiveUp(a) /\ h[a].pc = "fix"
  BY DEF FailFix, CancelSibling
<1>2. PICK promote \in SUBSET h[a].promote, demote \in SUBSET h[a].demote,
           logs \in SUBSET h[a].logs :
         h' = [h EXCEPT ![a] = [h[a] EXCEPT !.promote = promote, !.demote = demote,
                                            !.logs = logs, !.failed = TRUE]]
  BY <1>1, GiveUpRecord
<1>3. h'[a] = [h[a] EXCEPT !.promote = promote, !.demote = demote,
                           !.logs = logs, !.failed = TRUE]
  BY <1>2, Records
<1>4. /\ h'[a].pc = "fix" /\ SameTask(h[a], h'[a]) /\ h'[a].failed
      /\ h'[a].promote = promote /\ h'[a].demote = demote /\ h'[a].logs = logs
  BY <1>1, <1>3, Records DEF SameTask, Handler
<1> QED BY <1>1, <1>4 DEF FailsFix

\* An operation run again knows what it was asked, and the capacity it had read.
Expires(p, r, s) ==
  /\ "expire" \in Faults
  /\ r.op \in {"book", "cancel", "checkin", "edit"}
  /\ s.pc = p.retry[r.op] /\ s.op = r.op /\ s.user = r.user /\ s.capacity = r.capacity
  /\ s.skip = r.skip /\ (r.op # "book" => s.target = r.target)
  /\ s.promote = {} /\ s.demote = {} /\ s.logs = {} /\ s.unread = {}
  /\ s.initial = None /\ s.result = None /\ ~s.failed
  /\ s.pc \in {"count", "find", "patch", "save"}
  /\ s.pc = "count" <=> r.op = "book"
  /\ s.pc = "save" <=> r.op = "edit"
  /\ s.pc = "count" => r.pc \in {"create", "log", "reads", "fix", "reread"}
  /\ s.pc = "find" => r.pc \in {"event", "patch", "log", "reads", "fix"}
  /\ s.pc \in {"patch", "save"} => r.pc \in {"log", "reads", "fix"}

LEMMA ExpireRecord ==
  ASSUME Sound, NEW a \in Actors, Expire(a)
  PROVE  Expires(PortOf[a], h[a], h'[a])
<1> DEFINE place == PortOf[a].retry[h[a].op]
           target == IF h[a].op = "book" THEN 0 ELSE h[a].target
           s == [Resting EXCEPT !.pc = place, !.op = h[a].op, !.user = h[a].user,
                                !.capacity = h[a].capacity, !.skip = h[a].skip, !.target = target]
<1>1. h \in [Actors -> Handler] /\ h[a] \in Handler /\ PortOf[a] \in PortProfile
  BY Records
<1>2. h' = [h EXCEPT ![a] = s] /\ h[a].op # "none" /\ h[a].pc \in Behind(place)
      /\ "expire" \in Faults
  BY DEF Expire, Fault
<1>3. h[a].op \in {"book", "cancel", "checkin", "edit"}
  BY <1>1, <1>2 DEF Handler
<1>4. /\ place \in {"here", "count", "find", "patch", "save"}
      /\ h[a].op = "book" => place \in {"here", "count"}
      /\ h[a].op \in {"cancel", "checkin"} => place \in {"here", "find", "patch"}
      /\ h[a].op = "edit" => place \in {"here", "save"}
  BY <1>1, <1>3 DEF PortProfile, RetryProfile
<1> HIDE DEF place
<1>5. /\ place # "here"
      /\ place = "count" => h[a].pc \in {"create", "log", "reads", "fix", "reread"}
      /\ place = "find" => h[a].pc \in {"event", "patch", "log", "reads", "fix"}
      /\ place \in {"patch", "save"} => h[a].pc \in {"log", "reads", "fix"}
  BY <1>2, <1>4 DEF Behind
<1>6. (place = "count" <=> h[a].op = "book") /\ (place = "save" <=> h[a].op = "edit")
  BY <1>3, <1>4, <1>5
<1>7. /\ s.pc = place /\ s.op = h[a].op /\ s.user = h[a].user /\ s.capacity = h[a].capacity
      /\ s.skip = h[a].skip /\ (h[a].op # "book" => s.target = h[a].target)
      /\ s.promote = {} /\ s.demote = {} /\ s.logs = {} /\ s.unread = {}
      /\ s.initial = None /\ s.result = None /\ ~s.failed
  BY DEF Resting
<1>8. h'[a] = s
  BY <1>1, <1>2
<1>9. place \in {"count", "find", "patch", "save"}
  BY <1>4, <1>5
<1> HIDE DEF s
<1> QED BY <1>2, <1>3, <1>5, <1>6, <1>7, <1>8, <1>9 DEF Expires, place

\* It has taken an event it could not read for a deleted one.
Misses(p, r, s) ==
  /\ r.pc = "event" /\ r.op = "cancel" /\ p.cancel.event = "before" /\ p.cancel.gone = "skip"
  /\ s.pc = "patch" /\ s.skip
  /\ s.op = r.op /\ s.user = r.user /\ s.target = r.target /\ s.capacity = r.capacity
  /\ s.initial = r.initial /\ SameFixes(r, s)

LEMMA EventLostRecord ==
  ASSUME Sound, NEW a \in Actors, EventLost(a)
  PROVE  Misses(PortOf[a], h[a], h'[a])
<1>1. /\ h[a].pc = "event" /\ h[a].op = "cancel"
      /\ PortOf[a].cancel.event = "before" /\ PortOf[a].cancel.gone = "skip"
  BY DEF EventLost, TakenForGone, Gone
<1>2. h'[a] = [h[a] EXCEPT !.pc = "patch", !.skip = TRUE]
  BY Records DEF EventLost
<1> QED BY <1>1, <1>2, Records DEF Misses, SameFixes, Handler

\* A step touches one record.
LEMMA OthersKept ==
  ASSUME Sound, NEW a \in Actors, Proceed(a) \/ Disrupt(a)
  PROVE  \A b \in Actors : b # a => h'[b] = h[b]
<1> DEFINE Others == \A b \in Actors : b # a => h'[b] = h[b]
<1>1. h \in [Actors -> Handler] /\ PortOf[a] \in PortProfile
  BY Records
<1>2. CASE GateOpen(a) \/ GateLost(a) \/ GateShut(a) \/ Report(a) \/ Fail(a) \/ Patch(a) \/ Save(a)
           \/ EventLost(a)
  BY <1>1, <1>2
     DEF GateOpen, GateLost, GateShut, Report, Fail, Patch, Save, EventLost, Goto, Finish
<1>3. CASE ReadEvent(a)
  BY <1>1, <1>3 DEF ReadEvent, Finish
<1>4. CASE Count(a) \/ Create(a) \/ Reread(a)
  BY <1>1, <1>4 DEF Count, Create, Reread
<1>5. CASE Find(a)
  <2>1. h[a].op \in {"cancel", "checkin"}
    BY <1>5, FindRecord DEF Finds
  <2> QED BY <1>1, <1>5, <2>1 DEF Find, Goto, Finish
<1>6. CASE Log(a)
  <2>1. h[a].op \in {"book", "cancel", "checkin", "edit"}
    BY <1>6, LogRecord DEF Logs
  <2>2. AfterLog(a) \in {"idle", "reads", "event", "report"}
    BY <1>1, <2>1 DEF AfterLog, PortProfile, CancelProfile
  <2> QED BY <1>1, <1>6, <2>2 DEF Log, Goto, Finish
<1>7. ASSUME NEW list \in Lists, ReadList(a, list) PROVE Others
  BY <1>1, <1>7 DEF ReadList
<1>8. ASSUME NEW i \in Ids, Fix(a, i) PROVE Others
  BY <1>1, <1>8 DEF Fix
<1>9. CASE LogFix(a)
  BY <1>1, <1>9 DEF LogFix
<1>10. CASE EndFix(a)
  <2>1. AfterFix(a) \in {"idle", "reread", "report"}
    BY <1>1 DEF AfterFix, PortProfile, BookProfile
  <2> QED BY <1>1, <1>10, <2>1 DEF EndFix, Finish, Goto
<1>11. CASE FailFix(a) \/ CancelSibling(a)
  BY <1>1, <1>11 DEF FailFix, CancelSibling, GiveUp
<1>12. CASE Expire(a)
  BY <1>1, <1>12 DEF Expire
<1> QED BY <1>2, <1>3, <1>4, <1>5, <1>6, <1>7, <1>8, <1>9, <1>10, <1>11, <1>12 DEF Proceed, Disrupt

LEMMA ProceedOnward ==
  ASSUME Sound, NEW a \in Actors, Proceed(a) \/ Disrupt(a)
  PROVE  h[a].pc # "idle" /\ Onward(h[a], h'[a])
<1> DEFINE r == h[a]
           s == h'[a]
           Goal == r.pc # "idle" /\ Onward(r, s)
<1> SUFFICES Goal
  OBVIOUS
<1>1. h \in [Actors -> Handler] /\ r \in Handler
  BY Records
<1>2. CASE GateShut(a) \/ Report(a) \/ Fail(a)
  BY <1>1, <1>2 DEF GateShut, Report, Fail, Finish, Onward
<1>3. CASE GateOpen(a) \/ GateLost(a)
  <2>1. PassesGate(PortOf[a], r, s)
    BY <1>3, GateRecord
  <2> HIDE DEF r, s
  <2> QED BY <1>1, <2>1 DEF PassesGate, SameTask, Onward
<1>4. CASE ReadEvent(a)
  <2>1. ReadsEvent(PortOf[a], r, s, event)
    BY <1>4, ReadEventRecord
  <2> HIDE DEF r, s
  <2> QED BY <1>1, <2>1 DEF ReadsEvent, Knows, Onward
<1>5. CASE Count(a)
  <2>1. Counts(r, s, Confirmed)
    BY <1>5, CountRecord
  <2> HIDE DEF r, s
  <2> QED BY <1>1, <2>1 DEF Counts, SameTask, Onward
<1>6. CASE Create(a)
  <2>1. Creates(r, s, size)
    BY <1>6, CreateRecord
  <2> HIDE DEF r, s
  <2> QED BY <1>1, <2>1 DEF Creates, SameTask, Onward
<1>7. CASE Find(a)
  <2>1. Finds(PortOf[a], r, s, status[r.target])
    BY <1>7, FindRecord
  <2> HIDE DEF r, s
  <2> QED BY <1>1, <2>1 DEF Finds, SameTask, Onward
<1>8. CASE Patch(a)
  <2>1. Patches(r, s)
    BY <1>8, PatchRecord
  <2> HIDE DEF r, s
  <2> QED BY <1>1, <2>1 DEF Patches, SameTask, Onward
<1>9. CASE Save(a)
  <2>1. Saves(r, s, event, event')
    BY <1>9, SaveRecord
  <2> HIDE DEF r, s
  <2> QED BY <1>1, <2>1 DEF Saves, SameTask, Onward
<1>10. CASE Log(a)
  <2>1. Logs(PortOf[a], r, s)
    BY <1>10, LogRecord
  <2> HIDE DEF r, s
  <2> QED BY <1>1, <2>1 DEF Logs, SameTask, Onward
<1>11. ASSUME NEW list \in Lists, ReadList(a, list) PROVE Goal
  <2>1. ReadsList(r, s, list, Confirmed, Waitlisted)
    BY <1>11, ReadListRecord
  <2> HIDE DEF r, s
  <2>2. PICK c, w, promote, demote \in SUBSET Ids :
          ReadsLists(r, s, list, Confirmed, Waitlisted, c, w, promote, demote)
    BY <2>1 DEF ReadsList
  <2>3. r.pc = "reads"
    BY <2>1 DEF ReadsList
  <2> QED BY <1>1, <2>2, <2>3 DEF ReadsLists, SameTask, Onward
<1>12. ASSUME NEW i \in Ids, Fix(a, i) PROVE Goal
  <2>1. Fixes(r, s, i, status, status')
    BY <1>12, FixRecord
  <2> HIDE DEF r, s
  <2> QED BY <1>1, <2>1 DEF Fixes, SameTask, Onward
<1>13. CASE LogFix(a)
  <2>1. LogsFix(r, s, told, told')
    BY <1>13, LogFixRecord
  <2> HIDE DEF r, s
  <2> QED BY <1>1, <2>1 DEF LogsFix, SameTask, Onward
<1>14. CASE EndFix(a)
  <2>1. EndsFix(PortOf[a], r, s)
    BY <1>14, EndFixRecord
  <2> HIDE DEF r, s
  <2> QED BY <1>1, <2>1 DEF EndsFix, SameTask, Onward
<1>15. CASE Reread(a)
  <2>1. Rereads(r, s, status[r.target])
    BY <1>15, RereadRecord
  <2> HIDE DEF r, s
  <2> QED BY <1>1, <2>1 DEF Rereads, SameTask, Onward
<1>16. CASE FailFix(a) \/ CancelSibling(a)
  <2>1. FailsFix(r, s)
    BY <1>16, FailFixRecord
  <2> HIDE DEF r, s
  <2> QED BY <1>1, <2>1 DEF FailsFix, SameTask, Onward
<1>17. CASE Expire(a)
  <2>1. Expires(PortOf[a], r, s)
    BY <1>17, ExpireRecord
  <2> HIDE DEF r, s
  <2> QED BY <1>1, <2>1 DEF Expires, SameTask, Onward
<1>18. CASE EventLost(a)
  <2>1. Misses(PortOf[a], r, s)
    BY <1>18, EventLostRecord
  <2> HIDE DEF r, s
  <2> QED BY <1>1, <2>1 DEF Misses, Onward
<1> QED BY <1>2, <1>3, <1>4, <1>5, <1>6, <1>7, <1>8, <1>9, <1>10, <1>11, <1>12, <1>13, <1>14, <1>15, <1>16,
           <1>17, <1>18
        DEF Proceed, Disrupt

Quiet == UNCHANGED <<size, owner, status, told, event>>

\* The operation is answered, refused at its gate, or abandoned.
Ends(r, s) == s = Resting /\ (r.pc \in {"gate", "report"} \/ "fail" \in Faults)

\* All that a step of a, which takes its record from r to s, can be.
Makes(a, r, s) ==
  \/ Quiet /\ Ends(r, s)
  \/ Quiet /\ PassesGate(PortOf[a], r, s)
  \/ Quiet /\ ReadsEvent(PortOf[a], r, s, event)
  \/ Quiet /\ Counts(r, s, Confirmed)
  \/ /\ Creates(r, s, size) /\ size' = size + 1 /\ size + 1 \in Ids
     /\ status' = [status EXCEPT ![size + 1] = r.initial]
     /\ owner' = [owner EXCEPT ![size + 1] = r.user]
     /\ UNCHANGED <<told, event>>
  \/ Quiet /\ Finds(PortOf[a], r, s, status[r.target])
  \/ /\ Patches(r, s) /\ r.target \in Ids /\ r.target \in Created
     /\ status' = [status EXCEPT ![r.target] = IF r.op = "cancel" THEN "cancelled" ELSE "checked_in"]
     /\ UNCHANGED <<size, owner, told, event>>
  \/ Saves(r, s, event, event') /\ UNCHANGED <<size, owner, status, told>>
  \/ Logs(PortOf[a], r, s) /\ UNCHANGED <<size, owner, status, event>>
  \/ Quiet /\ \E list \in Lists : ReadsList(r, s, list, Confirmed, Waitlisted)
  \/ /\ \E i \in Ids : Fixes(r, s, i, status, status')
     /\ UNCHANGED <<size, owner, told, event>>
  \/ LogsFix(r, s, told, told') /\ UNCHANGED <<size, owner, status, event>>
  \/ Quiet /\ EndsFix(PortOf[a], r, s)
  \/ Quiet /\ Rereads(r, s, status[r.target])
  \/ Quiet /\ FailsFix(r, s) /\ ("fail" \in Faults \/ r.failed)
  \/ Quiet /\ Expires(PortOf[a], r, s)
  \/ Quiet /\ Misses(PortOf[a], r, s) /\ "fail" \in Faults

LEMMA StepMakes ==
  ASSUME Sound, NEW a \in Actors, Proceed(a) \/ Disrupt(a)
  PROVE  Makes(a, h[a], h'[a])
<1> DEFINE Goal == Makes(a, h[a], h'[a])
<1> SUFFICES Goal
  OBVIOUS
<1>1. CASE GateShut(a) \/ Report(a) \/ Fail(a)
  <2>1. Quiet /\ Ends(h[a], h'[a])
    BY <1>1, Records DEF GateShut, Report, Fail, Fault, Finish, Quiet, Ends
  <2> QED BY <2>1 DEF Makes
<1>2. CASE GateOpen(a) \/ GateLost(a)
  <2>1. Quiet
    BY <1>2 DEF GateOpen, GateLost, Quiet
  <2> QED BY <1>2, <2>1, GateRecord DEF Makes
<1>3. CASE ReadEvent(a)
  <2>1. Quiet
    BY <1>3 DEF ReadEvent, Quiet
  <2> QED BY <1>3, <2>1, ReadEventRecord DEF Makes
<1>4. CASE Count(a)
  <2>1. Quiet
    BY <1>4 DEF Count, Quiet
  <2> QED BY <1>4, <2>1, CountRecord DEF Makes
<1>5. CASE Create(a)
  <2>1. UNCHANGED <<told, event>>
    BY <1>5 DEF Create
  <2> QED BY <1>5, <2>1, CreateRecord DEF Makes
<1>6. CASE Find(a)
  <2>1. Quiet
    BY <1>6 DEF Find, Quiet
  <2> QED BY <1>6, <2>1, FindRecord DEF Makes
<1>7. CASE Patch(a)
  <2>1. UNCHANGED <<size, owner, told, event>>
    BY <1>7 DEF Patch
  <2> QED BY <1>7, <2>1, PatchRecord DEF Makes
<1>8. CASE Save(a)
  <2>1. UNCHANGED <<size, owner, status, told>>
    BY <1>8 DEF Save
  <2> QED BY <1>8, <2>1, SaveRecord DEF Makes
<1>9. CASE Log(a)
  <2>1. UNCHANGED <<size, owner, status, event>>
    BY <1>9 DEF Log
  <2> QED BY <1>9, <2>1, LogRecord DEF Makes
<1>10. ASSUME NEW list \in Lists, ReadList(a, list) PROVE Goal
  <2>1. Quiet
    BY <1>10 DEF ReadList, Quiet
  <2> QED BY <1>10, <2>1, ReadListRecord DEF Makes
<1>11. ASSUME NEW i \in Ids, Fix(a, i) PROVE Goal
  <2>1. UNCHANGED <<size, owner, told, event>>
    BY <1>11 DEF Fix
  <2> QED BY <1>11, <2>1, FixRecord DEF Makes
<1>12. CASE LogFix(a)
  <2>1. UNCHANGED <<size, owner, status, event>>
    BY <1>12 DEF LogFix
  <2> QED BY <1>12, <2>1, LogFixRecord DEF Makes
<1>13. CASE EndFix(a)
  <2>1. Quiet
    BY <1>13 DEF EndFix, Quiet
  <2> QED BY <1>13, <2>1, EndFixRecord DEF Makes
<1>14. CASE Reread(a)
  <2>1. Quiet
    BY <1>14 DEF Reread, Quiet
  <2> QED BY <1>14, <2>1, RereadRecord DEF Makes
<1>15. CASE FailFix(a) \/ CancelSibling(a)
  <2>1. Quiet /\ ("fail" \in Faults \/ h[a].failed)
    BY <1>15 DEF FailFix, CancelSibling, Fault, Quiet
  <2> QED BY <1>15, <2>1, FailFixRecord DEF Makes
<1>16. CASE Expire(a)
  <2>1. Quiet
    BY <1>16 DEF Expire, Quiet
  <2> QED BY <1>16, <2>1, ExpireRecord DEF Makes
<1>17. CASE EventLost(a)
  <2>1. Quiet /\ "fail" \in Faults
    BY <1>17 DEF EventLost, Fault, Quiet
  <2> QED BY <1>17, <2>1, EventLostRecord DEF Makes
<1> QED BY <1>1, <1>2, <1>3, <1>4, <1>5, <1>6, <1>7, <1>8, <1>9, <1>10, <1>11, <1>12, <1>13, <1>14,
           <1>15, <1>16, <1>17
        DEF Proceed, Disrupt

\* The handlers besides the one that takes a step are at rest, before and after.
LEMMA OthersRest ==
  ASSUME Alone, NEW a \in Actors, Proceed(a) \/ Disrupt(a)
  PROVE  /\ h[a].pc # "idle" /\ Onward(h[a], h'[a])
         /\ \A b \in Actors : b # a => h[b] = Resting /\ h'[b] = Resting
<1>1. /\ h[a].pc # "idle" /\ Onward(h[a], h'[a])
      /\ \A b \in Actors : b # a => h'[b] = h[b]
  BY ProceedOnward, OthersKept DEF Alone
<1> QED BY <1>1 DEF Alone

\* The record an operation starts with.
StartsAs(a, r) ==
  /\ r.pc # "idle" /\ r.op \in Ops[a]
  /\ ~r.skip /\ ~r.failed /\ r.promote = {} /\ r.demote = {} /\ r.logs = {}
  /\ \/ r.op = "book" /\ r.pc = PortOf[a].book.first /\ r.user \in Users
     \/ /\ r.op = "cancel" /\ r.pc \in {"find", BeforeWrite(a)}
        /\ r.target \in Created /\ status[r.target] \in Live
     \/ r.op = "checkin" /\ r.pc = "find" /\ r.target \in Created /\ event.exists
     \/ r.op = "edit" /\ r.pc = "save" /\ r.capacity \in Capacities /\ event.exists

LEMMA StartAtRest ==
  ASSUME OneAtATime, Alone, NEW a \in Actors, Start(a)
  PROVE  /\ \A b \in Actors : h[b] = Resting
         /\ AtRest
         /\ UNCHANGED <<size, owner, status, told>>
         /\ \/ /\ StartsAs(a, h'[a]) /\ UNCHANGED event
               /\ \A b \in Actors : b # a => h'[b] = Resting
            \/ /\ UNCHANGED h /\ event.exists /\ ~event'.exists
               /\ event'.capacity = event.capacity /\ "delete" \in Ops[a]
<1>1. h \in [Actors -> Handler] /\ PortOf[a] \in PortProfile /\ event \in [capacity : Capacities, exists : BOOLEAN]
  BY Records DEF Alone, Sound, TypeOK
<1>2. AtRest
  BY DEF Start, StartBook, StartCancel, StartCheckIn, StartEdit, Delete, MayStart
<1>3. \A b \in Actors : h[b] = Resting
  BY <1>2 DEF AtRest, Alone
<1>4. UNCHANGED <<size, owner, status, told>>
  BY DEF Start, StartBook, StartCancel, StartCheckIn, StartEdit, Delete
<1>5. ASSUME NEW r, h' = [h EXCEPT ![a] = r]
      PROVE  h'[a] = r /\ \A b \in Actors : b # a => h'[b] = Resting
  BY <1>1, <1>3, <1>5
<1>6. ASSUME NEW u \in Users, StartBook(a, u)
      PROVE  StartsAs(a, h'[a]) /\ UNCHANGED event /\ \A b \in Actors : b # a => h'[b] = Resting
  <2> DEFINE r == [Resting EXCEPT !.pc = PortOf[a].book.first, !.op = "book", !.user = u]
  <2>1. h' = [h EXCEPT ![a] = r] /\ UNCHANGED event /\ "book" \in Ops[a]
    BY <1>6 DEF StartBook, MayStart
  <2>2. PortOf[a].book.first \in {"event", "gate"}
    BY <1>1 DEF PortProfile, BookProfile
  <2>3. StartsAs(a, r)
    BY <2>1, <2>2 DEF StartsAs, Resting
  <2> HIDE DEF r
  <2> QED BY <1>5, <2>1, <2>3
<1>7. ASSUME NEW i \in Created, StartCancel(a, i)
      PROVE  StartsAs(a, h'[a]) /\ UNCHANGED event /\ \A b \in Actors : b # a => h'[b] = Resting
  <2> DEFINE r == [Resting EXCEPT !.pc = IF PortOf[a].cancel.refetch THEN "find" ELSE BeforeWrite(a),
                                  !.op = "cancel", !.user = owner[i], !.target = i]
  <2>1. h' = [h EXCEPT ![a] = r] /\ UNCHANGED event /\ "cancel" \in Ops[a] /\ status[i] \in Live
    BY <1>7 DEF StartCancel, MayStart
  <2>2. StartsAs(a, r)
    BY <2>1 DEF StartsAs, Resting, BeforeWrite
  <2> HIDE DEF r
  <2> QED BY <1>5, <2>1, <2>2
<1>8. ASSUME NEW i \in Created, StartCheckIn(a, i)
      PROVE  StartsAs(a, h'[a]) /\ UNCHANGED event /\ \A b \in Actors : b # a => h'[b] = Resting
  <2> DEFINE r == [Resting EXCEPT !.pc = "find", !.op = "checkin", !.target = i]
  <2>1. h' = [h EXCEPT ![a] = r] /\ UNCHANGED event /\ "checkin" \in Ops[a] /\ event.exists
    BY <1>8 DEF StartCheckIn, MayStart
  <2>2. StartsAs(a, r)
    BY <2>1 DEF StartsAs, Resting
  <2> HIDE DEF r
  <2> QED BY <1>5, <2>1, <2>2
<1>9. ASSUME NEW c \in Capacities, StartEdit(a, c)
      PROVE  StartsAs(a, h'[a]) /\ UNCHANGED event /\ \A b \in Actors : b # a => h'[b] = Resting
  <2> DEFINE r == [Resting EXCEPT !.pc = "save", !.op = "edit", !.capacity = c]
  <2>1. h' = [h EXCEPT ![a] = r] /\ UNCHANGED event /\ "edit" \in Ops[a] /\ event.exists
    BY <1>9 DEF StartEdit, MayStart
  <2>2. StartsAs(a, r)
    BY <2>1 DEF StartsAs, Resting
  <2> HIDE DEF r
  <2> QED BY <1>5, <2>1, <2>2
<1>10. CASE Delete(a)
  <2>1. event' = [event EXCEPT !.exists = FALSE] /\ UNCHANGED h /\ event.exists /\ "delete" \in Ops[a]
    BY <1>10 DEF Delete, MayStart
  <2>2. ~event'.exists /\ event'.capacity = event.capacity
    BY <1>1, <2>1
  <2> QED BY <1>2, <1>3, <1>4, <2>1, <2>2
<1>11. (\E u \in Users : StartBook(a, u)) \/ (\E i \in Created : StartCancel(a, i))
       \/ (\E i \in Created : StartCheckIn(a, i)) \/ (\E c \in Capacities : StartEdit(a, c))
       \/ Delete(a)
  BY DEF Start
<1>12. CASE ~Delete(a)
  <2>1. StartsAs(a, h'[a]) /\ UNCHANGED event /\ \A b \in Actors : b # a => h'[b] = Resting
    BY <1>6, <1>7, <1>8, <1>9, <1>11, <1>12
  <2> QED BY <1>2, <1>3, <1>4, <2>1
<1> QED BY <1>10, <1>12

LEMMA AloneInit == Init => Alone
<1> SUFFICES ASSUME Init PROVE Alone
  OBVIOUS
<1>1. \A a \in Actors : h[a] = Resting
  BY DEF Init
<1>2. Resting.pc = "idle" /\ Resting.op = "none"
  BY DEF Resting
<1>3. Sound
  BY SoundInit
<1> QED BY <1>1, <1>2, <1>3 DEF Alone

LEMMA AloneNext == OneAtATime /\ Alone /\ [Next]_vars => Alone'
<1> SUFFICES ASSUME OneAtATime, Alone, [Next]_vars PROVE Alone'
  OBVIOUS
<1>1. Sound'
  BY SoundNext DEF Alone
<1>2. Resting.pc = "idle" /\ Resting.op = "none"
  BY DEF Resting
<1>3. ASSUME NEW a \in Actors, \A b \in Actors : b # a => h'[b] = Resting,
             h'[a] = Resting \/ (h'[a].pc # "idle" /\ h'[a].op \in Ops[a] \union {"none"})
      PROVE  Alone'
  BY <1>1, <1>2, <1>3 DEF Alone
<1>4. ASSUME NEW a \in Actors, Start(a) PROVE Alone'
  <2>1. CASE UNCHANGED h
    <3>1. \A b \in Actors : h'[b] = h[b]
      BY <2>1
    <3> QED BY <1>1, <3>1 DEF Alone
  <2>2. CASE StartsAs(a, h'[a]) /\ \A b \in Actors : b # a => h'[b] = Resting
    BY <1>3, <2>2 DEF StartsAs
  <2> QED BY <1>4, <2>1, <2>2, StartAtRest
<1>5. ASSUME NEW a \in Actors, Proceed(a) \/ Disrupt(a) PROVE Alone'
  <2>1. /\ h[a].pc # "idle" /\ Onward(h[a], h'[a])
        /\ \A b \in Actors : b # a => h[b] = Resting /\ h'[b] = Resting
    BY <1>5, OthersRest
  <2>2. h'[a] = Resting \/ (h'[a].pc # "idle" /\ h'[a].op \in Ops[a] \union {"none"})
    BY <2>1 DEF Onward, Alone
  <2> QED BY <1>3, <2>1, <2>2
<1>6. CASE UNCHANGED vars
  <2>1. \A b \in Actors : h'[b] = h[b]
    BY <1>6 DEF vars
  <2> QED BY <1>1, <2>1 DEF Alone
<1> QED BY <1>4, <1>5, <1>6 DEF Next


-----------------------------------------------------------------------------
(* Ended bookings.                                                         *)

\* What a handler with record r may rely on, when s are the statuses, C are
\* confirmed and W wait: the booking it cancels or lets in may be, its lists are
\* of bookings that are still in them, and so are its corrections.
HeldAt(r, s, C, W) ==
  /\ r.op = "cancel" => s[r.target] \in Live \union {"cancelled"}
  /\ r.op = "checkin" /\ r.pc = "patch" => s[r.target] \in {"confirmed", "checked_in"}
  /\ r.op = "checkin" /\ r.pc = "log" => s[r.target] = "checked_in"
  /\ r.pc = "reads" => /\ "confirmed" \notin r.unread => r.confirmed \subseteq C
                       /\ "waitlisted" \notin r.unread => r.waitlisted \subseteq W
  /\ r.pc = "fix" => r.promote \subseteq W /\ r.demote \subseteq C

\* The inductive strengthening of EndedStaysEnded.
Held ==
  /\ Alone
  /\ \A a \in Actors : HeldAt(h[a], status, Confirmed, Waitlisted)
  /\ \A i \in Ids : i > size => status[i] = None

LEMMA HeldFacts ==
  ASSUME Held, NEW a \in Actors
  PROVE  /\ h \in [Actors -> Handler] /\ h[a] \in Handler /\ FitsAt(h[a], size)
         /\ PortOf[a] \in PortProfile /\ HeldAt(h[a], status, Confirmed, Waitlisted)
         /\ status \in [Ids -> Status \union {None}] /\ size \in Nat /\ size <= MaxBookings
BY Records, SizeType DEF Held, Alone, Sound, TypeOK

LEMMA RestingHeld == \A s, C, W : HeldAt(Resting, s, C, W)
BY DEF Resting, HeldAt

LEMMA HeldStep ==
  ASSUME Held, Alone', NEW a \in Actors, Proceed(a) \/ Disrupt(a),
         HeldAt(h'[a], status', Confirmed', Waitlisted'),
         \A i \in Ids : i > size' => status'[i] = None
  PROVE  Held'
<1>1. \A b \in Actors : b # a => h'[b] = Resting
  BY OthersRest DEF Held
<1> QED BY <1>1, RestingHeld DEF Held

LEMMA HeldQuiet ==
  ASSUME Held, Alone', NEW a \in Actors, Proceed(a) \/ Disrupt(a), UNCHANGED <<size, status>>,
         HeldAt(h'[a], status, Confirmed, Waitlisted)
  PROVE  Held'
<1>1. Confirmed' = Confirmed /\ Waitlisted' = Waitlisted
  BY DEF Confirmed, Waitlisted, WithStatus, Created
<1> QED BY <1>1, HeldStep DEF Held

LEMMA HeldStart ==
  ASSUME OneAtATime, Held, Alone', NEW a \in Actors, Start(a)
  PROVE  Held' /\ UNCHANGED status
<1>1. /\ \A b \in Actors : h[b] = Resting
      /\ UNCHANGED <<size, owner, status, told>>
      /\ \/ /\ StartsAs(a, h'[a])
            /\ \A b \in Actors : b # a => h'[b] = Resting
         \/ UNCHANGED h
  BY StartAtRest DEF Held
<1>2. Confirmed' = Confirmed /\ Waitlisted' = Waitlisted
  BY <1>1 DEF Confirmed, Waitlisted, WithStatus, Created
<1>3. PortOf[a].book.first \in {"event", "gate"}
  BY HeldFacts DEF PortProfile, BookProfile
<1>4. \A b \in Actors : HeldAt(h'[b], status, Confirmed, Waitlisted)
  <2>1. CASE UNCHANGED h
    BY <2>1 DEF Held
  <2>2. CASE StartsAs(a, h'[a]) /\ \A b \in Actors : b # a => h'[b] = Resting
    <3>1. HeldAt(h'[a], status, Confirmed, Waitlisted)
      BY <1>3, <2>2 DEF StartsAs, HeldAt, BeforeWrite
    <3> QED BY <2>2, <3>1, RestingHeld
  <2> QED BY <1>1, <2>1, <2>2
<1> QED BY <1>1, <1>2, <1>4 DEF Held

\* The steps of a handler that write no booking.
LEMMA HeldLocal ==
  ASSUME Held, Alone', NEW a \in Actors,
         \/ GateOpen(a) \/ GateShut(a) \/ ReadEvent(a) \/ Count(a) \/ Find(a) \/ Save(a) \/ Log(a)
         \/ (\E list \in Lists : ReadList(a, list))
         \/ LogFix(a) \/ EndFix(a) \/ Reread(a) \/ Report(a) \/ Disrupt(a)
  PROVE  Held' /\ UNCHANGED status
<1> DEFINE r == h[a]
           s == h'[a]
           Goal == HeldAt(s, status, Confirmed, Waitlisted)
<1>1. /\ h \in [Actors -> Handler] /\ r \in Handler /\ FitsAt(r, size) /\ Sound
      /\ PortOf[a] \in PortProfile /\ HeldAt(r, status, Confirmed, Waitlisted)
  BY HeldFacts DEF Held, Alone
<1>2. Proceed(a) \/ Disrupt(a)
  BY DEF Proceed
<1>3. UNCHANGED <<size, status>>
  BY DEF GateOpen, GateShut, ReadEvent, Count, Find, Save, Log, ReadList, LogFix, EndFix, Reread,
         Report, Disrupt, Fail, GateLost, EventLost, FailFix, CancelSibling, Expire
<1> SUFFICES Goal
  BY <1>2, <1>3, HeldQuiet
<1>4. CASE GateShut(a) \/ Report(a) \/ Fail(a)
  <2>1. s = Resting
    BY <1>1, <1>4 DEF GateShut, Report, Fail, Finish
  <2> HIDE DEF r, s
  <2> QED BY <2>1, RestingHeld
<1>5. CASE GateOpen(a) \/ GateLost(a)
  <2>1. PassesGate(PortOf[a], r, s)
    BY <1>1, <1>5, GateRecord
  <2> HIDE DEF r, s
  <2> QED BY <1>1, <2>1 DEF PassesGate, SameTask, SameFixes, HeldAt
<1>6. CASE ReadEvent(a)
  <2>1. ReadsEvent(PortOf[a], r, s, event)
    BY <1>1, <1>6, ReadEventRecord
  <2> HIDE DEF r, s
  <2> QED BY <1>1, <2>1, RestingHeld DEF ReadsEvent, Knows, HeldAt, Lists
<1>7. CASE Count(a)
  <2>1. Counts(r, s, Confirmed)
    BY <1>1, <1>7, CountRecord
  <2> HIDE DEF r, s
  <2> QED BY <1>1, <2>1 DEF Counts, SameTask, SameFixes, HeldAt
<1>8. CASE Find(a)
  <2>1. Finds(PortOf[a], r, s, status[r.target])
    BY <1>1, <1>8, FindRecord
  <2> HIDE DEF r, s
  <2> QED BY <1>1, <2>1, RestingHeld DEF Finds, SameTask, SameFixes, HeldAt
<1>9. CASE Save(a)
  <2>1. Saves(r, s, event, event')
    BY <1>1, <1>9, SaveRecord
  <2> HIDE DEF r, s
  <2> QED BY <1>1, <2>1, RestingHeld DEF Saves, SameTask, SameFixes, HeldAt
<1>10. CASE Log(a)
  <2>1. Logs(PortOf[a], r, s)
    BY <1>1, <1>10, LogRecord
  <2> HIDE DEF r, s
  <2> QED BY <1>1, <2>1, RestingHeld DEF Logs, SameTask, SameFixes, HeldAt, Lists
<1>11. ASSUME NEW list \in Lists, ReadList(a, list) PROVE Goal
  <2>1. ReadsList(r, s, list, Confirmed, Waitlisted)
    BY <1>1, <1>11, ReadListRecord
  <2> HIDE DEF r, s
  <2>2. PICK c, w, promote, demote \in SUBSET Ids :
          ReadsLists(r, s, list, Confirmed, Waitlisted, c, w, promote, demote)
    BY <2>1 DEF ReadsList
  <2>3. r.pc = "reads" /\ r.op \in {"book", "cancel", "edit"}
    BY <2>1 DEF ReadsList
  <2> QED BY <1>1, <2>2, <2>3 DEF ReadsLists, SameTask, SameFixes, HeldAt, Lists
<1>12. CASE LogFix(a)
  <2>1. LogsFix(r, s, told, told')
    BY <1>1, <1>12, LogFixRecord
  <2> HIDE DEF r, s
  <2> QED BY <1>1, <2>1 DEF LogsFix, SameTask, SameFixes, HeldAt
<1>13. CASE EndFix(a)
  <2>1. EndsFix(PortOf[a], r, s)
    BY <1>1, <1>13, EndFixRecord
  <2> HIDE DEF r, s
  <2> QED BY <1>1, <2>1, RestingHeld DEF EndsFix, SameTask, SameFixes, HeldAt
<1>14. CASE Reread(a)
  <2>1. Rereads(r, s, status[r.target])
    BY <1>1, <1>14, RereadRecord
  <2> HIDE DEF r, s
  <2> QED BY <1>1, <2>1 DEF Rereads, SameTask, SameFixes, HeldAt
<1>15. CASE FailFix(a) \/ CancelSibling(a)
  <2>1. FailsFix(r, s)
    BY <1>1, <1>15, FailFixRecord
  <2> HIDE DEF r, s
  <2> QED BY <1>1, <2>1 DEF FailsFix, SameTask, SameFixes, HeldAt
<1>16. CASE Expire(a)
  <2>1. Expires(PortOf[a], r, s)
    BY <1>1, <1>16, ExpireRecord
  <2> HIDE DEF r, s
  <2> QED BY <1>1, <2>1 DEF Expires, HeldAt, Handler, FitsAt
<1>17. CASE EventLost(a)
  <2>1. Misses(PortOf[a], r, s)
    BY <1>1, <1>17, EventLostRecord
  <2> HIDE DEF r, s
  <2> QED BY <1>1, <2>1 DEF Misses, SameFixes, HeldAt
<1> QED BY <1>4, <1>5, <1>6, <1>7, <1>8, <1>9, <1>10, <1>11, <1>12, <1>13, <1>14, <1>15, <1>16, <1>17
        DEF Disrupt

\* What no step may undo.
EndedKept ==
  \A i \in Ids : status[i] \in {"cancelled", "checked_in"} => status'[i] = status[i]

\* The steps of a handler that write a booking.
LEMMA HeldWrite ==
  ASSUME Held, Alone', NEW a \in Actors,
         Create(a) \/ Patch(a) \/ \E i \in Ids : Fix(a, i)
  PROVE  Held' /\ EndedKept
<1> DEFINE r == h[a]
           s == h'[a]
           Goal == /\ HeldAt(s, status', Confirmed', Waitlisted')
                   /\ \A i \in Ids : i > size' => status'[i] = None
                   /\ EndedKept
<1>1. /\ h \in [Actors -> Handler] /\ r \in Handler /\ FitsAt(r, size) /\ Sound
      /\ PortOf[a] \in PortProfile /\ HeldAt(r, status, Confirmed, Waitlisted)
      /\ status \in [Ids -> Status \union {None}] /\ size \in Nat /\ size <= MaxBookings
  BY HeldFacts DEF Held, Alone
<1>2. Proceed(a) \/ Disrupt(a)
  BY DEF Proceed
<1>3. \A i \in Ids : i > size => status[i] = None
  BY DEF Held
<1> SUFFICES Goal
  BY <1>2, HeldStep
<1>4. CASE Create(a)
  <2>1. /\ Creates(r, s, size) /\ size' = size + 1 /\ size + 1 \in Ids
        /\ status' = [status EXCEPT ![size + 1] = r.initial]
    BY <1>1, <1>4, CreateRecord
  <2> HIDE DEF r, s
  <2>2. HeldAt(s, status', Confirmed', Waitlisted')
    BY <2>1 DEF Creates, HeldAt
  <2>3. \A i \in Ids : i > size' => status'[i] = None
    BY <1>1, <1>3, <2>1 DEF Ids
  <2>4. status[size + 1] = None
    BY <1>1, <1>3, <2>1
  <2>5. EndedKept
    BY <1>1, <2>1, <2>4 DEF EndedKept, None
  <2> QED BY <2>2, <2>3, <2>5
<1>5. CASE Patch(a)
  <2>1. /\ Patches(r, s) /\ r.target \in Ids /\ r.target \in Created
        /\ status' = [status EXCEPT ![r.target] =
                        IF r.op = "cancel" THEN "cancelled" ELSE "checked_in"]
    BY <1>1, <1>5, PatchRecord
  <2>2. size' = size
    BY <1>5 DEF Patch
  <2> HIDE DEF r, s
  <2>3. /\ s.pc = "log" /\ s.op = r.op /\ s.target = r.target
        /\ r.pc = "patch" /\ r.op \in {"cancel", "checkin"}
    BY <2>1 DEF Patches, SameTask
  <2>4. HeldAt(s, status', Confirmed', Waitlisted')
    BY <1>1, <2>1, <2>3 DEF HeldAt
  <2>5. \A i \in Ids : i > size' => status'[i] = None
    BY <1>1, <1>3, <2>1, <2>2 DEF Created
  <2>6. CASE r.op = "cancel"
    <3>1. status[r.target] # "checked_in"
      BY <1>1, <2>6 DEF HeldAt, Live
    <3> QED BY <1>1, <2>1, <2>4, <2>5, <2>6, <3>1 DEF EndedKept
  <2>7. CASE r.op = "checkin"
    <3>1. status[r.target] # "cancelled"
      BY <1>1, <2>3, <2>7 DEF HeldAt
    <3> QED BY <1>1, <2>1, <2>4, <2>5, <2>7, <3>1 DEF EndedKept
  <2> QED BY <2>3, <2>6, <2>7
<1>6. ASSUME NEW i \in Ids, Fix(a, i) PROVE Goal
  <2>1. Fixes(r, s, i, status, status')
    BY <1>1, <1>6, FixRecord
  <2>2. size' = size
    BY <1>6 DEF Fix
  <2> HIDE DEF r, s
  <2>3. /\ s.pc = "fix" /\ s.op = r.op /\ s.target = r.target
        /\ r.pc = "fix" /\ r.op \in {"book", "cancel", "edit"}
        /\ i \notin s.promote
        /\ \/ i \in r.promote /\ status' = [status EXCEPT ![i] = "confirmed"]
              /\ s.promote = r.promote \ {i} /\ s.demote = r.demote
           \/ i \in r.demote /\ status' = [status EXCEPT ![i] = "waitlisted"]
              /\ s.promote = r.promote /\ s.demote = r.demote \ {i}
    BY <2>1 DEF Fixes, SameTask
  <2>4. r.promote \subseteq Waitlisted /\ r.demote \subseteq Confirmed
    BY <1>1, <2>3 DEF HeldAt
  <2>5. \A j \in Waitlisted : j \in Created /\ status[j] = "waitlisted"
    BY DEF Waitlisted, WithStatus
  <2>6. \A j \in Confirmed : j \in Created /\ status[j] = "confirmed"
    BY DEF Confirmed, WithStatus
  <2>7. status[i] \in Live /\ i \in Created
    BY <2>3, <2>4, <2>5, <2>6 DEF Live
  <2>8. Created' = Created /\ \A j \in Ids \ {i} : status'[j] = status[j]
    BY <1>1, <2>2, <2>3 DEF Created
  <2>9. s.promote \subseteq Waitlisted' /\ s.demote \subseteq Confirmed'
    <3>1. ASSUME NEW j \in s.promote PROVE j \in Waitlisted'
      <4>1. j \in Waitlisted /\ j # i
        BY <2>3, <2>4
      <4>2. j \in Created /\ status[j] = "waitlisted" /\ j \in Ids
        BY <1>1, <2>5, <4>1, CreatedIds
      <4> QED BY <2>8, <4>1, <4>2 DEF Waitlisted, WithStatus
    <3>2. ASSUME NEW j \in s.demote PROVE j \in Confirmed'
      <4>1. j \in Confirmed /\ j # i
        BY <2>3, <2>4, <2>5, <2>6
      <4>2. j \in Created /\ status[j] = "confirmed" /\ j \in Ids
        BY <1>1, <2>6, <4>1, CreatedIds
      <4> QED BY <2>8, <4>1, <4>2 DEF Confirmed, WithStatus
    <3> QED BY <3>1, <3>2
  <2>10. r.op = "cancel" => status'[r.target] \in Live \union {"cancelled"}
    <3>1. CASE r.op = "cancel"
      <4>1. r.target \in Created
        BY <1>1, <3>1 DEF FitsAt, Created
      <4>2. r.target \in Ids
        BY <1>1, <4>1, CreatedIds
      <4> QED BY <1>1, <2>3, <3>1, <4>2 DEF HeldAt, Live
    <3> QED BY <3>1
  <2>11. HeldAt(s, status', Confirmed', Waitlisted')
    BY <2>3, <2>9, <2>10 DEF HeldAt
  <2>12. \A j \in Ids : j > size' => status'[j] = None
    BY <1>1, <1>3, <2>2, <2>3, <2>7 DEF Created
  <2>13. EndedKept
    BY <1>1, <2>3, <2>7 DEF EndedKept, Live
  <2> QED BY <2>11, <2>12, <2>13
<1> QED BY <1>4, <1>5, <1>6

LEMMA HeldInit == Init => Held
<1> SUFFICES ASSUME Init PROVE Held
  OBVIOUS
<1>1. \A a \in Actors : h[a] = Resting
  BY DEF Init
<1>2. \A i \in Ids : status[i] = None
  BY DEF Init
<1> QED BY <1>1, <1>2, AloneInit, RestingHeld DEF Held

LEMMA HeldNext == OneAtATime /\ Held /\ [Next]_vars => Held' /\ EndedKept
<1> SUFFICES ASSUME OneAtATime, Held, [Next]_vars PROVE Held' /\ EndedKept
  OBVIOUS
<1>1. Alone'
  BY AloneNext DEF Held
<1>2. UNCHANGED status => EndedKept
  BY DEF EndedKept
<1>3. ASSUME NEW a \in Actors, Start(a) PROVE Held' /\ EndedKept
  BY <1>1, <1>2, <1>3, HeldStart
<1>4. ASSUME NEW a \in Actors, Proceed(a) \/ Disrupt(a) PROVE Held' /\ EndedKept
  <2>1. CASE Create(a) \/ Patch(a) \/ \E i \in Ids : Fix(a, i)
    BY <1>1, <2>1, HeldWrite
  <2>2. CASE \/ GateOpen(a) \/ GateShut(a) \/ ReadEvent(a) \/ Count(a) \/ Find(a) \/ Save(a) \/ Log(a)
             \/ (\E list \in Lists : ReadList(a, list))
             \/ LogFix(a) \/ EndFix(a) \/ Reread(a) \/ Report(a) \/ Disrupt(a)
    BY <1>1, <1>2, <2>2, HeldLocal
  <2> QED BY <1>4, <2>1, <2>2 DEF Proceed
<1>5. CASE UNCHANGED vars
  <2>1. \A b \in Actors : h'[b] = h[b]
    BY <1>5 DEF vars
  <2>2. UNCHANGED <<size, status>> /\ Confirmed' = Confirmed /\ Waitlisted' = Waitlisted
    BY <1>5 DEF vars, Confirmed, Waitlisted, WithStatus, Created
  <2> QED BY <1>1, <1>2, <2>1, <2>2 DEF Held
<1> QED BY <1>3, <1>4, <1>5 DEF Next

\* Whatever calls fail or are run again on the way.
THEOREM HeldAlways ==
  ASSUME OneAtATime
  PROVE  Spec => []Held
<1>1. Held /\ [Next]_vars => Held'
  BY HeldNext
<1> QED BY <1>1, HeldInit, PTL DEF Spec

(***************************************************************************)
(* Where one operation follows another, a booking that is cancelled or     *)
(* used stays so, whatever calls fail and whatever blocks of calls are run *)
(* again: a cancellation begins from a live booking, a check-in from a     *)
(* confirmed one, and a reconciliation writes only to what it read.        *)
(***************************************************************************)
THEOREM EndedForGood ==
  ASSUME OneAtATime
  PROVE  Spec => EndedStaysEnded
<1>1. Held /\ [Next]_vars
        => [\A i \in Ids : status[i] \in {"cancelled", "checked_in"} => status'[i] = status[i]]_vars
  BY HeldNext DEF EndedKept
<1> QED BY <1>1, HeldAlways, PTL DEF Spec, EndedStaysEnded

-----------------------------------------------------------------------------
(* The answer to a booking.                                                *)

\* Whoever books is told what the booking read again says, or nothing.
ReadsAgain == \A a \in Actors : "book" \in Ops[a] => PortOf[a].book.report # "initial"

\* The inductive strengthening of ReportIsCurrent.
Truthful == Alone /\ ReportIsCurrent

LEMMA ReportStep ==
  ASSUME ReadsAgain, Truthful, NEW a \in Actors, Proceed(a) \/ Disrupt(a),
         h'[a].pc = "report", h'[a].op = "book"
  PROVE  h'[a].result = status'[h'[a].target]
<1> DEFINE r == h[a]
           s == h'[a]
<1>1. Makes(a, r, s) /\ Onward(r, s)
  BY StepMakes, OthersRest DEF Truthful, Alone
<1>2. r.op \in Ops[a] \union {"none"}
  BY DEF Truthful, Alone
<1>3. s.pc = "report" /\ s.op = "book"
  OBVIOUS
<1> HIDE DEF r, s
<1>4. s # Resting /\ r.op = "book"
  BY <1>1, <1>3 DEF Onward, Resting
<1>5. ~(Quiet /\ ReadsEvent(PortOf[a], r, s, event))
  BY <1>3, <1>4 DEF ReadsEvent, Knows
<1>6. ~(Quiet /\ EndsFix(PortOf[a], r, s))
  BY <1>2, <1>3, <1>4 DEF EndsFix, ReadsAgain
<1>7. ~(Quiet /\ \E list \in Lists : ReadsList(r, s, list, Confirmed, Waitlisted))
  BY <1>3 DEF ReadsList, ReadsLists
<1>8. /\ ~Ends(r, s) /\ ~PassesGate(PortOf[a], r, s) /\ ~Counts(r, s, Confirmed)
      /\ ~Creates(r, s, size) /\ ~Finds(PortOf[a], r, s, status[r.target])
      /\ ~Patches(r, s) /\ ~Saves(r, s, event, event') /\ ~Logs(PortOf[a], r, s)
  BY <1>3, <1>4 DEF Ends, PassesGate, Counts, Creates, Finds, Patches, Saves, Logs
<1>9. /\ \A i : ~Fixes(r, s, i, status, status')
      /\ ~LogsFix(r, s, told, told') /\ ~FailsFix(r, s) /\ ~Expires(PortOf[a], r, s)
      /\ ~Misses(PortOf[a], r, s)
  BY <1>3 DEF Fixes, LogsFix, FailsFix, Expires, Misses
<1>10. Quiet /\ Rereads(r, s, status[r.target])
  BY <1>1, <1>5, <1>6, <1>7, <1>8, <1>9 DEF Makes
<1>11. s.result = status[r.target] /\ s.target = r.target /\ status' = status
  BY <1>10 DEF Rereads, SameTask, Quiet
<1> QED BY <1>11 DEF r, s

LEMMA TruthfulNext == OneAtATime /\ ReadsAgain /\ Truthful /\ [Next]_vars => Truthful'
<1> SUFFICES ASSUME OneAtATime, ReadsAgain, Truthful, [Next]_vars PROVE Truthful'
  OBVIOUS
<1>1. Alone'
  BY AloneNext DEF Truthful
<1>2. SUFFICES ASSUME NEW b \in Actors, h'[b].pc = "report", h'[b].op = "book"
               PROVE  h'[b].result = status'[h'[b].target]
  BY <1>1 DEF Truthful, ReportIsCurrent
<1>3. Resting.pc = "idle"
  BY DEF Resting
<1>4. ASSUME NEW a \in Actors, Start(a) PROVE FALSE
  <2>1. \A c \in Actors : h[c] = Resting
    BY <1>4, StartAtRest, AloneNext DEF Truthful
  <2>2. CASE UNCHANGED h
    BY <1>2, <1>3, <2>1, <2>2
  <2>3. CASE StartsAs(a, h'[a]) /\ \A c \in Actors : c # a => h'[c] = Resting
    <3>1. PortOf[a].book.first # "report"
      BY PortOfAssumption DEF PortProfile, BookProfile
    <3> QED BY <1>2, <1>3, <2>3, <3>1 DEF StartsAs
  <2> QED BY <1>4, <2>2, <2>3, StartAtRest DEF Truthful
<1>5. ASSUME NEW a \in Actors, Proceed(a) \/ Disrupt(a)
      PROVE  h'[b].result = status'[h'[b].target]
  <2>1. b = a
    BY <1>2, <1>3, <1>5, OthersRest DEF Truthful
  <2> QED BY <1>2, <1>5, <2>1, ReportStep
<1>6. CASE UNCHANGED vars
  <2>1. h'[b] = h[b] /\ status' = status
    BY <1>6 DEF vars
  <2> QED BY <1>2, <2>1 DEF Truthful, ReportIsCurrent
<1> QED BY <1>4, <1>5, <1>6 DEF Next

(***************************************************************************)
(* Where one operation follows another, what a booker is shown is what the *)
(* booking says, whatever its own reconciliation made of it and whatever   *)
(* calls failed: on every port that reads the booking again, or shows      *)
(* nothing.                                                                *)
(***************************************************************************)
THEOREM TruthfulAnswers ==
  ASSUME OneAtATime, ReadsAgain
  PROVE  Spec => []ReportIsCurrent
<1>1. Init => Truthful
  <2>1. Resting.pc = "idle"
    BY DEF Resting
  <2> QED BY <2>1, AloneInit DEF Init, Truthful, ReportIsCurrent
<1>2. Truthful /\ [Next]_vars => Truthful'
  BY TruthfulNext
<1>3. Truthful => ReportIsCurrent
  BY DEF Truthful
<1> QED BY <1>1, <1>2, <1>3, PTL DEF Spec

-----------------------------------------------------------------------------
(* Deleted events.                                                         *)

\* Nobody who cancels reconciles a deleted event.
DeletionIsNoticed == \A a \in Actors : "cancel" \in Ops[a] => PortOf[a].cancel.gone # "unbounded"

\* What a handler with record r at port p can be doing about a deleted event.
InertAt(r, p) ==
  /\ r.op \in {"none", "book", "cancel"}
  /\ r.op = "none" => r.pc = "idle"
  /\ r.op = "book" => r.pc = "event" \/ (r.pc = "gate" /\ p.book.first = "gate")
  /\ r.op = "cancel" =>
       /\ r.pc \in {"find", "event", "patch", "log"}
       /\ p.cancel.event = "before" /\ r.pc \in {"patch", "log"} => r.skip

\* The inductive strengthening of DeletedEventIsInert.
Inert == Alone /\ (~event.exists => \A a \in Actors : InertAt(h[a], PortOf[a]))

\* What no step may do to a deleted event.
OnlyCancelled == ~event.exists => \A i \in Ids : status'[i] \in {status[i], "cancelled"}

LEMMA InertStep ==
  ASSUME DeletionIsNoticed, Inert, NEW a \in Actors, Proceed(a) \/ Disrupt(a), ~event.exists
  PROVE  InertAt(h'[a], PortOf[a]) /\ OnlyCancelled
<1> DEFINE r == h[a]
           s == h'[a]
           Goal == InertAt(s, PortOf[a]) /\ \A i \in Ids : status'[i] \in {status[i], "cancelled"}
<1>1. Makes(a, r, s) /\ InertAt(r, PortOf[a]) /\ r.pc # "idle"
  BY StepMakes, OthersRest DEF Inert, Alone
<1>2. r.op = "cancel" => PortOf[a].cancel.gone # "unbounded"
  BY DEF Inert, Alone, DeletionIsNoticed
<1>3. status \in [Ids -> Status \union {None}]
  BY DEF Inert, Alone, Sound, TypeOK
<1>4. InertAt(Resting, PortOf[a])
  BY DEF InertAt, Resting
<1> HIDE DEF r, s
<1> SUFFICES Goal
  BY DEF r, s, OnlyCancelled
<1>5. Quiet => \A i \in Ids : status'[i] \in {status[i], "cancelled"}
  BY DEF Quiet
<1>6. CASE Quiet /\ (Ends(r, s) \/ PassesGate(PortOf[a], r, s) \/ Counts(r, s, Confirmed))
  BY <1>1, <1>4, <1>5, <1>6 DEF Ends, PassesGate, Counts, SameTask, InertAt
<1>7. CASE Quiet /\ ReadsEvent(PortOf[a], r, s, event)
  <2>1. \/ s = Resting
        \/ r.op = "cancel" /\ PortOf[a].cancel.event = "before" /\ s.pc = "patch" /\ s.skip /\ s.op = "cancel"
    BY <1>2, <1>7 DEF ReadsEvent
  <2> QED BY <1>4, <1>5, <1>7, <2>1 DEF InertAt
<1>8. CASE Quiet /\ Finds(PortOf[a], r, s, status[r.target])
  BY <1>1, <1>4, <1>5, <1>8 DEF Finds, SameTask, InertAt
<1>9. CASE Quiet /\ \E list \in Lists : ReadsList(r, s, list, Confirmed, Waitlisted)
  <2>1. r.pc = "reads"
    BY <1>9 DEF ReadsList
  <2> QED BY <1>1, <2>1 DEF InertAt
<1>10. CASE Quiet /\ (EndsFix(PortOf[a], r, s) \/ Rereads(r, s, status[r.target]) \/ FailsFix(r, s))
  <2>1. r.pc \in {"fix", "reread"}
    BY <1>10 DEF EndsFix, Rereads, FailsFix
  <2> QED BY <1>1, <2>1 DEF InertAt
<1>11. CASE Quiet /\ Expires(PortOf[a], r, s)
  BY <1>1, <1>5, <1>11 DEF Expires, InertAt
<1>12. CASE Creates(r, s, size) \/ (\E i \in Ids : Fixes(r, s, i, status, status')) \/ LogsFix(r, s, told, told')
  <2>1. r.pc \in {"create", "fix"}
    BY <1>12 DEF Creates, Fixes, LogsFix
  <2> QED BY <1>1, <2>1 DEF InertAt
<1>13. CASE /\ Patches(r, s)
            /\ status' = [status EXCEPT ![r.target] =
                            IF r.op = "cancel" THEN "cancelled" ELSE "checked_in"]
  <2>1. r.op = "cancel" /\ status' = [status EXCEPT ![r.target] = "cancelled"]
    BY <1>1, <1>13 DEF Patches, InertAt
  <2>2. \A i \in Ids : status'[i] \in {status[i], "cancelled"}
    BY <1>3, <2>1
  <2> QED BY <1>1, <1>13, <2>2 DEF Patches, SameTask, InertAt
<1>14. CASE Saves(r, s, event, event')
  BY <1>1, <1>14 DEF Saves, InertAt
<1>15. CASE Logs(PortOf[a], r, s) /\ UNCHANGED <<size, owner, status, event>>
  BY <1>1, <1>4, <1>15 DEF Logs, SameTask, InertAt
<1>16. CASE Quiet /\ Misses(PortOf[a], r, s)
  BY <1>5, <1>16 DEF Misses, InertAt
<1> QED BY <1>1, <1>6, <1>7, <1>8, <1>9, <1>10, <1>11, <1>12, <1>13, <1>14, <1>15, <1>16 DEF Makes

LEMMA InertNext == OneAtATime /\ DeletionIsNoticed /\ Inert /\ [Next]_vars => Inert' /\ OnlyCancelled
<1> SUFFICES ASSUME OneAtATime, DeletionIsNoticed, Inert, [Next]_vars PROVE Inert' /\ OnlyCancelled
  OBVIOUS
<1>1. Alone'
  BY AloneNext DEF Inert
<1>2. \A p : InertAt(Resting, p)
  BY DEF InertAt, Resting
<1>3. ASSUME NEW a \in Actors, Start(a) PROVE Inert' /\ OnlyCancelled
  <2>1. /\ \A b \in Actors : h[b] = Resting
        /\ UNCHANGED status
        /\ \/ /\ StartsAs(a, h'[a]) /\ UNCHANGED event
              /\ \A b \in Actors : b # a => h'[b] = Resting
           \/ UNCHANGED h
    BY <1>3, StartAtRest DEF Inert
  <2>2. OnlyCancelled
    BY <2>1 DEF OnlyCancelled
  <2>3. CASE UNCHANGED h
    <3>1. \A b \in Actors : h'[b] = Resting
      BY <2>1, <2>3
    <3> QED BY <1>1, <1>2, <2>2, <3>1 DEF Inert
  <2>4. CASE /\ StartsAs(a, h'[a]) /\ UNCHANGED event
             /\ \A b \in Actors : b # a => h'[b] = Resting
    <3>1. ~event.exists => InertAt(h'[a], PortOf[a])
      <4>1. PortOf[a].book.first \in {"event", "gate"} /\ PortOf[a].cancel.event \in {"before", "after"}
        BY PortOfAssumption DEF PortProfile, BookProfile, CancelProfile
      <4>2. BeforeWrite(a) = IF PortOf[a].cancel.event = "before" THEN "event" ELSE "patch"
        BY DEF BeforeWrite
      <4> QED BY <2>4, <4>1, <4>2 DEF StartsAs, InertAt
    <3> QED BY <1>1, <1>2, <2>2, <2>4, <3>1 DEF Inert
  <2> QED BY <2>1, <2>3, <2>4
<1>4. ASSUME NEW a \in Actors, Proceed(a) \/ Disrupt(a) PROVE Inert' /\ OnlyCancelled
  <2>1. \A b \in Actors : b # a => h'[b] = Resting
    BY <1>4, OthersRest DEF Inert
  <2>2. event'.exists <=> event.exists
    <3>1. Makes(a, h[a], h'[a])
      BY <1>4, StepMakes DEF Inert, Alone
    <3>2. CASE Saves(h[a], h'[a], event, event')
      BY <3>2 DEF Saves
    <3>3. CASE event' = event
      BY <3>3
    <3> QED BY <3>1, <3>2, <3>3 DEF Makes, Quiet
  <2>3. CASE ~event.exists
    BY <1>1, <1>2, <1>4, <2>1, <2>3, InertStep DEF Inert
  <2>4. CASE event.exists
    BY <1>1, <2>2, <2>4 DEF Inert, OnlyCancelled
  <2> QED BY <2>3, <2>4
<1>5. CASE UNCHANGED vars
  <2>1. \A b \in Actors : h'[b] = h[b]
    BY <1>5 DEF vars
  <2>2. UNCHANGED <<status, event>>
    BY <1>5 DEF vars
  <2> QED BY <1>1, <2>1, <2>2 DEF Inert, OnlyCancelled
<1> QED BY <1>3, <1>4, <1>5 DEF Next

(***************************************************************************)
(* Where one operation follows another and every port that cancels notices *)
(* that an event is gone, the bookings of a deleted event change only by   *)
(* being cancelled, whatever calls fail or are run again: no booking is    *)
(* made, let in or promoted any more.                                      *)
(***************************************************************************)
THEOREM DeletedForGood ==
  ASSUME OneAtATime, DeletionIsNoticed
  PROVE  Spec => DeletedEventIsInert
<1>1. Init => Inert
  <2>1. ASSUME Init PROVE event.exists
    <3>1. event \in [capacity : Capacities, exists : {TRUE}]
      BY <2>1 DEF Init
    <3> QED BY <3>1
  <2> QED BY <2>1, AloneInit DEF Inert
<1>2. Inert /\ [Next]_vars => Inert'
  BY InertNext
<1>3. Inert /\ [Next]_vars
        => [~event.exists => \A i \in Ids : status'[i] \in {status[i], "cancelled"}]_vars
  BY InertNext DEF OnlyCancelled
<1> QED BY <1>1, <1>2, <1>3, PTL DEF Spec, DeletedEventIsInert

-----------------------------------------------------------------------------
(* The activity feed.                                                      *)

\* The bookings a handler with record r has written and not reported yet.
Owed(r) ==
  CASE r.pc = "log" /\ r.op # "edit" -> {r.target}
    [] r.pc = "fix" -> {entry[1] : entry \in r.logs}
    [] OTHER -> {}

\* What it is about to report, when s are the statuses, is what it has written.
OwesAt(r, s) ==
  /\ r.pc = "create" \/ (r.pc = "log" /\ r.op = "book") => r.initial \in Lists
  /\ r.pc = "log" => /\ r.op = "book" => s[r.target] = r.initial
                     /\ r.op = "cancel" => s[r.target] = "cancelled"
                     /\ r.op = "checkin" => s[r.target] = "checked_in"
  /\ r.pc # "fix" => r.logs = {}
  /\ \A entry \in r.logs : /\ Tells(entry[2]) = s[entry[1]]
                           /\ entry[1] \notin r.promote \union r.demote
  /\ ~r.failed

\* The inductive strengthening of FeedIsCurrent: the feed lacks only what the one
\* handler that is busy is still going to report.
Owing ==
  /\ Held
  /\ \A a \in Actors : OwesAt(h[a], status)
  /\ \A i \in Created : \/ Tells(told[i]) = status[i]
                        \/ \E a \in Actors : i \in Owed(h[a])

LEMMA Words ==
  /\ Tells("booking_confirmed") = "confirmed" /\ Tells("booking_promoted") = "confirmed"
  /\ Tells("booking_waitlisted") = "waitlisted" /\ Tells("booking_cancelled") = "cancelled"
  /\ Tells("checked_in") = "checked_in"
BY DEF Tells, None

LEMMA RestingOwes == Owed(Resting) = {} /\ \A s : OwesAt(Resting, s)
BY DEF Resting, Owed, OwesAt

\* What the step of a handler has to leave of it.
FeedKept(s) ==
  /\ OwesAt(s, status')
  /\ \A i \in Created' : i \notin Owed(s) => Tells(told'[i]) = status'[i]

\* Where it had nothing to report and still has not.
LEMMA NothingOwed ==
  ASSUME NEW r, NEW s, OwesAt(r, status), UNCHANGED <<size, status, told>>,
         \A i \in Created : i \notin Owed(r) => Tells(told[i]) = status[i],
         r.pc \notin {"log", "fix"} \/ (r.pc = "fix" /\ r.logs = {}),
         s.pc # "log", s.logs = {}, ~s.failed,
         s.pc = "create" => s.initial \in Lists
  PROVE  FeedKept(s)
<1>1. Owed(r) = {}
  BY DEF Owed
<1>2. Created' = Created
  BY DEF Created
<1>3. OwesAt(s, status')
  BY DEF OwesAt
<1> QED BY <1>1, <1>2, <1>3 DEF FeedKept

LEMMA LogFeed ==
  ASSUME Owing, NEW a \in Actors, Log(a),
         \A i \in Created : i \notin Owed(h[a]) => Tells(told[i]) = status[i]
  PROVE  FeedKept(h'[a])
<1> DEFINE r == h[a]
           s == h'[a]
<1>1. /\ h[a] \in Handler /\ FitsAt(r, size) /\ OwesAt(r, status) /\ Sound
      /\ told \in [Ids -> Activity]
  BY HeldFacts DEF Owing, Held, Alone, Sound, TypeOK
<1>2. Logs(PortOf[a], r, s) /\ UNCHANGED <<size, owner, status, event>>
  BY <1>1, LogRecord DEF Log
<1>3. told' = IF r.op = "edit" THEN told ELSE [told EXCEPT ![r.target] = Entry(a)]
  BY DEF Log
<1>4. r.op # "edit" => r.target \in Ids /\ r.target \in Created
  <2>1. r.pc = "log" /\ r.op \in {"book", "cancel", "checkin", "edit"}
    BY <1>2 DEF Logs
  <2>2. r.op # "edit" => r.target \in Created
    BY <1>1, <2>1 DEF FitsAt, Created
  <2> QED BY <1>1, <2>2, CreatedIds
<1>5. r.op # "edit" => Tells(Entry(a)) = status[r.target]
  <2>1. CASE r.op = "book"
    <3>1. status[r.target] = r.initial /\ r.initial \in Lists
      BY <1>1, <1>2, <2>1 DEF OwesAt, Logs
    <3>2. Entry(a) = IF r.initial = "confirmed" THEN "booking_confirmed" ELSE "booking_waitlisted"
      BY <2>1 DEF Entry
    <3> QED BY <3>1, <3>2, Words DEF Lists
  <2>2. CASE r.op = "cancel"
    <3>1. status[r.target] = "cancelled"
      BY <1>1, <1>2, <2>2 DEF OwesAt, Logs
    <3>2. Entry(a) = "booking_cancelled"
      BY <2>2 DEF Entry
    <3> QED BY <3>1, <3>2, Words
  <2>3. CASE r.op = "checkin"
    <3>1. status[r.target] = "checked_in"
      BY <1>1, <1>2, <2>3 DEF OwesAt, Logs
    <3>2. Entry(a) = "checked_in"
      BY <2>3 DEF Entry
    <3> QED BY <3>1, <3>2, Words
  <2> QED BY <1>2, <2>1, <2>2, <2>3 DEF Logs
<1>6. \A i \in Created : Tells(told'[i]) = status[i]
  <2> TAKE i \in Created
  <2>1. i \in Ids
    BY <1>1, CreatedIds
  <2>2. Owed(r) = IF r.op = "edit" THEN {} ELSE {r.target}
    BY <1>2 DEF Owed, Logs
  <2>3. i \notin Owed(r) => Tells(told[i]) = status[i]
    OBVIOUS
  <2>4. CASE r.op # "edit" /\ i = r.target
    BY <1>1, <1>3, <1>4, <1>5, <2>4
  <2>5. CASE r.op = "edit" \/ i # r.target
    BY <1>1, <1>3, <1>4, <2>1, <2>2, <2>3, <2>5
  <2> QED BY <2>4, <2>5
<1>7. Created' = Created /\ status' = status
  BY <1>2 DEF Created
<1>8. OwesAt(Resting, status')
  BY RestingOwes
<1> HIDE DEF r, s
<1>9. OwesAt(s, status')
  BY <1>1, <1>2, <1>8 DEF Logs, SameFixes, SameTask, OwesAt
<1>10. FeedKept(s)
  BY <1>6, <1>7, <1>9 DEF FeedKept
<1> QED BY <1>10 DEF s

LEMMA FixFeed ==
  ASSUME Owing, NEW a \in Actors, NEW i \in Ids, Fix(a, i),
         \A j \in Created : j \notin Owed(h[a]) => Tells(told[j]) = status[j]
  PROVE  FeedKept(h'[a])
<1> DEFINE r == h[a]
           s == h'[a]
<1>1. /\ h[a] \in Handler /\ OwesAt(r, status) /\ Sound
      /\ HeldAt(r, status, Confirmed, Waitlisted)
      /\ status \in [Ids -> Status \union {None}]
  BY HeldFacts DEF Owing, Held, Alone
<1>2. Fixes(r, s, i, status, status') /\ UNCHANGED <<size, owner, told, event>>
  BY <1>1, FixRecord DEF Fix
<1>3. r.logs \subseteq Ids \X {"booking_promoted", "booking_waitlisted"}
  BY <1>1 DEF Handler
<1> HIDE DEF r, s
<1>4. PICK word \in {"booking_promoted", "booking_waitlisted"} :
        /\ r.pc = "fix" /\ s.pc = "fix" /\ s.failed = r.failed
        /\ i \in r.promote \union r.demote
        /\ status' = [status EXCEPT ![i] = Tells(word)]
        /\ s.promote \subseteq r.promote /\ s.demote \subseteq r.demote
        /\ i \notin s.promote \union s.demote
        /\ s.logs = r.logs \union {<<i, word>>}
  <2>1. r.promote \subseteq Waitlisted /\ r.demote \subseteq Confirmed
    BY <1>1, <1>2 DEF Fixes, HeldAt
  <2>2. i \notin Waitlisted \/ i \notin Confirmed
    BY DEF Waitlisted, Confirmed, WithStatus
  <2>3. CASE i \in r.promote /\ s.promote = r.promote \ {i}
    <3>1. i \notin s.demote
      BY <1>2, <2>1, <2>2, <2>3 DEF Fixes
    <3> QED BY <1>2, <2>3, <3>1, Words DEF Fixes
  <2>4. CASE i \in r.demote /\ i \notin r.promote
    BY <1>2, <2>4, Words DEF Fixes
  <2> QED BY <1>2, <2>3, <2>4 DEF Fixes
<1>5. \A j \in Ids : j # i => status'[j] = status[j]
  BY <1>1, <1>4
<1>6. status'[i] = Tells(word)
  BY <1>1, <1>4
<1>7. ASSUME NEW entry \in s.logs
      PROVE  Tells(entry[2]) = status'[entry[1]] /\ entry[1] \notin s.promote \union s.demote
  <2>1. CASE entry = <<i, word>>
    BY <1>4, <1>6, <2>1
  <2>2. CASE entry \in r.logs
    <3>1. Tells(entry[2]) = status[entry[1]] /\ entry[1] \notin r.promote \union r.demote
      BY <1>1, <2>2 DEF OwesAt
    <3>2. entry[1] \in Ids /\ entry[1] # i
      BY <1>3, <1>4, <2>2, <3>1
    <3> QED BY <1>4, <1>5, <3>1, <3>2
  <2> QED BY <1>4, <1>7, <2>1, <2>2
<1>8. OwesAt(s, status')
  BY <1>1, <1>4, <1>7 DEF OwesAt
<1>9. ASSUME NEW j \in Created', j \notin Owed(s) PROVE Tells(told'[j]) = status'[j]
  <2>1. Owed(s) = {entry[1] : entry \in s.logs} /\ Owed(r) = {entry[1] : entry \in r.logs}
    BY <1>4 DEF Owed
  <2>2. <<i, word>> \in s.logs /\ <<i, word>>[1] = i
    BY <1>4
  <2>3. j # i /\ j \notin Owed(r)
    BY <1>4, <1>9, <2>1, <2>2
  <2>4. j \in Created /\ told' = told
    BY <1>2 DEF Created
  <2>5. j \in Ids
    BY <1>1, <2>4, CreatedIds
  <2> QED BY <1>5, <2>3, <2>4, <2>5 DEF r
<1>10. FeedKept(s)
  BY <1>8, <1>9 DEF FeedKept
<1> QED BY <1>10 DEF s

LEMMA LogFixFeed ==
  ASSUME Owing, NEW a \in Actors, LogFix(a),
         \A j \in Created : j \notin Owed(h[a]) => Tells(told[j]) = status[j]
  PROVE  FeedKept(h'[a])
<1> DEFINE r == h[a]
           s == h'[a]
<1>1. /\ h[a] \in Handler /\ OwesAt(r, status) /\ Sound /\ told \in [Ids -> Activity]
  BY HeldFacts DEF Owing, Held, Alone, Sound, TypeOK
<1>2. LogsFix(r, s, told, told') /\ UNCHANGED <<size, owner, status, event>>
  BY <1>1, LogFixRecord DEF LogFix
<1>3. r.logs \subseteq Ids \X {"booking_promoted", "booking_waitlisted"}
  BY <1>1 DEF Handler
<1>4. \A j \in Created : j \in Ids
  BY <1>1, CreatedIds
<1>5. \A j \in Created : j \notin Owed(r) => Tells(told[j]) = status[j]
  OBVIOUS
<1> HIDE DEF r, s
<1>6. PICK entry \in r.logs : told' = [told EXCEPT ![entry[1]] = entry[2]] /\ s.logs = r.logs \ {entry}
  BY <1>2 DEF LogsFix
<1>7. /\ r.pc = "fix" /\ s.pc = "fix" /\ s.failed = r.failed
      /\ s.promote = r.promote /\ s.demote = r.demote
  BY <1>2 DEF LogsFix
<1>8. OwesAt(s, status')
  BY <1>1, <1>2, <1>6, <1>7 DEF OwesAt
<1>9. entry[1] \in Ids /\ Tells(entry[2]) = status[entry[1]]
  BY <1>1, <1>3, <1>6 DEF OwesAt
<1>10. ASSUME NEW j \in Created, j \notin Owed(s) PROVE Tells(told'[j]) = status[j]
  <2>1. CASE j = entry[1]
    BY <1>1, <1>6, <1>9, <2>1
  <2>2. CASE j # entry[1]
    <3>1. Owed(s) = {e[1] : e \in s.logs} /\ Owed(r) = {e[1] : e \in r.logs}
      BY <1>7 DEF Owed
    <3>2. j \notin Owed(r)
      BY <1>6, <1>10, <2>2, <3>1
    <3> QED BY <1>1, <1>4, <1>5, <1>6, <1>9, <2>2, <3>2
  <2> QED BY <2>1, <2>2
<1>11. Created' = Created /\ status' = status
  BY <1>2 DEF Created
<1>12. FeedKept(s)
  BY <1>8, <1>10, <1>11 DEF FeedKept
<1> QED BY <1>12 DEF s

LEMMA WriteFeed ==
  ASSUME Owing, NEW a \in Actors, Create(a) \/ Patch(a),
         \A j \in Created : j \notin Owed(h[a]) => Tells(told[j]) = status[j]
  PROVE  FeedKept(h'[a])
<1> DEFINE r == h[a]
           s == h'[a]
<1>1. /\ OwesAt(r, status) /\ Sound /\ status \in [Ids -> Status \union {None}]
      /\ size \in Nat /\ size <= MaxBookings
  BY HeldFacts DEF Owing, Held, Alone
<1>2. \A j \in Created : j \in Ids
  BY <1>1, CreatedIds
<1>3. \A j \in Created : j \notin Owed(r) => Tells(told[j]) = status[j]
  OBVIOUS
<1>4. CASE Create(a)
  <2>1. /\ Creates(r, s, size) /\ size' = size + 1 /\ size + 1 \in Ids /\ told' = told
        /\ status' = [status EXCEPT ![size + 1] = r.initial]
    BY <1>1, <1>4, CreateRecord DEF Create
  <2> HIDE DEF r, s
  <2>2. Owed(r) = {} /\ Owed(s) = {size + 1}
    BY <2>1 DEF Creates, Owed
  <2>3. OwesAt(s, status')
    BY <1>1, <2>1 DEF Creates, SameFixes, OwesAt
  <2>4. \A j \in Created' : j # size + 1 => j \in Created
    BY <1>1, <2>1 DEF Created
  <2>5. FeedKept(s)
    BY <1>1, <1>2, <1>3, <2>1, <2>2, <2>3, <2>4 DEF FeedKept
  <2> QED BY <2>5 DEF s
<1>5. CASE Patch(a)
  <2>1. /\ Patches(r, s) /\ r.target \in Ids /\ told' = told /\ size' = size
        /\ status' = [status EXCEPT ![r.target] =
                        IF r.op = "cancel" THEN "cancelled" ELSE "checked_in"]
    BY <1>1, <1>5, PatchRecord DEF Patch
  <2> HIDE DEF r, s
  <2>2. Owed(r) = {} /\ Owed(s) = {r.target}
    BY <2>1 DEF Patches, SameTask, Owed
  <2>3. OwesAt(s, status')
    BY <1>1, <2>1 DEF Patches, SameTask, SameFixes, OwesAt
  <2>4. Created' = Created
    BY <2>1 DEF Created
  <2>5. FeedKept(s)
    BY <1>1, <1>2, <1>3, <2>1, <2>2, <2>3, <2>4 DEF FeedKept
  <2> QED BY <2>5 DEF s
<1> QED BY <1>4, <1>5

LEMMA OtherFeed ==
  ASSUME Faults = {}, Owing, NEW a \in Actors, Proceed(a) \/ Disrupt(a),
         ~Log(a), ~LogFix(a), ~Create(a), ~Patch(a), \A i \in Ids : ~Fix(a, i),
         \A j \in Created : j \notin Owed(h[a]) => Tells(told[j]) = status[j]
  PROVE  FeedKept(h'[a])
<1> DEFINE r == h[a]
           s == h'[a]
           Goal == FeedKept(s)
<1>1. OwesAt(r, status) /\ Sound
  BY DEF Owing, Held, Alone
<1>2. \A j \in Created : j \notin Owed(r) => Tells(told[j]) = status[j]
  OBVIOUS
<1> SUFFICES Goal
  OBVIOUS
<1>3. Resting.pc = "idle" /\ Resting.logs = {} /\ ~Resting.failed
  BY DEF Resting
<1>4. ASSUME UNCHANGED <<size, status, told>>,
             r.pc \notin {"log", "fix"} \/ (r.pc = "fix" /\ r.logs = {}),
             s.pc # "log", s.logs = {}, ~s.failed, s.pc = "create" => s.initial \in Lists
      PROVE  Goal
  <2> HIDE DEF r, s
  <2> QED BY ONLY <1>1, <1>2, <1>4, NothingOwed DEF Goal
<1>5. OwesAt(r, status) /\ r.pc # "fix" => r.logs = {} /\ ~r.failed
  BY DEF OwesAt
<1>6. CASE GateShut(a) \/ GateOpen(a) \/ ReadEvent(a) \/ Count(a) \/ Find(a) \/ Reread(a) \/ Report(a)
  <2>1. UNCHANGED <<size, status, told>>
    BY <1>6 DEF GateShut, GateOpen, ReadEvent, Count, Find, Reread, Report
  <2>2. r.pc \notin {"log", "fix"}
    BY <1>6 DEF GateShut, GateOpen, ReadEvent, Count, Find, Reread, Report
  <2>3. s.pc # "log" /\ s.logs = {} /\ ~s.failed /\ (s.pc = "create" => s.initial \in Lists)
    <3>1. CASE GateShut(a) \/ Report(a)
      <4>1. s = Resting
        BY <1>1, <3>1, Records DEF GateShut, Report, Finish
      <4> QED BY <1>3, <4>1
    <3>2. CASE GateOpen(a)
      <4>1. PassesGate(PortOf[a], r, s)
        BY <1>1, <3>2, GateRecord
      <4> HIDE DEF r, s
      <4> QED BY <1>1, <1>5, <2>2, <4>1 DEF PassesGate, SameFixes
    <3>3. CASE ReadEvent(a)
      <4>1. ReadsEvent(PortOf[a], r, s, event)
        BY <1>1, <3>3, ReadEventRecord
      <4> HIDE DEF r, s
      <4> QED BY <1>1, <1>3, <1>5, <2>2, <4>1 DEF ReadsEvent, Knows, SameFixes
    <3>4. CASE Count(a)
      <4>1. Counts(r, s, Confirmed)
        BY <1>1, <3>4, CountRecord
      <4> HIDE DEF r, s
      <4> QED BY <1>1, <1>5, <2>2, <4>1 DEF Counts, SameFixes, Lists
    <3>5. CASE Find(a)
      <4>1. Finds(PortOf[a], r, s, status[r.target])
        BY <1>1, <3>5, FindRecord
      <4> HIDE DEF r, s
      <4> QED BY <1>1, <1>3, <1>5, <2>2, <4>1 DEF Finds, SameFixes
    <3>6. CASE Reread(a)
      <4>1. Rereads(r, s, status[r.target])
        BY <1>1, <3>6, RereadRecord
      <4> HIDE DEF r, s
      <4> QED BY <1>1, <1>5, <2>2, <4>1 DEF Rereads, SameFixes
    <3> QED BY <1>6, <3>1, <3>2, <3>3, <3>4, <3>5, <3>6
  <2> QED BY <1>4, <2>1, <2>2, <2>3
<1>7. CASE EndFix(a)
  <2>1. EndsFix(PortOf[a], r, s) /\ UNCHANGED <<size, status, told>>
    BY <1>1, <1>7, EndFixRecord DEF EndFix
  <2> HIDE DEF r, s
  <2>2. r.pc = "fix" /\ r.logs = {} /\ s.pc \notin {"log", "create"} /\ s.logs = {} /\ ~s.failed
    BY <1>1, <1>3, <2>1 DEF EndsFix, SameFixes, OwesAt
  <2> QED BY <1>4, <2>1, <2>2
<1>8. CASE Save(a)
  <2>1. Saves(r, s, event, event') /\ UNCHANGED <<size, status, told>>
    BY <1>1, <1>8, SaveRecord DEF Save
  <2> HIDE DEF r, s
  <2>2. Owed(r) = {} /\ Created' = Created
    BY <2>1 DEF Owed, Saves, Created
  <2>3. OwesAt(s, status')
    BY <1>1, <2>1, RestingOwes DEF Saves, SameTask, SameFixes, OwesAt
  <2> QED BY <1>2, <2>1, <2>2, <2>3 DEF FeedKept
<1>9. ASSUME NEW list \in Lists, ReadList(a, list) PROVE Goal
  <2>1. ReadsList(r, s, list, Confirmed, Waitlisted) /\ UNCHANGED <<size, status, told>>
    BY <1>1, <1>9, ReadListRecord DEF ReadList
  <2> HIDE DEF r, s
  <2>2. r.pc = "reads" /\ s.pc \notin {"log", "create"} /\ s.logs = r.logs /\ s.failed = r.failed
    BY <2>1 DEF ReadsList, ReadsLists
  <2> QED BY <1>1, <1>4, <1>5, <2>1, <2>2
<1>10. ~Disrupt(a)
  <2>1. ~Fail(a) /\ ~GateLost(a) /\ ~EventLost(a) /\ ~FailFix(a) /\ ~Expire(a)
    BY DEF Fail, GateLost, EventLost, FailFix, Expire, Fault
  <2>2. ~CancelSibling(a)
    BY <1>1 DEF OwesAt, CancelSibling
  <2> QED BY <2>1, <2>2 DEF Disrupt
<1> QED BY <1>6, <1>7, <1>8, <1>9, <1>10 DEF Proceed

LEMMA OwingNext == OneAtATime /\ Faults = {} /\ Owing /\ [Next]_vars => Owing'
<1> SUFFICES ASSUME OneAtATime, Faults = {}, Owing, [Next]_vars PROVE Owing'
  OBVIOUS
<1>1. Held' /\ Alone
  BY HeldNext DEF Owing, Held
<1>2. ASSUME NEW a \in Actors, Start(a) PROVE Owing'
  <2>1. /\ \A b \in Actors : h[b] = Resting
        /\ UNCHANGED <<size, owner, status, told>>
        /\ \/ /\ StartsAs(a, h'[a])
              /\ \A b \in Actors : b # a => h'[b] = Resting
           \/ UNCHANGED h
    BY <1>1, <1>2, StartAtRest
  <2>2. Created' = Created
    BY <2>1 DEF Created
  <2>3. \A i \in Created' : Tells(told'[i]) = status'[i]
    BY <2>1, <2>2, RestingOwes DEF Owing
  <2>4. StartsAs(a, h'[a]) => OwesAt(h'[a], status')
    <3>1. PortOf[a].book.first \in {"event", "gate"}
      BY PortOfAssumption DEF PortProfile, BookProfile
    <3> QED BY <3>1 DEF StartsAs, OwesAt, BeforeWrite
  <2>5. \A b \in Actors : OwesAt(h'[b], status')
    <3>1. CASE UNCHANGED h
      <4>1. \A b \in Actors : h'[b] = Resting
        BY <2>1, <3>1
      <4> QED BY <4>1, RestingOwes
    <3>2. CASE StartsAs(a, h'[a]) /\ \A b \in Actors : b # a => h'[b] = Resting
      BY <2>4, <3>2, RestingOwes
    <3> QED BY <2>1, <3>1, <3>2
  <2> QED BY <1>1, <2>3, <2>5 DEF Owing
<1>3. ASSUME NEW a \in Actors, Proceed(a) \/ Disrupt(a) PROVE Owing'
  <2>1. \A b \in Actors : b # a => h[b] = Resting /\ h'[b] = Resting
    BY <1>1, <1>3, OthersRest
  <2>2. \A j \in Created : j \notin Owed(h[a]) => Tells(told[j]) = status[j]
    BY <2>1, RestingOwes DEF Owing
  <2>3. FeedKept(h'[a])
    <3>1. CASE Log(a)
      BY <2>2, <3>1, LogFeed
    <3>2. CASE LogFix(a)
      BY <2>2, <3>2, LogFixFeed
    <3>3. CASE Create(a) \/ Patch(a)
      BY <2>2, <3>3, WriteFeed
    <3>4. ASSUME NEW i \in Ids, Fix(a, i) PROVE FeedKept(h'[a])
      BY <2>2, <3>4, FixFeed
    <3> QED BY <1>3, <2>2, <3>1, <3>2, <3>3, <3>4, OtherFeed
  <2> QED BY <1>1, <2>1, <2>3, RestingOwes DEF Owing, FeedKept
<1>4. CASE UNCHANGED vars
  <2>1. \A b \in Actors : h'[b] = h[b]
    BY <1>4 DEF vars
  <2>2. UNCHANGED <<size, status, told>> /\ Created' = Created
    BY <1>4 DEF vars, Created
  <2> QED BY <1>1, <2>1, <2>2 DEF Owing
<1> QED BY <1>2, <1>3, <1>4 DEF Next

(***************************************************************************)
(* Where one operation follows another and no call fails, the last entry   *)
(* of the activity feed about a booking is its status whenever nothing is  *)
(* under way.  The invariant says what the feed may lack in between: the   *)
(* write the busy handler has not logged yet, and the corrections it has   *)
(* made and not reported, each of which will be reported as it was made.   *)
(***************************************************************************)
THEOREM FeedKeptCurrent ==
  ASSUME OneAtATime, Faults = {}
  PROVE  Spec => []FeedIsCurrent
<1>1. Init => Owing
  <2>1. ASSUME Init PROVE Created = {} /\ \A a \in Actors : h[a] = Resting
    BY <2>1 DEF Init, Created
  <2> QED BY <2>1, HeldInit, RestingOwes DEF Owing
<1>2. Owing /\ [Next]_vars => Owing'
  BY OwingNext
<1>3. Owing => FeedIsCurrent
  <2> SUFFICES ASSUME Owing, AtRest, NEW i \in Created PROVE Tells(told[i]) = status[i]
    BY DEF FeedIsCurrent
  <2>1. \A a \in Actors : h[a] = Resting
    BY DEF Owing, Held, Alone, AtRest
  <2> QED BY <2>1, RestingOwes DEF Owing
<1> QED BY <1>1, <1>2, <1>3, PTL DEF Spec

-----------------------------------------------------------------------------
(* One active booking for each user.                                       *)

\* Nobody's gate looks at whichever booking of the user the store returns first.
OrderedLookups == \A a \in Actors : "book" \in Ops[a] => PortOf[a].book.lookup.answer # "any"

\* A booking under way at port p has passed its gate.
PastGate(r, p) ==
  r.op = "book" /\ (r.pc \in {"count", "create"} \/ (r.pc = "event" /\ p.book.first = "gate"))

\* The inductive strengthening of OneActiveBooking: of a user's bookings only the
\* newest can be in force, and none is while the next one is on its way.
Superseded ==
  /\ Held
  /\ \A i, j \in Created : i < j /\ owner[i] = owner[j] => status[i] = "cancelled"
  /\ \A a \in Actors :
       h[a].op = "book" =>
         /\ h[a].user \in Users
         /\ PastGate(h[a], PortOf[a]) => \A i \in Mine(h[a].user) : status[i] = "cancelled"

LEMMA Newest ==
  ASSUME NEW n \in Nat, NEW S \in SUBSET (1..n), S # {}
  PROVE  \E i \in S : \A j \in S : j <= i
<1> DEFINE T == {n - i : i \in S}
<1>1. T \in SUBSET Nat /\ T # {}
  <2>1. \A i \in S : n - i \in Nat
    OBVIOUS
  <2> QED BY <2>1
<1>2. PICK t \in T : \A u \in T : t <= u
  BY <1>1, Earliest
<1>3. PICK i \in S : t = n - i
  OBVIOUS
<1>4. ASSUME NEW j \in S PROVE j <= i
  <2>1. n - i <= n - j
    BY <1>2, <1>3
  <2> QED BY <2>1
<1> QED BY <1>4

\* An open gate means that the user has no booking in force.
LEMMA GateSays ==
  ASSUME OrderedLookups, Superseded, NEW a \in Actors, GateOpen(a)
  PROVE  \A i \in Mine(h[a].user) : status[i] = "cancelled"
<1> DEFINE mine == Mine(h[a].user)
<1>1. Sound /\ h[a].op = "book" /\ h[a].op \in Ops[a] \union {"none"}
  BY Records DEF Superseded, Held, Alone, GateOpen, FitsAt
<1>2. PortOf[a].book.lookup.answer \in {"newest", "live"}
  <2>1. PortOf[a].book.lookup.answer \in {"any", "newest", "live"}
    BY PortOfAssumption DEF PortProfile, BookProfile, LookupProfile
  <2> QED BY <1>1, <2>1 DEF OrderedLookups
<1>3. Looked(a) = {} \/ \E i \in Looked(a) : status[i] = "cancelled"
  BY DEF GateOpen
<1>4. mine \in SUBSET (1..size) /\ size \in Nat /\ mine \subseteq Created
  BY <1>1, SizeType DEF Mine, Created
<1>5. CASE PortOf[a].book.lookup.answer = "live"
  <2>1. Looked(a) = {i \in mine : status[i] # "cancelled"}
    BY <1>5 DEF Looked
  <2> QED BY <1>3, <2>1
<1>6. CASE PortOf[a].book.lookup.answer = "newest"
  <2>1. Looked(a) = {i \in mine : \A j \in mine : j <= i}
    BY <1>6 DEF Looked
  <2>2. SUFFICES ASSUME NEW i \in mine PROVE status[i] = "cancelled"
    OBVIOUS
  <2>3. \E k \in mine : \A j \in mine : j <= k
    BY <1>4, <2>2, Newest
  <2>4. Looked(a) # {}
    BY <2>1, <2>3
  <2>5. PICK k \in Looked(a) : status[k] = "cancelled"
    BY <1>3, <2>4
  <2>6. k \in mine /\ i <= k
    BY <2>1, <2>5
  <2>7. owner[i] = owner[k] /\ i \in Created /\ k \in Created
    BY <2>6 DEF Mine
  <2>8. CASE i = k
    BY <2>5, <2>8
  <2>9. CASE i < k
    BY <2>7, <2>9 DEF Superseded
  <2> QED BY <1>4, <2>6, <2>8, <2>9
<1> QED BY <1>2, <1>5, <1>6

\* A handler keeps its user, and passes the gate only where it is open.
LEMMA PastGateStep ==
  ASSUME Faults = {}, Superseded, NEW a \in Actors, Proceed(a) \/ Disrupt(a), h'[a].op = "book"
  PROVE  /\ h[a].op = "book" /\ h'[a].user = h[a].user
         /\ PastGate(h'[a], PortOf[a]) => GateOpen(a) \/ PastGate(h[a], PortOf[a])
<1> DEFINE r == h[a]
           s == h'[a]
           p == PortOf[a]
<1>1. Makes(a, r, s) /\ Onward(r, s) /\ Sound
  BY StepMakes, OthersRest DEF Superseded, Held, Alone
<1>2. s.op = "book"
  OBVIOUS
<1>3. PassesGate(p, r, s) => GateOpen(a)
  <2> SUFFICES ASSUME PassesGate(p, r, s), ~GateOpen(a) PROVE FALSE
    OBVIOUS
  <2>1. r.pc = "gate" /\ s # Resting /\ s.pc \in {"event", "count"} /\ h' # h
    BY <1>2 DEF PassesGate, Resting
  <2>2. CASE Proceed(a)
    BY <1>1, <2>1, <2>2, Records
       DEF Proceed, GateShut, ReadEvent, Count, Create, Find, Patch, Save, Log, ReadList, Fix, LogFix,
           EndFix, Reread, Report, Finish
  <2>3. CASE Disrupt(a)
    BY <2>1, <2>3 DEF Disrupt, Fail, GateLost, EventLost, FailFix, CancelSibling, Expire, Fault
  <2> QED BY <2>2, <2>3
<1> HIDE DEF r, s
<1>4. r.op = "book" /\ s.user = r.user
  BY <1>1, <1>2 DEF Onward, Resting
<1>5. ~Ends(r, s) /\ ~Expires(p, r, s) /\ ~Misses(p, r, s)
  BY <1>2, <1>4 DEF Ends, Expires, Misses, Resting
<1>6. PastGate(s, p) => PassesGate(p, r, s) \/ PastGate(r, p)
  <2> SUFFICES ASSUME PastGate(s, p), ~PassesGate(p, r, s) PROVE PastGate(r, p)
    OBVIOUS
  <2>1. s.pc \in {"event", "count", "create"} /\ s # Resting
    BY DEF PastGate, Resting
  <2>2. CASE ReadsEvent(p, r, s, event)
    BY <1>4, <2>1, <2>2 DEF ReadsEvent, Knows, PastGate
  <2>3. CASE Counts(r, s, Confirmed)
    BY <2>3 DEF Counts, PastGate
  <2>4. /\ ~Creates(r, s, size) /\ ~Finds(p, r, s, status[r.target]) /\ ~Patches(r, s)
        /\ ~Saves(r, s, event, event') /\ ~EndsFix(p, r, s) /\ ~Rereads(r, s, status[r.target])
        /\ ~LogsFix(r, s, told, told') /\ ~FailsFix(r, s)
    BY <1>4, <2>1 DEF Creates, Finds, Patches, Saves, EndsFix, Rereads, LogsFix, FailsFix
  <2>5. ~Logs(p, r, s)
    BY <1>4, <2>1 DEF Logs
  <2>6. /\ \A list : ~ReadsList(r, s, list, Confirmed, Waitlisted)
        /\ \A i : ~Fixes(r, s, i, status, status')
    BY <2>1 DEF ReadsList, ReadsLists, Fixes
  <2> QED BY <1>1, <1>5, <2>2, <2>3, <2>4, <2>5, <2>6 DEF Makes
<1> QED BY <1>3, <1>4, <1>6 DEF r, s

LEMMA SupersededNext ==
  OneAtATime /\ Faults = {} /\ OrderedLookups /\ Superseded /\ [Next]_vars => Superseded'
<1> SUFFICES ASSUME OneAtATime, Faults = {}, OrderedLookups, Superseded, [Next]_vars
             PROVE  Superseded'
  OBVIOUS
<1>1. Held' /\ EndedKept /\ Alone /\ Sound
  BY HeldNext DEF Superseded, Held, Alone
<1>2. Resting.op = "none"
  BY DEF Resting
<1>3. \A i \in Created : i \in Ids
  BY <1>1, CreatedIds
<1>4. ASSUME UNCHANGED <<size, owner>>,
             \A a \in Actors : h'[a].op = "book" =>
               /\ h'[a].user \in Users
               /\ PastGate(h'[a], PortOf[a]) => \A i \in Mine(h'[a].user) : status[i] = "cancelled"
      PROVE  Superseded'
  <2>1. Created' = Created
    BY <1>4 DEF Created
  <2>2. \A i \in Created : status[i] = "cancelled" => status'[i] = "cancelled"
    BY <1>1, <1>3 DEF EndedKept
  <2>3. \A u : \A i \in Mine(u) : i \in Created
    BY DEF Mine
  <2>4. \A i, j \in Created' : i < j /\ owner'[i] = owner'[j] => status'[i] = "cancelled"
    BY <1>4, <2>1, <2>2 DEF Superseded
  <2>5. ASSUME NEW a \in Actors, h'[a].op = "book"
        PROVE  /\ h'[a].user \in Users
               /\ PastGate(h'[a], PortOf[a])
                    => \A i \in Mine(h[a].user)' : status'[i] = "cancelled"
    <3>1. Mine(h[a].user)' = Mine(h'[a].user)
      BY <1>4 DEF Mine, Created
    <3> QED BY <1>4, <2>2, <2>3, <2>5, <3>1
  <2> QED BY <1>1, <2>4, <2>5 DEF Superseded
<1>5. ASSUME NEW a \in Actors, Start(a) PROVE Superseded'
  <2>1. /\ UNCHANGED <<size, owner, status>>
        /\ \A b \in Actors : h[b] = Resting
        /\ \/ /\ StartsAs(a, h'[a])
              /\ \A b \in Actors : b # a => h'[b] = Resting
           \/ UNCHANGED h
    BY <1>1, <1>5, StartAtRest
  <2>2. StartsAs(a, h'[a]) /\ h'[a].op = "book" => h'[a].user \in Users /\ ~PastGate(h'[a], PortOf[a])
    <3>1. PortOf[a].book.first \in {"event", "gate"}
      BY PortOfAssumption DEF PortProfile, BookProfile
    <3> QED BY <3>1 DEF StartsAs, PastGate
  <2>3. CASE UNCHANGED h
    <3>1. \A b \in Actors : h'[b] = Resting
      BY <2>1, <2>3
    <3> QED BY <1>2, <1>4, <2>1, <3>1
  <2>4. CASE StartsAs(a, h'[a]) /\ \A b \in Actors : b # a => h'[b] = Resting
    BY <1>2, <1>4, <2>1, <2>2, <2>4
  <2> QED BY <2>1, <2>3, <2>4
<1>6. ASSUME NEW a \in Actors, Proceed(a) \/ Disrupt(a) PROVE Superseded'
  <2>1. \A b \in Actors : b # a => h'[b] = Resting
    BY <1>1, <1>6, OthersRest
  <2>2. h'[a].op = "book" =>
          /\ h'[a].user \in Users
          /\ PastGate(h'[a], PortOf[a]) => \A i \in Mine(h'[a].user) : status[i] = "cancelled"
    <3> SUFFICES ASSUME h'[a].op = "book"
                 PROVE  /\ h'[a].user \in Users
                        /\ PastGate(h'[a], PortOf[a])
                             => \A i \in Mine(h'[a].user) : status[i] = "cancelled"
      OBVIOUS
    <3>1. /\ h[a].op = "book" /\ h'[a].user = h[a].user
          /\ PastGate(h'[a], PortOf[a]) => GateOpen(a) \/ PastGate(h[a], PortOf[a])
      BY <1>6, PastGateStep
    <3>2. GateOpen(a) => \A i \in Mine(h[a].user) : status[i] = "cancelled"
      BY GateSays
    <3> QED BY <3>1, <3>2 DEF Superseded
  <2>3. CASE ~Create(a)
    <3>1. UNCHANGED <<size, owner>>
      <4>1. Makes(a, h[a], h'[a])
        BY <1>1, <1>6, StepMakes
      <4>2. CASE Creates(h[a], h'[a], size)
        <5>1. h[a].pc = "create" /\ h'[a] # Resting /\ h' # h
          BY <4>2 DEF Creates, Resting
        <5>2. h'[a].pc = "log"
          BY <4>2 DEF Creates
        <5> QED BY <1>6, <2>3, <5>1, <5>2
                DEF Proceed, Disrupt, GateOpen, GateShut, ReadEvent, Count, Find, Patch, Save, Log, ReadList,
                    Fix, LogFix, EndFix, Reread, Report, Fail, GateLost, EventLost, FailFix,
                    CancelSibling, Expire
      <4>3. CASE ~Creates(h[a], h'[a], size)
        BY <4>1, <4>3 DEF Makes, Quiet
      <4> QED BY <4>2, <4>3
    <3> QED BY <1>2, <1>4, <2>1, <2>2, <3>1
  <2>4. CASE Create(a)
    <3>1. /\ Creates(h[a], h'[a], size) /\ size' = size + 1 /\ size + 1 \in Ids
          /\ owner' = [owner EXCEPT ![size + 1] = h[a].user]
          /\ size \in Nat /\ owner \in [Ids -> Users \union {None}]
      BY <1>1, <2>4, CreateRecord, SizeType DEF Sound, TypeOK
    <3>2. h[a].op = "book" /\ h'[a].op = "book" /\ ~PastGate(h'[a], PortOf[a]) /\ PastGate(h[a], PortOf[a])
      BY <3>1 DEF Creates, PastGate
    <3>3. \A i \in Mine(h[a].user) : status[i] = "cancelled"
      BY <3>2 DEF Superseded
    <3>4. \A i \in Created : status[i] = "cancelled" => status'[i] = "cancelled"
      BY <1>1, <1>3 DEF EndedKept
    <3>5. ASSUME NEW i \in Created', NEW j \in Created', i < j, owner'[i] = owner'[j]
          PROVE  status'[i] = "cancelled"
      <4>1. i \in Created /\ owner'[i] = owner[i] /\ i \in Ids
        BY <1>3, <3>1, <3>5 DEF Created
      <4>2. CASE j = size + 1
        <5>1. owner'[j] = h[a].user
          BY <3>1, <4>2
        <5>2. i \in Mine(h[a].user)
          BY <3>5, <4>1, <5>1 DEF Mine
        <5> QED BY <3>3, <3>4, <4>1, <5>2
      <4>3. CASE j # size + 1
        <5>1. j \in Created /\ owner'[j] = owner[j]
          BY <1>3, <3>1, <4>3 DEF Created
        <5> QED BY <3>4, <3>5, <4>1, <5>1 DEF Superseded
      <4> QED BY <4>2, <4>3
    <3>6. \A b \in Actors : h'[b].op = "book" => h'[b].user \in Users /\ ~PastGate(h'[b], PortOf[b])
      BY <1>2, <2>1, <2>2, <3>2
    <3> QED BY <1>1, <3>5, <3>6 DEF Superseded
  <2> QED BY <2>3, <2>4
<1>7. CASE UNCHANGED vars
  <2>1. \A b \in Actors : h'[b] = h[b]
    BY <1>7 DEF vars
  <2>2. UNCHANGED <<size, owner, status>>
    BY <1>7 DEF vars
  <2>3. \A a \in Actors : h'[a].op = "book" =>
          /\ h'[a].user \in Users
          /\ PastGate(h'[a], PortOf[a]) => \A i \in Mine(h'[a].user) : status[i] = "cancelled"
    BY <2>1 DEF Superseded
  <2> QED BY <1>4, <2>2, <2>3
<1> QED BY <1>5, <1>6, <1>7 DEF Next

(***************************************************************************)
(* Where one operation follows another, no call fails, and the gates look  *)
(* at the newest booking of the user or at all that are in force, nobody   *)
(* holds two bookings that are not cancelled.                              *)
(***************************************************************************)
THEOREM OneBookingEach ==
  ASSUME OneAtATime, Faults = {}, OrderedLookups
  PROVE  Spec => []OneActiveBooking
<1>1. Init => Superseded
  <2>1. ASSUME Init PROVE Created = {} /\ \A a \in Actors : h[a].op = "none"
    BY <2>1 DEF Init, Created, Resting
  <2> QED BY <2>1, HeldInit DEF Superseded
<1>2. Superseded /\ [Next]_vars => Superseded'
  BY SupersededNext
<1>3. Superseded => OneActiveBooking
  <2> SUFFICES ASSUME Superseded, NEW i \in Created, NEW j \in Created, owner[i] = owner[j],
                      status[i] # "cancelled", status[j] # "cancelled"
               PROVE  i = j
    BY DEF OneActiveBooking
  <2>1. ~(i < j) /\ ~(j < i)
    BY DEF Superseded
  <2>2. i \in Nat /\ j \in Nat
    BY SizeType DEF Created, Superseded, Held, Alone
  <2> QED BY <2>1, <2>2
<1> QED BY <1>1, <1>2, <1>3, PTL DEF Spec

-----------------------------------------------------------------------------
(* Who holds the seats.                                                    *)

NoCheckIns == \A a \in Actors : "checkin" \notin Ops[a]

\* An event is saved on ports that reconcile it then.
EditsReconcile == \A a \in Actors : "edit" \in Ops[a] => PortOf[a].edit.reconciles

\* No call fails, and no cancellation begins again with the check it has already passed.
NothingAbandoned ==
  /\ "fail" \notin Faults
  /\ "expire" \in Faults => \A a \in Actors : "cancel" \in Ops[a] => PortOf[a].retry.cancel # "find"

\* What a handler with record r at port p knows of the event e.
KnowsAt(r, p, e) ==
  /\ r.op = "checkin" => e.exists
  /\ r.op = "cancel" /\ r.skip => ~e.exists
  /\ e.exists =>
       /\ r.op = "book" /\ (\/ r.pc \in {"count", "create", "log", "reads", "fix", "reread", "report"}
                            \/ r.pc = "gate" /\ p.book.first = "event")
            => r.capacity = e.capacity
       /\ r.op = "edit" /\ r.pc \in {"log", "reads", "fix"} => r.capacity = e.capacity
       /\ r.op = "cancel" /\ (\/ r.pc \in {"reads", "fix"}
                              \/ r.pc \in {"patch", "log"} /\ p.cancel.event = "before")
            => r.capacity = e.capacity

\* Where the seats are, when the busy handler has record r, C are confirmed, W wait and c
\* is the capacity.  Nobody sits out of turn except while a booking, or an edit, is between
\* its write and the end of its reconciliation; and without check-ins the seats are even
\* as they should be except while a cancellation or an edit is there.
SeatsAt(r, C, W, c) ==
  /\ (\/ r.pc = "idle" \/ r.op \in {"cancel", "checkin"}
      \/ r.op = "book" /\ r.pc \in {"event", "gate", "reread", "report"})
     => Seated(C, W, c)
  /\ NoCheckIns /\ (r.pc = "idle" \/ r.op = "book" \/ (r.op = "cancel" /\ r.pc = "find"))
       => Entitled(C, W, c)
  /\ r.pc = "create" => r.initial = IF Cardinality(C) < c THEN "confirmed" ELSE "waitlisted"
  /\ r.pc = "fix" /\ r.op = "cancel" => r.demote = {}
  /\ r.pc = "fix" /\ r.op = "book" /\ NoCheckIns => r.promote = {} /\ r.demote = {}

\* A reconciliation that holds a list, or corrections.
Reconciling(r) == r.pc = "fix" \/ (r.pc = "reads" /\ r.unread # Lists)

\* The inductive strengthening of SeatsAtRest.
Placed ==
  /\ Held /\ Settled
  /\ \A a \in Actors : Reconciling(h[a]) => a \in clean
  /\ \A a \in Actors : KnowsAt(h[a], PortOf[a], event)
  /\ event.exists =>
       /\ AtRest => SeatsAt(Resting, Confirmed, Waitlisted, event.capacity)
       /\ \A a \in Actors : h[a].pc # "idle"
                              => SeatsAt(h[a], Confirmed, Waitlisted, event.capacity)

LEMMA PlacedFacts ==
  ASSUME Placed, NEW a \in Actors
  PROVE  /\ Sound /\ Alone /\ h[a] \in Handler /\ FitsAt(h[a], size) /\ PortOf[a] \in PortProfile
         /\ KnowsAt(h[a], PortOf[a], event)
         /\ h[a].op \in Ops[a] \union {"none"}
         /\ size \in Nat /\ Confirmed \in SUBSET (1..size) /\ Waitlisted \in SUBSET (1..size)
         /\ Confirmed \cap Waitlisted = {}
         /\ event.capacity \in Nat
<1>1. Sound /\ Alone /\ h[a] \in Handler /\ FitsAt(h[a], size) /\ PortOf[a] \in PortProfile
  BY HeldFacts DEF Placed, Held, Alone
<1>2. size \in Nat /\ Confirmed \in SUBSET (1..size) /\ Waitlisted \in SUBSET (1..size)
      /\ Confirmed \cap Waitlisted = {}
  BY <1>1, SizeType DEF Confirmed, Waitlisted, WithStatus, Created
<1>3. event.capacity \in Nat
  BY <1>1, CapacitiesAssumption DEF Sound, TypeOK
<1> QED BY <1>1, <1>2, <1>3 DEF Placed, Alone

LEMMA KnowsStep ==
  ASSUME Placed, NEW a \in Actors, Proceed(a) \/ Disrupt(a), "fail" \notin Faults
  PROVE  KnowsAt(h'[a], PortOf[a], event')
<1> DEFINE r == h[a]
           s == h'[a]
           p == PortOf[a]
           Goal == KnowsAt(s, p, event')
<1>1. Makes(a, r, s) /\ KnowsAt(r, p, event)
  BY PlacedFacts, StepMakes
<1>2. KnowsAt(Resting, p, event')
  BY DEF KnowsAt, Resting
<1> HIDE DEF r, s
<1> SUFFICES Goal
  BY DEF s
<1>3. Quiet => event' = event
  BY DEF Quiet
<1>4. CASE Quiet /\ Ends(r, s)
  BY <1>2, <1>4 DEF Ends
<1>5. CASE Quiet /\ PassesGate(p, r, s)
  BY <1>1, <1>3, <1>5 DEF PassesGate, SameTask, KnowsAt
<1>6. CASE Quiet /\ ReadsEvent(p, r, s, event)
  <2> HIDE DEF Goal
  <2>1. CASE s = Resting
    BY <1>2, <2>1 DEF Goal
  <2>2. CASE r.op = "book" /\ event.exists
    BY <1>1, <1>2, <1>3, <1>6, <2>2 DEF ReadsEvent, Knows, KnowsAt, Goal
  <2>3. CASE r.op = "cancel" /\ event.exists
    BY <1>1, <1>2, <1>3, <1>6, <2>3 DEF ReadsEvent, Knows, KnowsAt, Goal
  <2>4. CASE r.op = "cancel" /\ ~event.exists /\ s.op = "cancel"
    BY <1>3, <1>6, <2>4 DEF KnowsAt, Goal
  <2> QED BY <1>6, <2>1, <2>2, <2>3, <2>4 DEF ReadsEvent, Knows
<1>7. CASE Quiet /\ Counts(r, s, Confirmed)
  BY <1>1, <1>3, <1>7 DEF Counts, KnowsAt
<1>8. CASE Creates(r, s, size) /\ UNCHANGED <<told, event>>
  BY <1>1, <1>8 DEF Creates, KnowsAt
<1>9. CASE Quiet /\ Finds(p, r, s, status[r.target])
  BY <1>1, <1>2, <1>3, <1>9 DEF Finds, SameTask, KnowsAt
<1>10. CASE Patches(r, s) /\ UNCHANGED <<size, owner, told, event>>
  BY <1>1, <1>10 DEF Patches, SameTask, KnowsAt
<1>11. CASE Saves(r, s, event, event')
  BY <1>1, <1>2, <1>11 DEF Saves, SameTask, KnowsAt
<1>12. CASE Logs(p, r, s) /\ UNCHANGED <<size, owner, status, event>>
  BY <1>1, <1>2, <1>12 DEF Logs, SameTask, KnowsAt
<1>13. CASE Quiet /\ \E list \in Lists : ReadsList(r, s, list, Confirmed, Waitlisted)
  <2>1. r.pc = "reads" /\ s.pc \in {"reads", "fix"} /\ SameTask(r, s)
    BY <1>13 DEF ReadsList, ReadsLists
  <2> QED BY <1>1, <1>3, <1>13, <2>1 DEF SameTask, KnowsAt
<1>14. CASE \/ (\E i \in Ids : Fixes(r, s, i, status, status')) /\ UNCHANGED <<size, owner, told, event>>
            \/ LogsFix(r, s, told, told') /\ UNCHANGED <<size, owner, status, event>>
            \/ Quiet /\ FailsFix(r, s)
  <2>1. r.pc = "fix" /\ s.pc = "fix" /\ SameTask(r, s) /\ event' = event
    BY <1>3, <1>14 DEF Fixes, LogsFix, FailsFix
  <2> QED BY <1>1, <2>1 DEF SameTask, KnowsAt
<1>15. CASE Quiet /\ EndsFix(p, r, s)
  BY <1>1, <1>2, <1>3, <1>15 DEF EndsFix, SameTask, KnowsAt
<1>16. CASE Quiet /\ Rereads(r, s, status[r.target])
  BY <1>1, <1>3, <1>16 DEF Rereads, SameTask, KnowsAt
<1>17. CASE Quiet /\ Expires(p, r, s)
  BY <1>1, <1>3, <1>17 DEF Expires, KnowsAt
<1> QED BY <1>1, <1>4, <1>5, <1>6, <1>7, <1>8, <1>9, <1>10, <1>11, <1>12, <1>13, <1>14, <1>15, <1>16, <1>17
        DEF Makes

LEMMA CleanStep ==
  ASSUME Placed, NEW a \in Actors, Proceed(a) \/ Disrupt(a), "fail" \notin Faults, Reconciling(h'[a])
  PROVE  a \in clean'
<1> DEFINE r == h[a]
           s == h'[a]
<1>1. Sound /\ (Reconciling(r) => a \in clean)
  BY DEF Placed, Held, Alone
<1>2. Reconciling(s)
  OBVIOUS
<1>3. s # Resting /\ s.pc \in {"reads", "fix"}
  BY <1>2 DEF Reconciling, Resting
<1>4. ASSUME NEW list \in Lists, ReadList(a, list) PROVE a \in clean'
  <2>1. ReadsList(r, s, list, Confirmed, Waitlisted)
    BY <1>1, <1>4, ReadListRecord
  <2>2. clean' = IF r.unread = Lists THEN clean \union {a} ELSE clean
    BY <1>4 DEF ReadList
  <2>3. r.pc = "reads"
    BY <2>1 DEF ReadsList
  <2> QED BY <1>1, <2>2, <2>3 DEF Reconciling
<1>5. ASSUME NEW i \in Ids, Fix(a, i) PROVE a \in clean'
  <2>1. r.pc = "fix" /\ clean' = clean \intersect {a}
    BY <1>5 DEF Fix, Disturb
  <2> QED BY <1>1, <2>1 DEF Reconciling
<1>6. CASE LogFix(a)
  <2>1. r.pc = "fix" /\ clean' = clean
    BY <1>6 DEF LogFix
  <2> QED BY <1>1, <2>1 DEF Reconciling
<1>7. CASE CancelSibling(a)
  <2>1. r.pc = "fix" /\ clean' = clean
    BY <1>7 DEF CancelSibling
  <2> QED BY <1>1, <2>1 DEF Reconciling
<1>8. ~GateShut(a) /\ ~Report(a) /\ ~Fail(a) /\ ~GateLost(a) /\ ~EventLost(a) /\ ~FailFix(a)
  <2>1. ~Fail(a) /\ ~GateLost(a) /\ ~EventLost(a) /\ ~FailFix(a)
    BY DEF Fail, GateLost, EventLost, FailFix, Fault
  <2> QED BY <1>1, <1>3, <2>1, Records DEF GateShut, Report, Finish
<1>9. ~GateOpen(a) /\ ~Count(a) /\ ~Create(a) /\ ~Find(a) /\ ~Patch(a) /\ ~Save(a) /\ ~EndFix(a)
      /\ ~Reread(a) /\ ~Expire(a)
  <2>1. GateOpen(a) => s.pc \in {"event", "count"}
    BY <1>1, GateRecord DEF PassesGate
  <2>2. Count(a) => s.pc = "create"
    BY <1>1, CountRecord DEF Counts
  <2>3. Create(a) => s.pc = "log"
    BY <1>1, CreateRecord DEF Creates
  <2>4. Find(a) => s.pc \in {"idle", "event", "patch"}
    BY <1>1, FindRecord DEF Finds, Resting
  <2>5. Patch(a) => s.pc = "log"
    BY <1>1, PatchRecord DEF Patches
  <2>6. Save(a) => s.pc \in {"idle", "log"}
    BY <1>1, SaveRecord DEF Saves, Resting
  <2>7. EndFix(a) => s.pc \in {"idle", "reread", "report"}
    BY <1>1, EndFixRecord DEF EndsFix, Resting
  <2>8. Reread(a) => s.pc = "report"
    BY <1>1, RereadRecord DEF Rereads
  <2>9. Expire(a) => s.pc \in {"count", "find", "patch", "save"}
    BY <1>1, ExpireRecord DEF Expires
  <2> QED BY <1>3, <2>1, <2>2, <2>3, <2>4, <2>5, <2>6, <2>7, <2>8, <2>9
<1>10. ~ReadEvent(a)
  <2>1. ReadEvent(a) => ReadsEvent(PortOf[a], r, s, event)
    BY <1>1, ReadEventRecord
  <2> HIDE DEF r, s
  <2>2. ReadsEvent(PortOf[a], r, s, event) => s.pc # "fix" /\ (s.pc = "reads" => s.unread = Lists)
    BY DEF ReadsEvent, Knows, Resting
  <2> QED BY <1>2, <2>1, <2>2 DEF Reconciling
<1>11. ~Log(a)
  <2>1. Log(a) => Logs(PortOf[a], r, s)
    BY <1>1, LogRecord
  <2> HIDE DEF r, s
  <2>2. Logs(PortOf[a], r, s) => s.pc # "fix" /\ (s.pc = "reads" => s.unread = Lists)
    BY DEF Logs, Resting
  <2> QED BY <1>2, <2>1, <2>2 DEF Reconciling
<1> QED BY <1>4, <1>5, <1>6, <1>7, <1>8, <1>9, <1>10, <1>11 DEF Proceed, Disrupt

\* What is given when a handler takes a step while the event exists.
SeatsGiven(a) ==
  /\ EditsReconcile /\ NothingAbandoned
  /\ Placed /\ Settled' /\ Sound'
  /\ event.exists /\ event'.exists
  /\ SeatsAt(h[a], Confirmed, Waitlisted, event.capacity)
  /\ Reconciling(h'[a]) => a \in clean'

SeatsKept(s) == SeatsAt(s, Confirmed', Waitlisted', event'.capacity)

LEMMA QuietLists ==
  ASSUME UNCHANGED <<size, status>>
  PROVE  Confirmed' = Confirmed /\ Waitlisted' = Waitlisted
BY DEF Confirmed, Waitlisted, WithStatus, Created

\* The steps before the write.
LEMMA ApproachSeats ==
  ASSUME NEW a \in Actors, SeatsGiven(a), NEW r, NEW s, r = h[a], s = h'[a], Quiet,
         \/ Ends(r, s) \/ PassesGate(PortOf[a], r, s) \/ ReadsEvent(PortOf[a], r, s, event)
         \/ Counts(r, s, Confirmed) \/ Finds(PortOf[a], r, s, status[r.target])
         \/ Rereads(r, s, status[r.target]) \/ Expires(PortOf[a], r, s)
  PROVE  SeatsKept(s)
<1> DEFINE C == Confirmed
           W == Waitlisted
           c == event.capacity
<1>1. C' = C /\ W' = W /\ c' = c
  BY QuietLists DEF Quiet
<1>2. SeatsAt(r, C, W, c) /\ event.exists /\ KnowsAt(r, PortOf[a], event) /\ "fail" \notin Faults
  BY PlacedFacts DEF SeatsGiven, NothingAbandoned
<1>3. r.op \in Ops[a] \union {"none"} /\ FitsAt(r, size)
  BY PlacedFacts DEF SeatsGiven
<1>4. r.op = "checkin" => ~NoCheckIns
  BY <1>3 DEF NoCheckIns
<1> HIDE DEF C, W, c
<1> SUFFICES SeatsAt(s, C, W, c)
  BY <1>1 DEF SeatsKept, C, W, c
<1>5. Resting.pc = "idle" /\ Resting.op = "none"
  BY DEF Resting
<1>6. CASE Ends(r, s)
  <2>1. s = Resting /\ r.pc \in {"gate", "report"}
    BY <1>2, <1>6 DEF Ends
  <2>2. r.op \in {"book", "checkin"}
    BY <1>3, <2>1 DEF FitsAt
  <2>3. Seated(C, W, c) /\ (NoCheckIns => Entitled(C, W, c))
    BY <1>2, <1>4, <2>1, <2>2 DEF SeatsAt
  <2> QED BY <1>5, <2>1, <2>3 DEF SeatsAt
<1>7. CASE PassesGate(PortOf[a], r, s)
  BY <1>2, <1>7 DEF PassesGate, SameTask, SeatsAt
<1>8. CASE ReadsEvent(PortOf[a], r, s, event)
  <2>1. /\ r.pc = "event" /\ r.op \in {"book", "cancel"} /\ s.op = r.op
        /\ r.op = "book" => s.pc \in {"count", "gate"}
        /\ r.op = "cancel" => s.pc \in {"patch", "reads"}
    BY <1>2, <1>8 DEF ReadsEvent, Knows
  <2> QED BY <1>2, <2>1 DEF SeatsAt
<1>9. CASE Counts(r, s, Confirmed)
  <2>1. /\ r.op = "book" /\ r.pc = "count" /\ s.op = "book" /\ s.pc = "create"
        /\ s.initial = IF Cardinality(C) < r.capacity THEN "confirmed" ELSE "waitlisted"
    BY <1>9 DEF Counts, C
  <2>2. r.capacity = c
    BY <1>2, <2>1 DEF KnowsAt, c
  <2>3. NoCheckIns => Entitled(C, W, c)
    BY <1>2, <2>1 DEF SeatsAt
  <2> QED BY <2>1, <2>2, <2>3 DEF SeatsAt
<1>10. CASE Finds(PortOf[a], r, s, status[r.target])
  <2>1. r.pc = "find" /\ r.op \in {"cancel", "checkin"}
        /\ (s = Resting \/ (s.op = r.op /\ s.pc \in {"event", "patch"}))
    BY <1>10 DEF Finds, SameTask
  <2>2. Seated(C, W, c) /\ (NoCheckIns => Entitled(C, W, c))
    BY <1>2, <1>4, <2>1 DEF SeatsAt
  <2> QED BY <1>5, <2>1, <2>2 DEF SeatsAt
<1>11. CASE Rereads(r, s, status[r.target])
  BY <1>2, <1>11 DEF Rereads, SameTask, SeatsAt
<1>12. CASE Expires(PortOf[a], r, s)
  <2>1. /\ s.op = r.op /\ r.op \in {"book", "cancel", "checkin", "edit"}
        /\ s.pc \in {"count", "find", "patch", "save"}
        /\ s.pc = "count" <=> r.op = "book"
        /\ s.pc = PortOf[a].retry[r.op] /\ "expire" \in Faults
    BY <1>12 DEF Expires
  <2>2. r.op = "cancel" => s.pc # "find"
    <3> SUFFICES ASSUME r.op = "cancel" PROVE s.pc # "find"
      OBVIOUS
    <3>1. s.pc = PortOf[a].retry.cancel
      BY <2>1, PlacedFacts DEF SeatsGiven, PortProfile, RetryProfile
    <3>2. PortOf[a].retry.cancel # "find"
      BY <1>3, <2>1 DEF SeatsGiven, NothingAbandoned
    <3> QED BY <3>1, <3>2
  <2>3. r.op \in {"cancel", "checkin"} => Seated(C, W, c)
    BY <1>2 DEF SeatsAt
  <2>4. r.op = "book" /\ NoCheckIns => Entitled(C, W, c)
    BY <1>2 DEF SeatsAt
  <2> QED BY <2>1, <2>2, <2>3, <2>4 DEF SeatsAt
<1> QED BY <1>6, <1>7, <1>8, <1>9, <1>10, <1>11, <1>12

\* The write itself, and its entry.
LEMMA WriteSeats ==
  ASSUME NEW a \in Actors, SeatsGiven(a), NEW r, NEW s, r = h[a], s = h'[a],
         \/ /\ Creates(r, s, size) /\ size' = size + 1 /\ size + 1 \in Ids
            /\ status' = [status EXCEPT ![size + 1] = r.initial]
            /\ UNCHANGED <<told, event>>
         \/ /\ Patches(r, s) /\ r.target \in Ids /\ r.target \in Created
            /\ status' = [status EXCEPT ![r.target] = IF r.op = "cancel" THEN "cancelled" ELSE "checked_in"]
            /\ UNCHANGED <<size, owner, told, event>>
         \/ Saves(r, s, event, event')
         \/ Logs(PortOf[a], r, s) /\ UNCHANGED <<size, owner, status, event>>
  PROVE  SeatsKept(s)
<1> DEFINE C == Confirmed
           W == Waitlisted
           c == event.capacity
<1>1. SeatsAt(r, C, W, c) /\ event.exists /\ event'.exists /\ KnowsAt(r, PortOf[a], event)
  BY PlacedFacts DEF SeatsGiven
<1>2. /\ r.op \in Ops[a] \union {"none"} /\ FitsAt(r, size) /\ size \in Nat
      /\ C \in SUBSET (1..size) /\ W \in SUBSET (1..size) /\ C \cap W = {} /\ c \in Nat
  BY PlacedFacts DEF SeatsGiven
<1>3. status \in [Ids -> Status \union {None}] /\ \A i \in Created : i \in Ids
  BY PlacedFacts, CreatedIds DEF SeatsGiven, Sound, TypeOK
<1>4. CASE /\ Creates(r, s, size) /\ size' = size + 1 /\ size + 1 \in Ids
           /\ status' = [status EXCEPT ![size + 1] = r.initial]
           /\ UNCHANGED <<told, event>>
  <2>1. r.pc = "create" /\ r.op = "book" /\ s.pc = "log" /\ s.op = "book" /\ c' = c
    BY <1>4 DEF Creates
  <2>2. r.initial = IF Cardinality(C) < c THEN "confirmed" ELSE "waitlisted"
    BY <1>1, <2>1 DEF SeatsAt
  <2>3. Created' = Created \union {size + 1} /\ size + 1 \notin Created
    BY <1>2, <1>4 DEF Created
  <2>4. /\ \A i \in Created : status'[i] = status[i]
        /\ status'[size + 1] = r.initial
    BY <1>3, <1>4, <2>3
  <2>5. /\ Confirmed' = IF Cardinality(C) < c THEN C \union {size + 1} ELSE C
        /\ Waitlisted' = IF Cardinality(C) < c THEN W ELSE W \union {size + 1}
    <3>1. CASE Cardinality(C) < c
      BY <2>2, <2>3, <2>4, <3>1 DEF Confirmed, Waitlisted, WithStatus
    <3>2. CASE ~(Cardinality(C) < c)
      BY <2>2, <2>3, <2>4, <3>2 DEF Confirmed, Waitlisted, WithStatus
    <3> QED BY <3>1, <3>2
  <2>6. NoCheckIns => Entitled(C, W, c)
    BY <1>1, <2>1 DEF SeatsAt
  <2> HIDE DEF C, W, c
  <2>7. Entitled(C, W, c) => IF Cardinality(C) < c
                               THEN Entitled(C \union {size + 1}, W, c)
                               ELSE Entitled(C, W \union {size + 1}, c)
    BY ONLY <1>2, NewcomerEntitled
  <2>8. NoCheckIns => Entitled(Confirmed', Waitlisted', c)
    BY <2>5, <2>6, <2>7
  <2>9. SeatsAt(s, Confirmed', Waitlisted', c)
    BY <2>1, <2>8 DEF SeatsAt
  <2> QED BY <2>1, <2>9 DEF SeatsKept, c
<1>5. CASE /\ Patches(r, s) /\ r.target \in Ids /\ r.target \in Created
           /\ status' = [status EXCEPT ![r.target] = IF r.op = "cancel" THEN "cancelled" ELSE "checked_in"]
           /\ UNCHANGED <<size, owner, told, event>>
  <2>1. r.op \in {"cancel", "checkin"} /\ s.pc = "log" /\ s.op = r.op /\ c' = c /\ Created' = Created
    BY <1>5 DEF Patches, SameTask, Created
  <2>2. /\ \A i \in Created : i # r.target => status'[i] = status[i]
        /\ status'[r.target] \in {"cancelled", "checked_in"}
    BY <1>3, <1>5
  <2>3. Confirmed' \subseteq C /\ Waitlisted' \subseteq W
    BY <2>1, <2>2 DEF Confirmed, Waitlisted, WithStatus
  <2>4. Seated(C, W, c)
    BY <1>1, <2>1 DEF SeatsAt
  <2> HIDE DEF C, W, c
  <2>5. Seated(Confirmed', Waitlisted', c)
    <3>1. Confirmed' \in SUBSET C /\ Confirmed' \union Waitlisted' \subseteq C \union W
      BY <2>3
    <3> QED BY ONLY <1>2, <2>4, <3>1, SeatedShrinks
  <2>6. SeatsAt(s, Confirmed', Waitlisted', c)
    BY <2>1, <2>5 DEF SeatsAt
  <2> QED BY <2>1, <2>6 DEF SeatsKept, c
<1>6. CASE Saves(r, s, event, event')
  <2>1. s.pc = "log" /\ s.op = "edit"
    BY <1>1, <1>6 DEF Saves, SameTask
  <2> QED BY <2>1 DEF SeatsKept, SeatsAt
<1>7. CASE Logs(PortOf[a], r, s) /\ UNCHANGED <<size, owner, status, event>>
  <2>1. Confirmed' = C /\ Waitlisted' = W /\ c' = c
    BY <1>7, QuietLists
  <2>2. r.op = "edit" => PortOf[a].edit.reconciles
    BY <1>2 DEF SeatsGiven, EditsReconcile
  <2>3. r.op = "cancel" => ~r.skip
    BY <1>1 DEF KnowsAt
  <2>4. /\ s.op = r.op /\ r.op \in {"book", "cancel", "checkin", "edit"}
        /\ r.op = "book" => s.pc = "reads"
        /\ s.pc \in {"reads", "event", "report"} /\ (s.pc = "report" => r.op = "checkin")
    BY <1>7, <2>2, <2>3 DEF Logs, SameTask
  <2> HIDE DEF C, W, c
  <2>5. SeatsAt(s, C, W, c)
    BY <1>1, <2>4 DEF SeatsAt
  <2> QED BY <2>1, <2>5 DEF SeatsKept, c
<1> QED BY <1>4, <1>5, <1>6, <1>7

\* The reconciliation.
LEMMA ReconcileSeats ==
  ASSUME NEW a \in Actors, SeatsGiven(a), NEW r, NEW s, r = h[a], s = h'[a],
         \/ Quiet /\ \E list \in Lists : ReadsList(r, s, list, Confirmed, Waitlisted)
         \/ (\E i \in Ids : Fixes(r, s, i, status, status')) /\ UNCHANGED <<size, owner, told, event>>
         \/ LogsFix(r, s, told, told') /\ UNCHANGED <<size, owner, status, event>>
         \/ Quiet /\ EndsFix(PortOf[a], r, s)
  PROVE  SeatsKept(s)
<1> DEFINE C == Confirmed
           W == Waitlisted
           c == event.capacity
<1>1. SeatsAt(r, C, W, c) /\ event.exists /\ event'.exists /\ KnowsAt(r, PortOf[a], event)
  BY PlacedFacts DEF SeatsGiven
<1>2. /\ FitsAt(r, size) /\ size \in Nat
      /\ C \in SUBSET (1..size) /\ W \in SUBSET (1..size) /\ C \cap W = {} /\ c \in Nat
  BY PlacedFacts DEF SeatsGiven
<1>3. r.pc = "fix" => SettlingAt(r, C, W)
  BY DEF SeatsGiven, Placed, Settled, Reconciling
<1>4. s.pc = "fix" => SettlingAt(s, Confirmed', Waitlisted')
  BY DEF SeatsGiven, Settled, Reconciling
<1> HIDE DEF C, W, c
<1>5. CASE Quiet /\ \E list \in Lists : ReadsList(r, s, list, Confirmed, Waitlisted)
  <2>1. Confirmed' = C /\ Waitlisted' = W /\ event'.capacity = c
    BY <1>5, QuietLists DEF Quiet, C, W, c
  <2>2. r.pc = "reads" /\ r.op \in {"book", "cancel", "edit"} /\ s.op = r.op
        /\ s.capacity = r.capacity /\ s.pc \in {"reads", "fix"}
    BY <1>5 DEF ReadsList, ReadsLists, SameTask
  <2>3. /\ r.op = "cancel" => Seated(C, W, c)
        /\ NoCheckIns /\ r.op = "book" => Entitled(C, W, c)
    BY <1>1, <2>2 DEF SeatsAt
  <2>4. s.capacity = c
    BY <1>1, <2>2 DEF KnowsAt, c
  <2>5. s.pc = "fix" => /\ s.promote \in SUBSET W /\ s.demote \in SUBSET C
                        /\ Entitled((C \union s.promote) \ s.demote, (W \union s.demote) \ s.promote, c)
    BY <1>4, <2>1, <2>4 DEF SettlingAt
  <2>6. s.pc = "fix" /\ r.op = "cancel" => s.demote = {}
    <3> SUFFICES ASSUME s.pc = "fix", r.op = "cancel" PROVE s.demote = {}
      OBVIOUS
    <3> QED BY <1>2, <2>3, <2>5, NobodyToPutBack
  <2>7. s.pc = "fix" /\ r.op = "book" /\ NoCheckIns => s.promote = {} /\ s.demote = {}
    <3> SUFFICES ASSUME s.pc = "fix", r.op = "book", NoCheckIns PROVE s.promote = {} /\ s.demote = {}
      OBVIOUS
    <3> QED BY <1>2, <2>3, <2>5, NothingToCorrect
  <2>8. SeatsAt(s, C, W, c)
    BY <2>2, <2>3, <2>6, <2>7 DEF SeatsAt
  <2> QED BY <2>1, <2>8 DEF SeatsKept
<1>6. ASSUME NEW i \in Ids, Fixes(r, s, i, status, status'), UNCHANGED <<size, owner, told, event>>
      PROVE  SeatsKept(s)
  <2>1. /\ r.pc = "fix" /\ s.pc = "fix" /\ s.op = r.op /\ r.op \in {"book", "cancel", "edit"}
        /\ i \in r.promote \union r.demote
        /\ r.demote = {} => /\ i \in r.promote /\ s.demote = {}
                            /\ status' = [status EXCEPT ![i] = "confirmed"]
    BY <1>6 DEF Fixes, SameTask
  <2>2. event'.capacity = c /\ Created' = Created
    BY <1>6 DEF c, Created
  <2>3. CASE r.op = "edit"
    BY <2>1, <2>3 DEF SeatsKept, SeatsAt
  <2>4. CASE r.op = "book"
    <3>1. ~NoCheckIns
      BY <1>1, <2>1, <2>4 DEF SeatsAt
    <3> QED BY <2>1, <2>4, <3>1 DEF SeatsKept, SeatsAt
  <2>5. CASE r.op = "cancel"
    <3>1. r.demote = {} /\ Seated(C, W, c)
      BY <1>1, <2>1, <2>5 DEF SeatsAt
    <3>2. r.capacity = c
      BY <1>1, <2>1, <2>5 DEF KnowsAt, c
    <3>3. /\ r.promote \in SUBSET W /\ r.demote \in SUBSET C
          /\ Entitled((C \union r.promote) \ r.demote, (W \union r.demote) \ r.promote, c)
      BY <1>3, <2>1, <3>2 DEF SettlingAt
    <3>4. \A j \in r.promote : Seated(C \union {j}, W \ {j}, c)
      BY <1>2, <3>1, <3>3, NobodyToPutBack
    <3>5. Confirmed' = C \union {i} /\ Waitlisted' = W \ {i}
      <4>1. i \in Created
        BY <2>1, <3>1, <3>3 DEF W, Waitlisted, WithStatus
      <4>2. \A j \in Created : j \in Ids /\ status \in [Ids -> Status \union {None}]
        BY PlacedFacts, CreatedIds DEF SeatsGiven, Sound, TypeOK
      <4>3. /\ \A j \in Created : j # i => status'[j] = status[j]
            /\ status'[i] = "confirmed"
        BY <2>1, <3>1, <4>1, <4>2
      <4> QED BY <2>2, <4>1, <4>3 DEF Confirmed, Waitlisted, WithStatus, C, W
    <3>6. Seated(Confirmed', Waitlisted', c)
      BY <2>1, <3>1, <3>4, <3>5
    <3> QED BY <2>1, <2>2, <2>5, <3>1, <3>6 DEF SeatsKept, SeatsAt
  <2> QED BY <2>1, <2>3, <2>4, <2>5
<1>7. CASE LogsFix(r, s, told, told') /\ UNCHANGED <<size, owner, status, event>>
  <2>1. Confirmed' = C /\ Waitlisted' = W /\ event'.capacity = c
    BY <1>7, QuietLists DEF C, W, c
  <2>2. /\ r.pc = "fix" /\ s.pc = "fix" /\ s.op = r.op
        /\ s.promote = r.promote /\ s.demote = r.demote
    BY <1>7 DEF LogsFix, SameTask
  <2>3. SeatsAt(s, C, W, c)
    BY <1>1, <2>2 DEF SeatsAt
  <2> QED BY <2>1, <2>3 DEF SeatsKept
<1>8. CASE Quiet /\ EndsFix(PortOf[a], r, s)
  <2>1. Confirmed' = C /\ Waitlisted' = W /\ event'.capacity = c
    BY <1>8, QuietLists DEF Quiet, C, W, c
  <2>2. /\ r.pc = "fix" /\ r.op \in {"book", "cancel", "edit"} /\ r.promote = {} /\ r.demote = {}
        /\ s = Resting \/ (s.op = "book" /\ s.pc \in {"reread", "report"})
    BY <1>8 DEF EndsFix, SameTask
  <2>3. r.capacity = c
    BY <1>1, <2>2 DEF KnowsAt, c
  <2>4. Entitled((C \union {}) \ {}, (W \union {}) \ {}, c)
    BY <1>3, <2>2, <2>3 DEF SettlingAt
  <2>5. (C \union {}) \ {} = C /\ (W \union {}) \ {} = W
    OBVIOUS
  <2>6. Entitled(C, W, c) /\ Seated(C, W, c)
    BY <2>4, <2>5, EntitledSeated
  <2>7. SeatsAt(s, C, W, c)
    BY <2>2, <2>6 DEF SeatsAt, Resting
  <2> QED BY <2>1, <2>7 DEF SeatsKept
<1> QED BY <1>5, <1>6, <1>7, <1>8

LEMMA SeatsStep ==
  ASSUME NEW a \in Actors, SeatsGiven(a), Proceed(a) \/ Disrupt(a)
  PROVE  SeatsKept(h'[a])
<1>1. \E r, s : r = h[a] /\ s = h'[a]
  OBVIOUS
<1>2. PICK r, s : r = h[a] /\ s = h'[a]
  BY <1>1
<1>3. Makes(a, r, s)
  BY <1>2, PlacedFacts, StepMakes DEF SeatsGiven
<1>4. ~(FailsFix(r, s) /\ ("fail" \in Faults \/ r.failed)) /\ "fail" \notin Faults
  <2>1. FailsFix(r, s) => Reconciling(r)
    BY DEF FailsFix, Reconciling
  <2>2. Reconciling(r) => ~r.failed
    BY <1>2 DEF SeatsGiven, Placed, Settled, SettlingAt
  <2> QED BY <2>1, <2>2 DEF SeatsGiven, NothingAbandoned
<1>5. SeatsKept(s)
  BY <1>2, <1>3, <1>4, ApproachSeats, WriteSeats, ReconcileSeats DEF Makes
<1> QED BY <1>2, <1>5

LEMMA EventKept ==
  ASSUME Sound, NEW a \in Actors, Proceed(a) \/ Disrupt(a)
  PROVE  event'.exists <=> event.exists
<1>1. Makes(a, h[a], h'[a])
  BY StepMakes
<1>2. Saves(h[a], h'[a], event, event') => (event'.exists <=> event.exists)
  BY DEF Saves
<1> QED BY <1>1, <1>2 DEF Makes, Quiet

LEMMA StartKnows ==
  ASSUME NEW a \in Actors, NEW r, StartsAs(a, r)
  PROVE  /\ r.pc \in {"event", "gate", "find", "patch", "save"} /\ ~Reconciling(r)
         /\ KnowsAt(r, PortOf[a], event)
         /\ \A C, W, c : SeatsAt(Resting, C, W, c) => SeatsAt(r, C, W, c)
<1>1. PortOf[a].book.first \in {"event", "gate"} /\ PortOf[a].cancel.event \in {"before", "after"}
  BY PortOfAssumption DEF PortProfile, BookProfile, CancelProfile
<1>2. BeforeWrite(a) = IF PortOf[a].cancel.event = "before" THEN "event" ELSE "patch"
  BY DEF BeforeWrite
<1>3. r.pc \in {"event", "gate", "find", "patch", "save"}
  BY <1>1, <1>2 DEF StartsAs
<1>4. KnowsAt(r, PortOf[a], event)
  BY <1>1, <1>2 DEF StartsAs, KnowsAt
<1>5. ASSUME NEW C, NEW W, NEW c, SeatsAt(Resting, C, W, c) PROVE SeatsAt(r, C, W, c)
  <2>1. Seated(C, W, c) /\ (NoCheckIns => Entitled(C, W, c))
    BY <1>5 DEF SeatsAt, Resting
  <2> QED BY <1>3, <2>1 DEF SeatsAt
<1> QED BY <1>3, <1>4, <1>5 DEF Reconciling

LEMMA RestingKnows ==
  /\ ~Reconciling(Resting) /\ Resting.pc = "idle"
  /\ \A p, e : KnowsAt(Resting, p, e)
BY DEF Reconciling, KnowsAt, Resting

LEMMA PlacedInit == Init => Placed
<1> SUFFICES ASSUME Init PROVE Placed
  OBVIOUS
<1>1. \A a \in Actors : h[a] = Resting
  BY DEF Init
<1>2. Confirmed = {} /\ Waitlisted = {}
  BY DEF Init, Confirmed, Waitlisted, WithStatus, Created
<1>3. \A c : Entitled({}, {}, c) /\ Seated({}, {}, c)
  BY DEF Entitled, Seated
<1>4. SeatsAt(Resting, Confirmed, Waitlisted, event.capacity)
  BY <1>2, <1>3 DEF SeatsAt, Resting
<1> QED BY <1>1, <1>4, HeldInit, SettledInit, RestingKnows DEF Placed

LEMMA PlacedStart ==
  ASSUME OneAtATime, Placed, Held', Settled', NEW a \in Actors, Start(a)
  PROVE  Placed'
<1>1. /\ \A b \in Actors : h[b] = Resting
      /\ AtRest
      /\ UNCHANGED <<size, owner, status, told>>
      /\ \/ /\ StartsAs(a, h'[a]) /\ UNCHANGED event
            /\ \A b \in Actors : b # a => h'[b] = Resting
         \/ UNCHANGED h /\ ~event'.exists
  BY StartAtRest DEF Placed, Held
<1>2. Confirmed' = Confirmed /\ Waitlisted' = Waitlisted
  BY <1>1, QuietLists
<1>3. CASE /\ StartsAs(a, h'[a]) /\ UNCHANGED event
           /\ \A b \in Actors : b # a => h'[b] = Resting
  <2>1. h'[a].pc # "idle" /\ ~Reconciling(h'[a]) /\ KnowsAt(h'[a], PortOf[a], event)
    BY <1>3, StartKnows
  <2>2. ~AtRest'
    BY <2>1 DEF AtRest
  <2>3. event.exists => SeatsAt(h'[a], Confirmed, Waitlisted, event.capacity)
    BY <1>1, <1>3, StartKnows DEF Placed
  <2>4. \A b \in Actors : /\ ~Reconciling(h'[b]) /\ KnowsAt(h'[b], PortOf[b], event')
                          /\ h'[b].pc # "idle" => b = a
    BY <1>3, <2>1, RestingKnows
  <2> QED BY <1>2, <1>3, <2>2, <2>3, <2>4 DEF Placed
<1>4. CASE UNCHANGED h /\ ~event'.exists
  <2>1. \A b \in Actors : h'[b] = Resting
    BY <1>1, <1>4
  <2> QED BY <1>4, <2>1, RestingKnows DEF Placed
<1> QED BY <1>1, <1>3, <1>4

LEMMA PlacedStep ==
  ASSUME EditsReconcile, NothingAbandoned, Placed, Held', Settled',
         NEW a \in Actors, Proceed(a) \/ Disrupt(a)
  PROVE  Placed'
<1>1. Alone /\ Sound /\ Sound'
  BY DEF Placed, Held, Alone
<1>2. /\ h[a].pc # "idle" /\ Onward(h[a], h'[a])
      /\ \A b \in Actors : b # a => h[b] = Resting /\ h'[b] = Resting
  BY <1>1, OthersRest
<1>3. KnowsAt(h'[a], PortOf[a], event') /\ (Reconciling(h'[a]) => a \in clean')
  BY KnowsStep, CleanStep DEF NothingAbandoned
<1>4. event'.exists <=> event.exists
  BY <1>1, EventKept
<1>5. event'.exists => SeatsAt(h'[a], Confirmed', Waitlisted', event'.capacity)
  <2>1. event'.exists => SeatsGiven(a)
    BY <1>1, <1>2, <1>3, <1>4 DEF SeatsGiven, Placed
  <2> QED BY <2>1, SeatsStep DEF SeatsKept
<1>6. AtRest' => h'[a] = Resting
  BY <1>2 DEF AtRest, Onward
<1>7. event'.exists => /\ AtRest' => SeatsAt(Resting, Confirmed', Waitlisted', event'.capacity)
                       /\ \A b \in Actors : h'[b].pc # "idle"
                            => SeatsAt(h'[b], Confirmed', Waitlisted', event'.capacity)
  BY <1>2, <1>5, <1>6, RestingKnows
<1>8. \A b \in Actors : /\ Reconciling(h'[b]) => b \in clean'
                        /\ KnowsAt(h'[b], PortOf[b], event')
  BY <1>2, <1>3, RestingKnows
<1> QED BY <1>7, <1>8 DEF Placed

LEMMA PlacedNext ==
  OneAtATime /\ CompleteLists /\ EditsReconcile /\ NothingAbandoned /\ Placed /\ [Next]_vars => Placed'
<1> SUFFICES ASSUME OneAtATime, CompleteLists, EditsReconcile, NothingAbandoned, Placed, [Next]_vars
             PROVE  Placed'
  OBVIOUS
<1>1. Held' /\ Settled'
  BY HeldNext, SettledNext DEF Placed
<1>2. ASSUME NEW a \in Actors, Start(a) PROVE Placed'
  BY <1>1, <1>2, PlacedStart
<1>3. ASSUME NEW a \in Actors, Proceed(a) \/ Disrupt(a) PROVE Placed'
  BY <1>1, <1>3, PlacedStep
<1>4. CASE UNCHANGED vars
  <2>1. h' = h /\ event' = event /\ clean' = clean /\ size' = size /\ status' = status
    BY <1>4 DEF vars
  <2>2. Confirmed' = Confirmed /\ Waitlisted' = Waitlisted /\ AtRest' = AtRest
    BY <2>1, QuietLists DEF AtRest
  <2> QED BY <1>1, <2>1, <2>2 DEF Placed
<1> QED BY <1>2, <1>3, <1>4 DEF Next

(***************************************************************************)
(* One operation at a time, where every port has all the bookings in its   *)
(* two lists and creation times tell them apart, where the ports that save *)
(* an event reconcile it and nothing is abandoned half way: whatever is    *)
(* booked, cancelled, edited and begun again after a refreshed token, when *)
(* nothing is under way the oldest live bookings hold the seats of the     *)
(* event and the others wait.  Nobody is checked in: a check-in takes its  *)
(* booking out of the lists and frees its seat for no one.                 *)
(***************************************************************************)
THEOREM SeatsFall ==
  ASSUME OneAtATime, CompleteLists, EditsReconcile, NothingAbandoned, NoCheckIns
  PROVE  Spec => []SeatsAtRest
<1>1. Init => Placed
  BY PlacedInit
<1>2. Placed /\ [Next]_vars => Placed'
  BY PlacedNext
<1>3. Placed => SeatsAtRest
  BY DEF Placed, SeatsAt, SeatsAtRest, Resting
<1> QED BY <1>1, <1>2, <1>3, PTL DEF Spec

-----------------------------------------------------------------------------
(* The same with check-ins and deleted events.                             *)

\* Where events are deleted, every port that cancels notices that one is gone.
DeletionIsHandled == (\E a \in Actors : "delete" \in Ops[a]) => DeletionIsNoticed

\* The inductive strengthening of NotOversold: what a deleted event is left with still
\* fits it.
Within ==
  /\ Placed
  /\ ~event.exists =>
       /\ \A a \in Actors : InertAt(h[a], PortOf[a])
       /\ Seated(Confirmed, Waitlisted, event.capacity)
       /\ \E a \in Actors : "delete" \in Ops[a]

\* A deleted event stays what it is.
LEMMA GoneEvent ==
  ASSUME OneAtATime, Alone, ~event.exists, [Next]_vars
  PROVE  event' = event
<1>1. ASSUME NEW a \in Actors, Start(a) PROVE event' = event
  BY <1>1, StartAtRest
<1>2. ASSUME NEW a \in Actors, Proceed(a) \/ Disrupt(a) PROVE event' = event
  <2>1. Makes(a, h[a], h'[a])
    BY <1>2, StepMakes DEF Alone
  <2>2. Saves(h[a], h'[a], event, event') => event' = event
    BY DEF Saves
  <2> QED BY <2>1, <2>2 DEF Makes, Quiet
<1>3. UNCHANGED vars => event' = event
  BY DEF vars
<1> QED BY <1>1, <1>2, <1>3 DEF Next

\* Cancellations alone leave nobody out of turn.
LEMMA CancelledSeats ==
  ASSUME Held, Held', \A i \in Ids : status'[i] \in {status[i], "cancelled"},
         NEW c \in Nat, Seated(Confirmed, Waitlisted, c)
  PROVE  Seated(Confirmed', Waitlisted', c)
<1>1. Sound /\ Sound' /\ size \in Nat
  BY SizeType DEF Held, Alone
<1>2. Created' \subseteq Ids
  <2>1. size' \in Nat /\ size' <= MaxBookings
    BY <1>1 DEF Sound, TypeOK
  <2> QED BY <2>1, MaxBookingsAssumption DEF Created, Ids
<1>3. \A i \in Created' : status[i] # None => i \in Created
  BY <1>1, <1>2 DEF Held, Created, Ids
<1>4. Confirmed' \subseteq Confirmed /\ Waitlisted' \subseteq Waitlisted
  BY <1>2, <1>3 DEF Confirmed, Waitlisted, WithStatus, None
<1>5. Confirmed \in SUBSET (1..size) /\ Waitlisted \in SUBSET (1..size)
  BY DEF Confirmed, Waitlisted, WithStatus, Created
<1>6. Confirmed' \in SUBSET Confirmed /\ Confirmed' \union Waitlisted' \subseteq Confirmed \union Waitlisted
  BY <1>4
<1> QED BY <1>1, <1>5, <1>6, SeatedShrinks

LEMMA WithinInit == Init => Within
<1> SUFFICES ASSUME Init PROVE Within
  OBVIOUS
<1>1. event.exists
  <2>1. event \in [capacity : Capacities, exists : {TRUE}]
    BY DEF Init
  <2> QED BY <2>1
<1> QED BY <1>1, PlacedInit DEF Within

LEMMA WithinNext ==
  /\ OneAtATime /\ CompleteLists /\ EditsReconcile /\ NothingAbandoned /\ DeletionIsHandled
  /\ Within /\ [Next]_vars
  => Within'
<1> SUFFICES ASSUME OneAtATime, CompleteLists, EditsReconcile, NothingAbandoned, DeletionIsHandled,
                    Within, [Next]_vars, ~event'.exists
             PROVE  /\ \A a \in Actors : InertAt(h'[a], PortOf[a])
                    /\ Seated(Confirmed', Waitlisted', event'.capacity)
                    /\ \E a \in Actors : "delete" \in Ops[a]
  BY PlacedNext DEF Within
<1>1. Placed /\ Held /\ Held' /\ Alone
  BY PlacedNext DEF Within, Placed, Held
<1>2. CASE event.exists
  <2>1. \A a \in Actors : ~(Proceed(a) \/ Disrupt(a))
    BY <1>1, <1>2, EventKept DEF Alone
  <2>2. ~UNCHANGED vars
    BY <1>2 DEF vars
  <2>3. PICK a \in Actors : Start(a)
    BY <2>1, <2>2 DEF Next
  <2>4. /\ \A b \in Actors : h[b] = Resting
        /\ AtRest
        /\ UNCHANGED <<size, owner, status, told>>
        /\ UNCHANGED h /\ event'.capacity = event.capacity /\ "delete" \in Ops[a]
    BY <1>1, <1>2, <2>3, StartAtRest
  <2>5. \A b \in Actors : h'[b] = Resting
    BY <2>4
  <2>6. \A p : InertAt(Resting, p)
    BY DEF InertAt, Resting
  <2>7. Seated(Confirmed, Waitlisted, event.capacity)
    BY <1>1, <1>2, <2>4 DEF Placed, SeatsAt, Resting
  <2>8. Confirmed' = Confirmed /\ Waitlisted' = Waitlisted
    BY <2>4, QuietLists
  <2> QED BY <2>4, <2>5, <2>6, <2>7, <2>8
<1>3. CASE ~event.exists
  <2>1. /\ \A a \in Actors : InertAt(h[a], PortOf[a])
        /\ Seated(Confirmed, Waitlisted, event.capacity)
        /\ \E a \in Actors : "delete" \in Ops[a]
    BY <1>3 DEF Within
  <2>2. DeletionIsNoticed /\ Inert
    BY <1>1, <2>1 DEF DeletionIsHandled, Inert
  <2>3. Inert' /\ \A i \in Ids : status'[i] \in {status[i], "cancelled"}
    BY <1>3, <2>2, InertNext DEF OnlyCancelled
  <2>4. event' = event
    BY <1>1, <1>3, GoneEvent
  <2>5. event.capacity \in Nat
    BY <1>1, CapacitiesAssumption DEF Alone, Sound, TypeOK
  <2>6. Seated(Confirmed', Waitlisted', event.capacity)
    BY <1>1, <2>1, <2>3, <2>5, CancelledSeats
  <2> QED BY <2>1, <2>3, <2>4, <2>6 DEF Inert
<1> QED BY <1>2, <1>3

(***************************************************************************)
(* Check-ins included, and whether or not the event is deleted: when       *)
(* nothing is under way, no more seats are given than there are.  The      *)
(* conditions are those of SeatsFall but for the last, and that every port *)
(* that cancels looks whether the event is gone, if events are deleted.    *)
(***************************************************************************)
THEOREM NobodyBeyondCapacity ==
  ASSUME OneAtATime, CompleteLists, EditsReconcile, NothingAbandoned, DeletionIsHandled
  PROVE  Spec => []NotOversold
<1>1. Init => Within
  BY WithinInit
<1>2. Within /\ [Next]_vars => Within'
  BY WithinNext
<1>3. Within => NotOversold
  <2> SUFFICES ASSUME Within, AtRest PROVE WithinCapacity(Confirmed, event.capacity)
    BY DEF NotOversold
  <2>1. Seated(Confirmed, Waitlisted, event.capacity)
    BY DEF Within, Placed, SeatsAt, Resting
  <2>2. Sound /\ size \in Nat /\ event.capacity \in Nat
    BY SizeType, CapacitiesAssumption DEF Within, Placed, Held, Alone, Sound, TypeOK
  <2>3. Confirmed \in SUBSET (1..size) /\ Waitlisted \in SUBSET (1..size)
    BY DEF Confirmed, Waitlisted, WithStatus, Created
  <2> QED BY <2>1, <2>2, <2>3, SeatedWithin
<1> QED BY <1>1, <1>2, <1>3, PTL DEF Spec

\* A booking that a step puts back on the waitlist.
LEMMA PutBack ==
  ASSUME Held, NEW a \in Actors, Proceed(a) \/ Disrupt(a), NEW i \in Ids,
         status[i] = "confirmed", status'[i] = "waitlisted"
  PROVE  h[a].pc = "fix" /\ h[a].op \in {"book", "cancel", "edit"} /\ h[a].demote # {}
<1> DEFINE r == h[a]
           s == h'[a]
           Goal == r.pc = "fix" /\ r.op \in {"book", "cancel", "edit"} /\ r.demote # {}
<1>1. Makes(a, r, s) /\ FitsAt(r, size) /\ size \in Nat
  BY StepMakes, HeldFacts DEF Held, Alone
<1>2. status \in [Ids -> Status \union {None}] /\ (i > size => status[i] = None)
  BY HeldFacts DEF Held
<1> HIDE DEF r, s
<1> SUFFICES Goal
  BY DEF r
<1>3. ~UNCHANGED status
  OBVIOUS
<1>4. CASE Creates(r, s, size) /\ status' = [status EXCEPT ![size + 1] = r.initial]
  <2>1. i # size + 1
    BY <1>1, <1>2 DEF None
  <2> QED BY <1>2, <1>4, <2>1
<1>5. CASE status' = [status EXCEPT ![r.target] = IF r.op = "cancel" THEN "cancelled" ELSE "checked_in"]
  BY <1>2, <1>5
<1>6. ASSUME NEW j \in Ids, Fixes(r, s, j, status, status') PROVE Goal
  BY <1>2, <1>6 DEF Fixes
<1> QED BY <1>1, <1>3, <1>4, <1>5, <1>6 DEF Makes, Quiet

(***************************************************************************)
(* Under the conditions of SeatsFall and NobodyBeyondCapacity together, no *)
(* step of a booking or a cancellation puts a seat's holder back on the    *)
(* waitlist: only an edit does.                                            *)
(***************************************************************************)
THEOREM SeatsAreKept ==
  ASSUME OneAtATime, CompleteLists, EditsReconcile, NothingAbandoned, DeletionIsHandled, NoCheckIns
  PROVE  Spec => NeverDemoted
<1> DEFINE ByAnEdit == \A i \in Ids : status[i] = "confirmed" /\ status'[i] = "waitlisted"
                                        => \E a \in Actors : h[a].op = "edit"
<1>1. Init => Within
  BY WithinInit
<1>2. Within /\ [Next]_vars => Within'
  BY WithinNext
<1>3. Within /\ [Next]_vars => [ByAnEdit]_vars
  <2> SUFFICES ASSUME Within, Next, NEW i \in Ids, status[i] = "confirmed", status'[i] = "waitlisted"
               PROVE  \E a \in Actors : h[a].op = "edit"
    OBVIOUS
  <2>1. Placed /\ Held /\ Alone
    BY DEF Within, Placed, Held
  <2>2. PICK a \in Actors : Start(a) \/ Proceed(a) \/ Disrupt(a)
    BY DEF Next
  <2>3. ~Start(a)
    BY <2>1, StartAtRest
  <2>4. h[a].pc = "fix" /\ h[a].op \in {"book", "cancel", "edit"} /\ h[a].demote # {}
    BY <2>1, <2>2, <2>3, PutBack
  <2>5. event.exists
    BY <2>4 DEF Within, InertAt
  <2>6. SeatsAt(h[a], Confirmed, Waitlisted, event.capacity)
    BY <2>1, <2>4, <2>5 DEF Placed
  <2> QED BY <2>4, <2>6 DEF SeatsAt
<1> QED BY <1>1, <1>2, <1>3, PTL DEF Spec, NeverDemoted

-----------------------------------------------------------------------------
(* The line of Waitlist.                                                   *)

LEMMA LineKept ==
  ASSUME UNCHANGED <<size, owner, status>>, event'.capacity = event.capacity
  PROVE  UNCHANGED Line!lineVars
<1>1. \A s : WithStatus(s)' = WithStatus(s)
  BY DEF WithStatus, Created
<1> QED BY <1>1 DEF Line!lineVars, Confirmed, Waitlisted

\* Both count in the same way.
LEMMA SameCount == \A S, i : Line!Ahead(S, i) = Ahead(S, i)
BY DEF Line!Ahead, Ahead, Line!Cardinality, Cardinality

\* A new booking joins the line at its end.
LEMMA CreateJoins ==
  ASSUME Owing, Superseded, NEW a \in Actors, NEW s, Creates(h[a], s, size), size + 1 \in Ids,
         size' = size + 1, status' = [status EXCEPT ![size + 1] = h[a].initial],
         owner' = [owner EXCEPT ![size + 1] = h[a].user], UNCHANGED event
  PROVE  Line!LineNext
<1> DEFINE u == h[a].user
           line == Confirmed \union Waitlisted
<1>1. h[a].pc = "create" /\ h[a].op = "book"
  BY DEF Creates
<1>2. u \in Users /\ \A i \in Mine(u) : status[i] = "cancelled"
  BY <1>1 DEF Superseded, PastGate
<1>3. h[a].initial \in {"confirmed", "waitlisted"}
  BY <1>1 DEF Owing, OwesAt, Lists
<1>4. /\ Sound /\ size \in Nat
      /\ status \in [Ids -> Status \union {None}] /\ \A i \in Created : i \in Ids
  BY SizeType, CreatedIds DEF Owing, Held, Alone, Sound, TypeOK
<1>5. Created' = Created \union {size + 1} /\ size + 1 \notin Created
  BY <1>4 DEF Created
<1>6. /\ \A i \in Created : status'[i] = status[i]
      /\ status'[size + 1] = h[a].initial
  BY <1>4, <1>5
<1>7. line' = line \union {size + 1}
  BY <1>3, <1>5, <1>6 DEF Confirmed, Waitlisted, WithStatus
<1>8. \A t \in {"cancelled", "checked_in"} : WithStatus(t)' = WithStatus(t)
  BY <1>3, <1>5, <1>6 DEF WithStatus
<1>9. \A i \in line \union WithStatus("checked_in") : owner[i] # u
  <2>1. \A i \in line \union WithStatus("checked_in") : i \in Created /\ status[i] # "cancelled"
    BY DEF Confirmed, Waitlisted, WithStatus
  <2> QED BY <1>2, <2>1 DEF Mine
<1>10. Line!Join(u)
  BY <1>7, <1>8, <1>9 DEF Line!Join
<1> QED BY <1>2, <1>10 DEF Line!LineNext

\* Who is cancelled leaves it, and who is let in had a seat.
LEMMA PatchLeaves ==
  ASSUME Placed, NEW a \in Actors, NEW s, Patches(h[a], s), h[a].target \in Ids, h[a].target \in Created,
         status' = [status EXCEPT ![h[a].target] = IF h[a].op = "cancel" THEN "cancelled" ELSE "checked_in"],
         UNCHANGED <<size, owner, event>>
  PROVE  Line!LineNext \/ UNCHANGED Line!lineVars
<1> DEFINE i == h[a].target
           line == Confirmed \union Waitlisted
<1>1. h[a].pc = "patch" /\ h[a].op \in {"cancel", "checkin"}
  BY DEF Patches
<1>2. /\ status \in [Ids -> Status \union {None}] /\ \A j \in Created : j \in Ids
      /\ HeldAt(h[a], status, Confirmed, Waitlisted)
  BY HeldFacts, CreatedIds DEF Placed, Held, Alone
<1>3. Created' = Created
  BY DEF Created
<1>4. status'[i] = IF h[a].op = "cancel" THEN "cancelled" ELSE "checked_in"
  BY <1>2
<1>5. \A j \in Created : j # i => status'[j] = status[j]
  BY <1>2
<1>6. CASE status[i] = status'[i]
  <2>1. status' = status
    BY <1>2, <1>6
  <2> QED BY <2>1, LineKept
<1>7. CASE h[a].op = "cancel" /\ status[i] # "cancelled"
  <2>1. status[i] \in {"confirmed", "waitlisted"}
    BY <1>2, <1>7 DEF HeldAt, Live
  <2>2. status'[i] = "cancelled"
    BY <1>4, <1>7
  <2> HIDE DEF i
  <2>3. i \in line /\ line' = line \ {i}
    BY <1>3, <1>5, <2>1, <2>2 DEF Confirmed, Waitlisted, WithStatus, i
  <2>4. /\ WithStatus("cancelled")' = WithStatus("cancelled") \union {i}
        /\ WithStatus("checked_in")' = WithStatus("checked_in")
    BY <1>3, <1>5, <2>1, <2>2 DEF WithStatus, i
  <2>5. Line!Leave(i)
    BY <2>3, <2>4 DEF Line!Leave
  <2> QED BY <2>3, <2>5 DEF Line!LineNext
<1>8. CASE h[a].op = "checkin" /\ status[i] # "checked_in"
  <2>1. status[i] = "confirmed"
    BY <1>1, <1>2, <1>8 DEF HeldAt
  <2>2. status'[i] = "checked_in"
    BY <1>4, <1>8
  <2>3. Seated(Confirmed, Waitlisted, event.capacity)
    <3>1. event.exists
      BY <1>8 DEF Placed, KnowsAt
    <3> QED BY <1>1, <1>8, <3>1 DEF Placed, SeatsAt
  <2> HIDE DEF i
  <2>4. i \in line /\ line' = line \ {i} /\ i \in Confirmed
    BY <1>3, <1>5, <2>1, <2>2 DEF Confirmed, Waitlisted, WithStatus, i
  <2>5. /\ WithStatus("checked_in")' = WithStatus("checked_in") \union {i}
        /\ WithStatus("cancelled")' = WithStatus("cancelled")
    BY <1>3, <1>5, <2>1, <2>2 DEF WithStatus, i
  <2>6. Ahead(line, i) < event.capacity
    BY <2>3, <2>4 DEF Seated
  <2>7. Line!Admit(i)
    BY <2>4, <2>5, <2>6, SameCount DEF Line!Admit
  <2> QED BY <2>4, <2>7 DEF Line!LineNext
<1> QED BY <1>1, <1>4, <1>6, <1>7, <1>8

\* A correction moves nobody in it.
LEMMA FixKeepsPlaces ==
  ASSUME Held, NEW a \in Actors, NEW s, NEW i \in Ids, Fixes(h[a], s, i, status, status'),
         UNCHANGED <<size, owner, event>>
  PROVE  UNCHANGED Line!lineVars
<1>1. /\ h[a].pc = "fix"
      /\ i \in h[a].promote \union h[a].demote
      /\ \/ status' = [status EXCEPT ![i] = "confirmed"]
         \/ status' = [status EXCEPT ![i] = "waitlisted"]
  BY DEF Fixes
<1>2. /\ status \in [Ids -> Status \union {None}] /\ \A j \in Created : j \in Ids
      /\ HeldAt(h[a], status, Confirmed, Waitlisted)
  BY HeldFacts, CreatedIds DEF Held, Alone
<1>3. i \in Created /\ status[i] \in {"confirmed", "waitlisted"}
  BY <1>1, <1>2 DEF HeldAt, Confirmed, Waitlisted, WithStatus
<1>4. Created' = Created
  BY DEF Created
<1>5. /\ \A j \in Created : j # i => status'[j] = status[j]
      /\ status'[i] \in {"confirmed", "waitlisted"}
  BY <1>1, <1>2
<1>6. (Confirmed \union Waitlisted)' = Confirmed \union Waitlisted
  BY <1>3, <1>4, <1>5 DEF Confirmed, Waitlisted, WithStatus
<1>7. \A t \in {"cancelled", "checked_in"} : WithStatus(t)' = WithStatus(t)
  BY <1>3, <1>4, <1>5 DEF WithStatus
<1> QED BY <1>6, <1>7 DEF Line!lineVars

\* The inductive strengthening of KeepsTheLine.
Standing == Owing /\ Superseded /\ Placed

LEMMA StandingStep ==
  ASSUME OneAtATime, Standing, [Next]_vars
  PROVE  Line!LineNext \/ UNCHANGED Line!lineVars
<1>1. Owing /\ Superseded /\ Placed /\ Held /\ Alone /\ Sound
  BY DEF Standing, Placed, Held, Alone
<1>2. ASSUME NEW a \in Actors, Start(a) PROVE UNCHANGED Line!lineVars
  BY <1>1, <1>2, StartAtRest, LineKept
<1>3. ASSUME NEW a \in Actors, Proceed(a) \/ Disrupt(a)
      PROVE  Line!LineNext \/ UNCHANGED Line!lineVars
  <2>1. Makes(a, h[a], h'[a])
    BY <1>1, <1>3, StepMakes
  <2>2. Quiet => UNCHANGED Line!lineVars
    BY LineKept DEF Quiet
  <2>3. CASE Saves(h[a], h'[a], event, event') /\ UNCHANGED <<size, owner, status, told>>
    <3>1. CASE event' = event
      BY <2>3, <3>1, LineKept
    <3>2. CASE h[a].op = "edit" /\ event'.capacity = h[a].capacity
      <4>1. h[a].capacity \in Capacities
        BY <1>1, <3>2, Records DEF FitsAt
      <4>2. \A s : WithStatus(s)' = WithStatus(s)
        BY <2>3 DEF WithStatus, Created
      <4>3. Line!Resize(h[a].capacity)
        BY <2>3, <3>2, <4>2 DEF Line!Resize, Confirmed, Waitlisted
      <4> QED BY <4>1, <4>3 DEF Line!LineNext
    <3> QED BY <2>3, <3>1, <3>2 DEF Saves
  <2> QED BY <1>1, <2>1, <2>2, <2>3, CreateJoins, PatchLeaves, FixKeepsPlaces, LineKept DEF Makes
<1>4. CASE UNCHANGED vars
  BY <1>4, LineKept DEF vars
<1> QED BY <1>2, <1>3, <1>4 DEF Next

LEMMA StandingInit == Init => Standing
<1> SUFFICES ASSUME Init PROVE Standing
  OBVIOUS
<1>1. Created = {} /\ \A a \in Actors : h[a] = Resting
  BY DEF Init, Created
<1>2. Resting.op = "none"
  BY DEF Resting
<1>3. Owing
  BY <1>1, HeldInit, RestingOwes DEF Owing
<1>4. Superseded
  BY <1>1, <1>2, HeldInit DEF Superseded
<1> QED BY <1>3, <1>4, PlacedInit DEF Standing

(***************************************************************************)
(* One operation at a time, where no call fails, nobody's gate looks at    *)
(* whichever booking it is given, every port has all the bookings in its   *)
(* lists and the ports that save an event reconcile it, Bookings is the    *)
(* line of Waitlist: every write of a booking, a cancellation, a check-in, *)
(* an edit or a correction is a step of the line or leaves it alone.       *)
(***************************************************************************)
THEOREM BookingsKeepTheLine ==
  ASSUME OneAtATime, Faults = {}, OrderedLookups, CompleteLists, EditsReconcile
  PROVE  Spec => KeepsTheLine
<1>1. Init => Standing
  BY StandingInit
<1>2. Standing /\ [Next]_vars => Standing'
  <2>1. NothingAbandoned
    BY DEF NothingAbandoned
  <2> QED BY <2>1, OwingNext, SupersededNext, PlacedNext DEF Standing
<1>3. Init => Line!LineInit
  <2> SUFFICES ASSUME Init PROVE Line!LineInit
    OBVIOUS
  <2>1. Created = {}
    BY DEF Init, Created
  <2>2. \A s : WithStatus(s) = {}
    BY <2>1 DEF WithStatus
  <2>3. event.capacity \in Capacities
    <3>1. event \in [capacity : Capacities, exists : {TRUE}]
      BY DEF Init
    <3> QED BY <3>1
  <2>4. owner \in [Ids -> {"none"}] /\ size = 0
    BY DEF Init, None
  <2> QED BY <2>2, <2>3, <2>4 DEF Line!LineInit, Confirmed, Waitlisted
<1>4. Standing /\ [Next]_vars => [Line!LineNext]_Line!lineVars
  BY StandingStep
<1> QED BY <1>1, <1>2, <1>3, <1>4, PTL DEF Spec, KeepsTheLine, Line!LineSpec

-----------------------------------------------------------------------------
(* What the end of every operation rests on: the two facts that need no    *)
(* ENABLED, of which the first is that its steps are bounded.              *)

\* More than there is to do about the corrections of one reconciliation.
Corrections == 4 * MaxBookings

\* A correction still to be made is two steps, with its entry.
Outstanding(r) == 2 * Cardinality(r.promote) + 2 * Cardinality(r.demote)

\* The steps to the end of the operation, at most, without the entries that wait.
Remaining(p, r) ==
  CASE r.pc = "idle" -> 0
    [] r.pc = "report" -> 1
    [] r.pc = "reread" -> 2
    [] r.pc = "fix" -> Outstanding(r) + 3
    [] r.pc = "reads" -> Corrections + 4 + Cardinality(r.unread)
    [] r.pc = "log" -> Corrections + 8
    [] r.pc \in {"create", "patch", "save"} -> Corrections + 9
    [] r.pc = "count" -> Corrections + 10
    [] r.pc = "find" -> Corrections + 11
    [] r.pc = "gate" -> Corrections + (IF p.book.first = "gate" THEN 12 ELSE 11)
    [] r.pc = "event" /\ r.op = "book" ->
         Corrections + (IF p.book.first = "gate" THEN 11 ELSE 12)
    [] r.pc = "event" /\ r.op # "book" ->
         Corrections + (IF p.cancel.event = "before" THEN 10 ELSE 7)

Left(p, r) == Remaining(p, r) + Cardinality(r.logs)

LEMMA Sizes ==
  ASSUME NEW r \in Handler
  PROVE  /\ Corrections \in Nat /\ Outstanding(r) \in Nat /\ Outstanding(r) <= Corrections
         /\ IsFiniteSet(r.promote) /\ IsFiniteSet(r.demote) /\ IsFiniteSet(r.logs)
         /\ Cardinality(r.promote) \in Nat /\ Cardinality(r.demote) \in Nat
         /\ Cardinality(r.logs) \in Nat /\ Cardinality(r.unread) \in 0..2
<1>1. r.promote \in SUBSET (1..MaxBookings) /\ r.demote \in SUBSET (1..MaxBookings)
      /\ r.logs \in SUBSET (Ids \X {"booking_promoted", "booking_waitlisted"})
      /\ r.unread \in SUBSET Lists
  BY DEF Handler, Ids
<1>2. /\ IsFiniteSet(r.promote) /\ Cardinality(r.promote) \in Nat
      /\ Cardinality(r.promote) <= MaxBookings
      /\ IsFiniteSet(r.demote) /\ Cardinality(r.demote) \in Nat
      /\ Cardinality(r.demote) <= MaxBookings
  BY <1>1, SizeBound, MaxBookingsAssumption
<1>3. IsFiniteSet(r.logs) /\ Cardinality(r.logs) \in Nat
  <2>1. IsFiniteSet(Ids)
    BY FS_Interval, MaxBookingsAssumption DEF Ids
  <2>2. IsFiniteSet({"booking_promoted", "booking_waitlisted"})
    <3>1. IsFiniteSet({"booking_promoted"}) /\ IsFiniteSet({"booking_waitlisted"})
      BY FS_Singleton
    <3>2. IsFiniteSet({"booking_promoted"} \union {"booking_waitlisted"})
      BY <3>1, FS_Union
    <3>3. {"booking_promoted"} \union {"booking_waitlisted"} = {"booking_promoted", "booking_waitlisted"}
      OBVIOUS
    <3> QED BY <3>2, <3>3
  <2>3. IsFiniteSet(Ids \X {"booking_promoted", "booking_waitlisted"})
    BY <2>1, <2>2, FS_Product
  <2> QED BY <1>1, <2>3, FS_Subset, FS_CardinalityType
<1>4. Cardinality(r.unread) \in 0..2
  <2>1. r.unread \in {{}, {"confirmed"}, {"waitlisted"}, {"confirmed", "waitlisted"}}
    BY <1>1 DEF Lists
  <2>2. /\ Cardinality({}) = 0 /\ Cardinality({"confirmed"}) = 1 /\ Cardinality({"waitlisted"}) = 1
        /\ IsFiniteSet({"confirmed"})
    BY FS_EmptySet, FS_Singleton
  <2>3. Cardinality({"confirmed"} \union {"waitlisted"}) = 2
    BY <2>2, FS_AddElement
  <2>4. {"confirmed"} \union {"waitlisted"} = {"confirmed", "waitlisted"}
    OBVIOUS
  <2> QED BY <2>1, <2>2, <2>3, <2>4
<1>5. Outstanding(r) \in Nat /\ Outstanding(r) <= Corrections /\ Corrections \in Nat
  BY <1>2, MaxBookingsAssumption DEF Outstanding, Corrections
<1> QED BY <1>2, <1>3, <1>4, <1>5

LEMMA FirstRead ==
  /\ Cardinality(Lists) = 2
  /\ \A list \in Lists : Cardinality({list}) = 1 /\ Cardinality(Lists \ {list}) = 1
<1>1. \A list \in Lists : Cardinality({list}) = 1
  BY FS_Singleton
<1>2. {"confirmed"} \union {"waitlisted"} = Lists
  BY DEF Lists
<1>3. Cardinality({"confirmed"} \union {"waitlisted"}) = 2
  <2>1. /\ IsFiniteSet({"confirmed"}) /\ Cardinality({"confirmed"}) = 1
        /\ "waitlisted" \notin {"confirmed"}
    BY FS_Singleton
  <2> QED BY <2>1, FS_AddElement
<1>4. Lists \ {"confirmed"} = {"waitlisted"} /\ Lists \ {"waitlisted"} = {"confirmed"}
  BY DEF Lists
<1>5. Cardinality({"confirmed"}) = 1 /\ Cardinality({"waitlisted"}) = 1
  BY FS_Singleton
<1> QED BY <1>1, <1>2, <1>3, <1>4, <1>5 DEF Lists

LEMMA RemainingBound ==
  ASSUME NEW r \in Handler, NEW p
  PROVE  /\ Remaining(p, r) \in Nat /\ Remaining(p, r) <= Corrections + 12
         /\ r.pc # "idle" => Remaining(p, r) >= 1
         /\ Left(p, r) \in Nat
<1>1. r.pc \in Places
  BY DEF Handler
<1>2. /\ Remaining(p, r) \in Nat /\ Remaining(p, r) <= Corrections + 12
      /\ r.pc # "idle" => Remaining(p, r) >= 1
  BY <1>1, Sizes DEF Places, Remaining
<1> QED BY <1>2, Sizes DEF Left

LEMMA RestingLeft == \A p : Left(p, Resting) = 0
<1>1. Resting.pc = "idle" /\ Resting.logs = {}
  BY DEF Resting
<1> QED BY <1>1, FS_EmptySet DEF Left, Remaining

\* A step of the operation itself.
Advances(p, r, s) ==
  \/ s = Resting
  \/ PassesGate(p, r, s)
  \/ ReadsEvent(p, r, s, event)
  \/ Counts(r, s, Confirmed)
  \/ Creates(r, s, size)
  \/ Finds(p, r, s, status[r.target])
  \/ Patches(r, s)
  \/ Saves(r, s, event, event')
  \/ Logs(p, r, s)
  \/ \E list \in Lists : ReadsList(r, s, list, Confirmed, Waitlisted)
  \/ \E i \in Ids : Fixes(r, s, i, status, status')
  \/ LogsFix(r, s, told, told')
  \/ EndsFix(p, r, s)
  \/ Rereads(r, s, status[r.target])
  \/ Misses(p, r, s)

LEMMA ProceedAdvances ==
  ASSUME Sound, NEW a \in Actors, Proceed(a) \/ GateLost(a) \/ EventLost(a) \/ Fail(a)
  PROVE  Advances(PortOf[a], h[a], h'[a])
<1> DEFINE Goal == Advances(PortOf[a], h[a], h'[a])
<1>1. CASE GateShut(a) \/ Report(a) \/ Fail(a)
  BY <1>1, Records DEF GateShut, Report, Fail, Finish, Advances
<1>2. CASE GateOpen(a) \/ GateLost(a)
  BY <1>2, GateRecord DEF Advances
<1>3. CASE ReadEvent(a) \/ Count(a) \/ Create(a) \/ Find(a) \/ Patch(a) \/ Save(a) \/ Log(a)
  BY <1>3, ReadEventRecord, CountRecord, CreateRecord, FindRecord, PatchRecord, SaveRecord,
     LogRecord DEF Advances
<1>4. ASSUME NEW list \in Lists, ReadList(a, list) PROVE Goal
  BY <1>4, ReadListRecord DEF Advances
<1>5. ASSUME NEW i \in Ids, Fix(a, i) PROVE Goal
  BY <1>5, FixRecord DEF Advances
<1>6. CASE LogFix(a) \/ EndFix(a) \/ Reread(a) \/ EventLost(a)
  BY <1>6, LogFixRecord, EndFixRecord, RereadRecord, EventLostRecord DEF Advances
<1> QED BY <1>1, <1>2, <1>3, <1>4, <1>5, <1>6 DEF Proceed

LEMMA AdvanceLeft ==
  ASSUME NEW p \in PortProfile, NEW r \in Handler, NEW s \in Handler,
         r.pc # "idle", Advances(p, r, s)
  PROVE  Left(p, s) < Left(p, r)
<1> DEFINE Goal == Left(p, s) < Left(p, r)
<1>1. /\ Remaining(p, r) \in Nat /\ Remaining(p, s) \in Nat
      /\ Cardinality(r.logs) \in Nat /\ Cardinality(s.logs) \in Nat
      /\ Left(p, r) >= 1 /\ Corrections \in Nat
      /\ Outstanding(s) \in Nat /\ Outstanding(s) <= Corrections
      /\ Outstanding(r) \in Nat
      /\ IsFiniteSet(r.promote) /\ IsFiniteSet(r.demote) /\ IsFiniteSet(r.logs)
      /\ Cardinality(r.promote) \in Nat /\ Cardinality(r.demote) \in Nat
      /\ Cardinality(r.unread) \in 0..2 /\ Cardinality(s.unread) \in 0..2
  <2>1. Left(p, r) >= 1
    <3>1. Remaining(p, r) \in Nat /\ Remaining(p, r) >= 1 /\ Cardinality(r.logs) \in Nat
      BY RemainingBound, Sizes
    <3> QED BY <3>1 DEF Left
  <2> QED BY <2>1, RemainingBound, Sizes
<1>2. /\ p.book.first \in {"event", "gate"} /\ p.cancel.event \in {"before", "after"}
  BY DEF PortProfile, BookProfile, CancelProfile
<1>3. ASSUME s.logs = r.logs, Remaining(p, s) < Remaining(p, r) PROVE Goal
  BY <1>1, <1>3 DEF Left
<1>4. CASE s = Resting
  <2>1. Left(p, s) = 0 /\ Left(p, r) \in Nat
    BY <1>4, RestingLeft, RemainingBound
  <2> QED BY <1>1, <2>1
<1>5. CASE PassesGate(p, r, s)
  <2>1. Remaining(p, s) < Remaining(p, r)
    BY <1>1, <1>2, <1>5 DEF PassesGate, SameTask, Remaining
  <2> QED BY <1>3, <1>5, <2>1 DEF PassesGate, SameFixes
<1>6. CASE ReadsEvent(p, r, s, event) /\ s # Resting
  <2>1. s.logs = r.logs /\ s.op = r.op
    BY <1>6 DEF ReadsEvent, Knows, SameFixes
  <2>2. r.pc = "event" /\ r.op \in {"book", "cancel"}
    BY <1>6 DEF ReadsEvent
  <2>3. \/ r.op = "book" /\ p.book.first = "gate" /\ s.pc = "count"
        \/ r.op = "book" /\ p.book.first = "event" /\ s.pc = "gate"
        \/ r.op = "cancel" /\ p.cancel.event = "before" /\ s.pc = "patch"
        \/ r.op = "cancel" /\ p.cancel.event = "after" /\ s.pc = "reads"
    BY <1>6 DEF ReadsEvent, Knows
  <2>4. Remaining(p, s) < Remaining(p, r)
    BY <1>1, <2>1, <2>2, <2>3 DEF Remaining
  <2> QED BY <1>3, <2>1, <2>4
<1>7. CASE Counts(r, s, Confirmed) \/ Creates(r, s, size)
  <2>1. s.logs = r.logs
    BY <1>7 DEF Counts, Creates, SameFixes
  <2>2. Remaining(p, s) < Remaining(p, r)
    BY <1>1, <1>7 DEF Counts, Creates, Remaining
  <2> QED BY <1>3, <2>1, <2>2
<1>8. CASE Finds(p, r, s, status[r.target]) /\ s # Resting
  <2>1. s.logs = r.logs /\ s.op = r.op /\ r.pc = "find" /\ r.op \in {"cancel", "checkin"}
    BY <1>8 DEF Finds, SameTask, SameFixes
  <2>2. s.pc = "event" \/ s.pc = "patch"
    BY <1>8 DEF Finds
  <2>3. Remaining(p, s) < Remaining(p, r)
    BY <1>1, <2>1, <2>2 DEF Remaining
  <2> QED BY <1>3, <2>1, <2>3
<1>9. CASE Patches(r, s) \/ (Saves(r, s, event, event') /\ s # Resting)
  <2>1. s.logs = r.logs /\ r.pc \in {"patch", "save"} /\ s.pc = "log"
    BY <1>9 DEF Patches, Saves, SameFixes
  <2>2. Remaining(p, s) < Remaining(p, r)
    BY <1>1, <2>1 DEF Remaining
  <2> QED BY <1>3, <2>1, <2>2
<1>10. CASE Logs(p, r, s) /\ s # Resting
  <2>1. s.logs = r.logs /\ s.op = r.op /\ r.pc = "log"
    BY <1>10 DEF Logs, SameTask, SameFixes
  <2>2. \/ s.pc = "reads" \/ s.pc = "report"
        \/ s.pc = "event" /\ r.op = "cancel" /\ p.cancel.event = "after"
    BY <1>10 DEF Logs
  <2>3. Remaining(p, s) < Remaining(p, r)
    BY <1>1, <2>1, <2>2 DEF Remaining
  <2> QED BY <1>3, <2>1, <2>3
<1>11. ASSUME NEW list \in Lists, ReadsList(r, s, list, Confirmed, Waitlisted) PROVE Goal
  <2>1. PICK c, w, promote, demote \in SUBSET Ids :
          ReadsLists(r, s, list, Confirmed, Waitlisted, c, w, promote, demote)
    BY <1>11 DEF ReadsList
  <2>2. r.pc = "reads" /\ s.logs = r.logs
    BY <1>11, <2>1 DEF ReadsList, ReadsLists
  <2>3. s.pc = "fix" \/ (s.pc = "reads" /\ r.unread = Lists /\ s.unread = Lists \ {list})
    BY <2>1 DEF ReadsLists
  <2>4. Cardinality(Lists) = 2 /\ Cardinality(Lists \ {list}) = 1
    BY FirstRead
  <2>5. Remaining(p, r) = Corrections + 4 + Cardinality(r.unread)
    BY <2>2 DEF Remaining
  <2>6. \/ Remaining(p, s) = Outstanding(s) + 3
        \/ /\ Remaining(p, s) = Corrections + 4 + Cardinality(s.unread)
           /\ Cardinality(s.unread) = 1 /\ Cardinality(r.unread) = 2
    BY <2>3, <2>4 DEF Remaining
  <2>7. Remaining(p, s) < Remaining(p, r)
    BY <1>1, <2>5, <2>6
  <2> QED BY <1>3, <2>2, <2>7
<1>12. ASSUME NEW i \in Ids, Fixes(r, s, i, status, status') PROVE Goal
  <2> DEFINE Less(S, T) == Cardinality(T) = Cardinality(S) - 1
  <2>1. r.pc = "fix" /\ s.pc = "fix"
    BY <1>12 DEF Fixes
  <2>2. \/ Less(r.promote, s.promote) /\ s.demote = r.demote
        \/ Less(r.demote, s.demote) /\ s.promote = r.promote
    BY <1>1, <1>12, FS_RemoveElement DEF Fixes
  <2>3. Cardinality(s.logs) <= Cardinality(r.logs) + 1
    <3>1. PICK entry : s.logs = r.logs \union {entry}
      BY <1>12 DEF Fixes
    <3>2. Cardinality(r.logs \union {entry})
            = IF entry \in r.logs THEN Cardinality(r.logs) ELSE Cardinality(r.logs) + 1
      BY <1>1, FS_AddElement
    <3> QED BY <1>1, <3>1, <3>2
  <2>4. Outstanding(s) = Outstanding(r) - 2
    BY <1>1, <2>2 DEF Outstanding
  <2>5. Remaining(p, r) = Outstanding(r) + 3 /\ Remaining(p, s) = Outstanding(s) + 3
    BY <2>1 DEF Remaining
  <2> QED BY <1>1, <2>3, <2>4, <2>5 DEF Left
<1>13. CASE LogsFix(r, s, told, told')
  <2>1. PICK entry \in r.logs : s.logs = r.logs \ {entry}
    BY <1>13 DEF LogsFix
  <2>2. Cardinality(s.logs) = Cardinality(r.logs) - 1
    BY <1>1, <2>1, FS_RemoveElement
  <2>3. Remaining(p, s) = Remaining(p, r)
    BY <1>13 DEF LogsFix, Remaining, Outstanding
  <2> QED BY <1>1, <2>2, <2>3 DEF Left
<1>14. CASE EndsFix(p, r, s) /\ s # Resting
  <2>1. r.pc = "fix" /\ s.pc \in {"reread", "report"} /\ s.logs = r.logs
    BY <1>14 DEF EndsFix, SameFixes
  <2>2. Remaining(p, s) < Remaining(p, r)
    BY <1>1, <2>1 DEF Remaining
  <2> QED BY <1>3, <2>1, <2>2
<1>15. CASE Rereads(r, s, status[r.target])
  <2>1. r.pc = "reread" /\ s.pc = "report" /\ s.logs = r.logs
    BY <1>15 DEF Rereads, SameFixes
  <2>2. Remaining(p, s) < Remaining(p, r)
    BY <1>1, <2>1 DEF Remaining
  <2> QED BY <1>3, <2>1, <2>2
<1>16. CASE Misses(p, r, s)
  <2>1. /\ s.logs = r.logs /\ s.op = r.op /\ r.pc = "event" /\ r.op = "cancel"
        /\ p.cancel.event = "before" /\ s.pc = "patch"
    BY <1>16 DEF Misses, SameFixes
  <2>2. Remaining(p, s) < Remaining(p, r)
    BY <1>1, <2>1 DEF Remaining
  <2> QED BY <1>3, <2>1, <2>2
<1>17. Advances(p, r, s)
  OBVIOUS
<1> QED BY <1>4, <1>5, <1>6, <1>7, <1>8, <1>9, <1>10, <1>11, <1>12, <1>13, <1>14, <1>15, <1>16, <1>17
        DEF Advances

\* A correction given up is a correction less, or an entry less.
LEMMA GiveUpLeft ==
  ASSUME Sound, NEW a \in Actors, NEW p, GiveUp(a), h[a].pc = "fix"
  PROVE  Left(p, h'[a]) < Left(p, h[a])
<1> DEFINE r == h[a]
           s == h'[a]
           Goal == Left(p, s) < Left(p, r)
<1>1. r \in Handler /\ h \in [Actors -> Handler]
  BY Records
<1>2. /\ IsFiniteSet(r.promote) /\ IsFiniteSet(r.demote) /\ IsFiniteSet(r.logs)
      /\ Cardinality(r.promote) \in Nat /\ Cardinality(r.demote) \in Nat
      /\ Cardinality(r.logs) \in Nat
  BY <1>1, Sizes
<1>3. ASSUME NEW i \in r.promote \union r.demote,
             h' = [h EXCEPT ![a].promote = @ \ {i}, ![a].demote = @ \ {i}, ![a].failed = TRUE]
      PROVE  Goal
  <2>1. s.promote = r.promote \ {i} /\ s.demote = r.demote \ {i} /\ s.logs = r.logs /\ s.pc = "fix"
    BY <1>1, <1>3 DEF Handler
  <2> HIDE DEF r, s
  <2>2. /\ Cardinality(s.promote) = IF i \in r.promote THEN Cardinality(r.promote) - 1
                                    ELSE Cardinality(r.promote)
        /\ Cardinality(s.demote) = IF i \in r.demote THEN Cardinality(r.demote) - 1
                                   ELSE Cardinality(r.demote)
    BY <1>2, <2>1, FS_RemoveElement
  <2>3. i \in r.promote \/ i \in r.demote
    BY <1>3
  <2>4. r.pc = "fix"
    BY DEF r
  <2> QED BY <1>2, <2>1, <2>2, <2>3, <2>4 DEF Left, Remaining, Outstanding
<1>4. ASSUME NEW entry \in r.logs,
             h' = [h EXCEPT ![a].logs = @ \ {entry}, ![a].failed = TRUE]
      PROVE  Goal
  <2>1. s.promote = r.promote /\ s.demote = r.demote /\ s.logs = r.logs \ {entry} /\ s.pc = "fix"
    BY <1>1, <1>4 DEF Handler
  <2> HIDE DEF r, s
  <2>2. Cardinality(s.logs) = Cardinality(r.logs) - 1
    BY <1>2, <2>1, <1>4, FS_RemoveElement
  <2>3. r.pc = "fix"
    BY DEF r
  <2> QED BY <1>2, <2>1, <2>2, <2>3 DEF Left, Remaining, Outstanding
<1> QED BY <1>3, <1>4 DEF GiveUp

\* Every fault still to come may cost an operation what it has done.
Whole == Corrections + 13
Fuel(a) == (MaxFaults - faults) * Whole + Left(PortOf[a], h[a])

\* No more faults than there may be.
Bounded == Sound /\ faults <= MaxFaults

LEMMA BoundedInit == Init => Bounded
BY SoundInit, FaultsAssumption DEF Init, Bounded

LEMMA FaultsOfProceed ==
  ASSUME Sound, NEW a \in Actors, Start(a) \/ Proceed(a)
  PROVE  faults' = faults
<1>1. CASE Start(a)
  BY <1>1 DEF Start, StartBook, StartCancel, StartCheckIn, StartEdit, Delete
<1>2. CASE Proceed(a)
  BY <1>2 DEF Proceed, GateOpen, GateShut, ReadEvent, Count, Create, Find, Patch, Save, Log,
              ReadList, Fix, LogFix, EndFix, Reread, Report
<1> QED BY <1>1, <1>2

LEMMA FaultsOfDisrupt ==
  ASSUME NEW a \in Actors, Disrupt(a)
  PROVE  \/ faults' = faults /\ CancelSibling(a)
         \/ faults < MaxFaults /\ faults' = faults + 1
BY DEF Disrupt, Fail, GateLost, EventLost, FailFix, Expire, CancelSibling, Fault

LEMMA BoundedNext == Bounded /\ [Next]_vars => Bounded'
<1> SUFFICES ASSUME Bounded, [Next]_vars PROVE Bounded'
  OBVIOUS
<1>1. Sound' /\ Sound
  BY SoundNext DEF Bounded
<1>2. faults \in Nat /\ MaxFaults \in Nat /\ faults <= MaxFaults
  BY <1>1, FaultsAssumption DEF Bounded, Sound, TypeOK
<1>3. ASSUME NEW a \in Actors, Start(a) \/ Proceed(a) PROVE faults' <= MaxFaults
  BY <1>1, <1>2, <1>3, FaultsOfProceed
<1>4. ASSUME NEW a \in Actors, Disrupt(a) PROVE faults' <= MaxFaults
  BY <1>2, <1>4, FaultsOfDisrupt
<1>5. ASSUME UNCHANGED vars PROVE faults' <= MaxFaults
  BY <1>2, <1>5 DEF vars
<1>6. faults' <= MaxFaults
  BY <1>3, <1>4, <1>5 DEF Next
<1> QED BY <1>1, <1>6 DEF Bounded

\* What a fault takes from the first part is more than it can add to the second.
LEMMA FaultCosts ==
  ASSUME NEW m \in Nat, NEW f \in Nat, NEW w \in Nat, f < m
  PROVE  /\ (m - f) * w \in Nat /\ (m - (f + 1)) * w \in Nat
         /\ (m - f) * w = (m - (f + 1)) * w + w
<1>1. m - f \in Nat /\ m - (f + 1) \in Nat
  OBVIOUS
<1>2. m - f = (m - (f + 1)) + 1
  OBVIOUS
<1> DEFINE k == m - (f + 1)
<1>3. k \in Nat /\ m - f = k + 1
  BY <1>1, <1>2
<1> HIDE DEF k
<1>4. k * w \in Nat /\ (k + 1) * w = k * w + w
  BY <1>3
<1> QED BY <1>3, <1>4 DEF k

LEMMA FuelOf ==
  ASSUME NEW p, NEW r \in Handler, NEW f \in Nat, f <= MaxFaults
  PROVE  (MaxFaults - f) * Whole + Left(p, r) \in Nat
<1>1. Left(p, r) \in Nat /\ Whole \in Nat
  BY RemainingBound, Sizes DEF Whole
<1>2. MaxFaults - f \in Nat
  BY FaultsAssumption
<1>3. (MaxFaults - f) * Whole \in Nat
  BY <1>1, <1>2
<1> QED BY <1>1, <1>3

LEMMA FuelType == \A a \in Actors : (Bounded => Fuel(a) \in Nat) /\ (Bounded' => Fuel(a)' \in Nat)
<1> TAKE a \in Actors
<1>1. Bounded => h[a] \in Handler /\ faults \in Nat /\ faults <= MaxFaults
  BY DEF Bounded, Sound, TypeOK
<1>2. Bounded' => h'[a] \in Handler /\ faults' \in Nat /\ faults' <= MaxFaults
  BY DEF Bounded, Sound, TypeOK
<1> QED BY <1>1, <1>2, FuelOf DEF Fuel

\* With every fault counted, a step of an operation brings it closer to its end.
LEMMA OwnStepCosts ==
  ASSUME Bounded, Bounded', NEW a \in Actors, Proceed(a) \/ Disrupt(a)
  PROVE  Fuel(a)' < Fuel(a)
<1> DEFINE before == Left(PortOf[a], h[a])
           after == Left(PortOf[a], h'[a])
           L == MaxFaults - faults
<1>1. /\ Sound /\ h[a] \in Handler /\ h'[a] \in Handler /\ PortOf[a] \in PortProfile
      /\ faults \in Nat /\ MaxFaults \in Nat /\ faults <= MaxFaults
  BY FaultsAssumption, PortOfAssumption DEF Bounded, Sound, TypeOK
<1>2. before \in Nat /\ after \in Nat /\ Whole \in Nat /\ (MaxFaults - faults) * Whole \in Nat
  <2>1. MaxFaults - faults \in Nat
    BY <1>1
  <2>2. before \in Nat /\ after \in Nat /\ Whole \in Nat
    BY <1>1, RemainingBound, Sizes DEF Whole
  <2> HIDE DEF before, after
  <2> QED BY <2>1, <2>2
<1>3. /\ Fuel(a) = (MaxFaults - faults) * Whole + before
      /\ Fuel(a)' = (MaxFaults - faults') * Whole + after
  BY DEF Fuel
<1>4. h[a].pc # "idle"
  BY <1>1, ProceedOnward
<1>5. CASE Proceed(a)
  <2>1. faults' = faults
    BY <1>1, <1>5, FaultsOfProceed
  <2>2. after < before
    BY <1>1, <1>4, <1>5, ProceedAdvances, AdvanceLeft
  <2> HIDE DEF before, after
  <2> QED BY <1>2, <1>3, <2>1, <2>2
<1>6. CASE CancelSibling(a) /\ faults' = faults
  <2>1. after < before
    BY <1>1, <1>6, GiveUpLeft DEF CancelSibling
  <2> HIDE DEF before, after
  <2> QED BY <1>2, <1>3, <1>6, <2>1
<1>7. CASE Disrupt(a) /\ faults < MaxFaults /\ faults' = faults + 1
  <2>1. after < before + Whole
    <3>1. CASE GateLost(a) \/ EventLost(a) \/ Fail(a)
      <4>1. after < before
        BY <1>1, <1>4, <3>1, ProceedAdvances, AdvanceLeft
      <4> HIDE DEF before, after
      <4> QED BY <1>2, <4>1
    <3>2. CASE FailFix(a) \/ CancelSibling(a)
      <4>1. after < before
        BY <1>1, <3>2, GiveUpLeft DEF CancelSibling, FailFix
      <4> HIDE DEF before, after
      <4> QED BY <1>2, <4>1
    <3>3. CASE Expire(a)
      <4>1. h'[a].logs = {}
        BY <1>1, <3>3, ExpireRecord DEF Expires
      <4>2. Cardinality(h'[a].logs) = 0
        BY <4>1, FS_EmptySet
      <4>3. Remaining(PortOf[a], h'[a]) \in Nat /\ Remaining(PortOf[a], h'[a]) <= Corrections + 12
            /\ Corrections \in Nat
        BY <1>1, RemainingBound, Sizes
      <4>4. after < Whole
        BY <4>2, <4>3 DEF Left, Whole
      <4> HIDE DEF before, after
      <4> QED BY <1>2, <4>4
    <3> QED BY <1>7, <3>1, <3>2, <3>3 DEF Disrupt
  <2>2. /\ (MaxFaults - (faults + 1)) * Whole \in Nat
        /\ (MaxFaults - faults) * Whole = (MaxFaults - (faults + 1)) * Whole + Whole
    BY <1>1, <1>2, <1>7, FaultCosts
  <2> DEFINE rest == (MaxFaults - (faults + 1)) * Whole
             all == (MaxFaults - faults) * Whole
  <2>3. rest \in Nat /\ all = rest + Whole /\ Fuel(a) = all + before /\ Fuel(a)' = rest + after
    BY <1>3, <1>7, <2>2
  <2> HIDE DEF before, after, rest, all
  <2> QED BY <1>2, <2>1, <2>3
<1> QED BY <1>1, <1>5, <1>6, <1>7, FaultsOfDisrupt

\* The steps of another actor, and an operation begun elsewhere, cost nothing.
LEMMA OtherStepCosts ==
  ASSUME Bounded, Bounded', NEW a \in Actors, h[a].pc # "idle", [Next]_vars,
         ~Proceed(a), ~Disrupt(a)
  PROVE  Fuel(a)' <= Fuel(a)
<1>1. Sound /\ h \in [Actors -> Handler]
  BY DEF Bounded, Sound, TypeOK
<1>2. h'[a] = h[a] /\ (faults' = faults \/ (faults < MaxFaults /\ faults' = faults + 1))
  <2>1. CASE UNCHANGED vars
    BY <2>1 DEF vars
  <2>2. ASSUME NEW b \in Actors, Start(b) PROVE h'[a] = h[a] /\ faults' = faults
    <3>1. faults' = faults
      BY <1>1, <2>2, FaultsOfProceed
    <3>2. h[b].pc = "idle"
      BY <2>2 DEF Start, StartBook, StartCancel, StartCheckIn, StartEdit, Delete, MayStart
    <3>3. h'[a] = h[a]
      BY <1>1, <2>2, <3>2 DEF Start, StartBook, StartCancel, StartCheckIn, StartEdit, Delete
    <3> QED BY <3>1, <3>3
  <2>3. ASSUME NEW b \in Actors, Proceed(b) \/ Disrupt(b)
        PROVE  h'[a] = h[a] /\ (faults' = faults \/ (faults < MaxFaults /\ faults' = faults + 1))
    <3>1. b # a
      BY <2>3
    <3>2. h'[a] = h[a]
      BY <1>1, <2>3, <3>1, OthersKept
    <3> QED BY <1>1, <2>3, <3>2, FaultsOfProceed, FaultsOfDisrupt
  <2> QED BY <2>1, <2>2, <2>3 DEF Next
<1>3. faults \in Nat /\ MaxFaults \in Nat /\ faults <= MaxFaults
  BY FaultsAssumption DEF Bounded, Sound, TypeOK
<1> DEFINE left == Left(PortOf[a], h[a])
           all == (MaxFaults - faults) * Whole
           rest == (MaxFaults - (faults + 1)) * Whole
<1>4. left \in Nat /\ Whole \in Nat
  BY <1>1, RemainingBound, Sizes DEF Whole
<1>5. all \in Nat
  <2>1. MaxFaults - faults \in Nat
    BY <1>3
  <2> QED BY <1>4, <2>1
<1>6. faults < MaxFaults => rest \in Nat /\ all = rest + Whole
  BY <1>3, <1>4, FaultCosts
<1>7. Fuel(a) = all + left /\ (Fuel(a)' = all + left \/ (faults < MaxFaults /\ Fuel(a)' = rest + left))
  BY <1>2 DEF Fuel
<1> HIDE DEF left, all, rest
<1> QED BY <1>4, <1>5, <1>6, <1>7

(***************************************************************************)
(* Every operation begun is bounded: each of its own steps, a fault among  *)
(* them or not, brings it closer to its end by a measure that no step of   *)
(* another handler raises, however the two interleave, with any number of  *)
(* actors of any port.  It is what OperationsEnd needs besides a scheduler *)
(* that goes on stepping it.                                               *)
(***************************************************************************)
OnlyCostsFuel ==
  \A a \in Actors :
    h[a].pc # "idle" => /\ Fuel(a) \in Nat /\ Fuel(a)' \in Nat /\ Fuel(a)' <= Fuel(a)
                        /\ Proceed(a) \/ Disrupt(a) => Fuel(a)' < Fuel(a)

THEOREM OperationsAreBounded == Spec => [][OnlyCostsFuel]_vars
<1>1. Bounded /\ [Next]_vars => OnlyCostsFuel
  <2> SUFFICES ASSUME Bounded, [Next]_vars, NEW a \in Actors, h[a].pc # "idle"
               PROVE  /\ Fuel(a) \in Nat /\ Fuel(a)' \in Nat /\ Fuel(a)' <= Fuel(a)
                      /\ Proceed(a) \/ Disrupt(a) => Fuel(a)' < Fuel(a)
    BY DEF OnlyCostsFuel
  <2>1. Bounded'
    BY BoundedNext
  <2>2. Fuel(a) \in Nat
    BY FuelType
  <2>3. Fuel(a)' \in Nat
    BY <2>1, FuelType
  <2>4. Proceed(a) \/ Disrupt(a) => Fuel(a)' < Fuel(a)
    BY <2>1, OwnStepCosts
  <2>5. ~(Proceed(a) \/ Disrupt(a)) => Fuel(a)' <= Fuel(a)
    BY <2>1, OtherStepCosts
  <2> QED BY <2>2, <2>3, <2>4, <2>5
<1> QED BY <1>1, BoundedInit, BoundedNext, PTL DEF Spec

-----------------------------------------------------------------------------
(* The second: wherever an operation stands, its next step is open to it.  *)

\* The bookings under way that have no number yet.
Unnumbered == {b \in Actors : h[b].op = "book" /\ h[b].target = 0}

\* What a handler needs for its next step.
PosedAt(r) ==
  /\ r.pc = "idle" => r = Resting
  /\ r.op = "book" /\ r.pc \in {"gate", "event", "count", "create"} => r.target = 0
  /\ r.pc = "reads" => r.unread # {}

Posed ==
  /\ Sound
  /\ \A a \in Actors : PosedAt(h[a])
  /\ IsFiniteSet(Unnumbered) /\ size + Cardinality(Unnumbered) <= MaxBookings

LEMMA RestingPosed == PosedAt(Resting) /\ Resting.op # "book"
BY DEF PosedAt, Resting

LEMMA AdvancePosed ==
  ASSUME NEW p \in PortProfile, NEW r, NEW s, PosedAt(r), Advances(p, r, s)
  PROVE  /\ PosedAt(s)
         /\ s = Resting \/ Creates(r, s, size) \/ (s.op = r.op /\ s.target = r.target)
<1> DEFINE Goal == /\ PosedAt(s)
                   /\ s = Resting \/ Creates(r, s, size) \/ (s.op = r.op /\ s.target = r.target)
<1>1. CASE s = Resting
  BY <1>1, RestingPosed
<1>2. CASE PassesGate(p, r, s) \/ Counts(r, s, Confirmed)
  BY <1>2 DEF PassesGate, Counts, SameTask, PosedAt
<1>3. CASE ReadsEvent(p, r, s, event) /\ s # Resting
  <2>1. Lists # {}
    BY DEF Lists
  <2> QED BY <1>3, <2>1 DEF ReadsEvent, Knows, PosedAt
<1>4. CASE Creates(r, s, size)
  BY <1>4 DEF Creates, PosedAt
<1>5. CASE Finds(p, r, s, status[r.target]) /\ s # Resting
  BY <1>5 DEF Finds, SameTask, PosedAt
<1>6. CASE Patches(r, s)
  BY <1>6 DEF Patches, SameTask, PosedAt
<1>7. CASE Saves(r, s, event, event') /\ s # Resting
  BY <1>7 DEF Saves, SameTask, PosedAt
<1>8. CASE Logs(p, r, s) /\ s # Resting
  <2>1. Lists # {}
    BY DEF Lists
  <2> QED BY <1>8, <2>1 DEF Logs, SameTask, PosedAt
<1>9. ASSUME NEW list \in Lists, ReadsList(r, s, list, Confirmed, Waitlisted) PROVE Goal
  <2>1. PICK c, w, promote, demote \in SUBSET Ids :
          ReadsLists(r, s, list, Confirmed, Waitlisted, c, w, promote, demote)
    BY <1>9 DEF ReadsList
  <2>2. Lists \ {list} # {}
    BY DEF Lists
  <2> QED BY <2>1, <2>2 DEF ReadsLists, SameTask, PosedAt
<1>10. ASSUME NEW i \in Ids, Fixes(r, s, i, status, status') PROVE Goal
  BY <1>10 DEF Fixes, SameTask, PosedAt
<1>11. CASE LogsFix(r, s, told, told')
  BY <1>11 DEF LogsFix, SameTask, PosedAt
<1>12. CASE EndsFix(p, r, s) /\ s # Resting
  BY <1>12 DEF EndsFix, SameTask, PosedAt
<1>13. CASE Rereads(r, s, status[r.target])
  BY <1>13 DEF Rereads, SameTask, PosedAt
<1>14. CASE Misses(p, r, s)
  BY <1>14 DEF Misses, PosedAt
<1> QED BY <1>1, <1>2, <1>3, <1>4, <1>5, <1>6, <1>7, <1>8, <1>9, <1>10, <1>11, <1>12, <1>13, <1>14
        DEF Advances

LEMMA ExpirePosed ==
  ASSUME Sound, NEW a \in Actors, Expire(a)
  PROVE  /\ PosedAt(h'[a]) /\ size' = size
         /\ h'[a].op = h[a].op
         /\ h[a].op = "book" => h[a].target = 0 \/ Room
<1>1. Expires(PortOf[a], h[a], h'[a])
  BY ExpireRecord
<1>2. h'[a].op = "book" => h'[a].target = 0
  BY <1>1, Records DEF Expire, Expires
<1>3. h'[a].pc \in {"count", "find", "patch", "save"}
  BY <1>1 DEF Expires
<1> QED BY <1>1, <1>2, <1>3 DEF Expire, Expires, PosedAt

\* One more or one less without a number, at most.
LEMMA CountOne ==
  ASSUME NEW S, IsFiniteSet(S), NEW x, NEW T, T \subseteq S \union {x}
  PROVE  /\ IsFiniteSet(T) /\ Cardinality(T) \in Nat /\ Cardinality(S) \in Nat
         /\ Cardinality(T) <= Cardinality(S) + 1
         /\ T \subseteq S => Cardinality(T) <= Cardinality(S)
         /\ x \in S /\ T \subseteq S \ {x} => Cardinality(T) <= Cardinality(S) - 1
<1>1. /\ IsFiniteSet(S \union {x}) /\ Cardinality(S) \in Nat /\ IsFiniteSet(S \ {x})
      /\ Cardinality(S \union {x}) = IF x \in S THEN Cardinality(S) ELSE Cardinality(S) + 1
      /\ Cardinality(S \ {x}) = IF x \in S THEN Cardinality(S) - 1 ELSE Cardinality(S)
  BY FS_AddElement, FS_RemoveElement, FS_CardinalityType
<1>2. IsFiniteSet(T) /\ Cardinality(T) <= Cardinality(S \union {x}) /\ Cardinality(T) \in Nat
  BY <1>1, FS_Subset, FS_CardinalityType
<1>3. T \subseteq S => Cardinality(T) <= Cardinality(S)
  BY FS_Subset
<1>4. T \subseteq S \ {x} => Cardinality(T) <= Cardinality(S \ {x})
  BY <1>1, FS_Subset
<1> QED BY <1>1, <1>2, <1>3, <1>4

\* A handler's own step.
LEMMA OwnPosed ==
  ASSUME Posed, NEW a \in Actors, Proceed(a) \/ Disrupt(a)
  PROVE  /\ \A b \in Actors : PosedAt(h'[b])
         /\ IsFiniteSet(Unnumbered') /\ size' + Cardinality(Unnumbered') <= MaxBookings
<1> DEFINE Goal == /\ PosedAt(h'[a])
                   /\ IsFiniteSet(Unnumbered') /\ size' + Cardinality(Unnumbered') <= MaxBookings
<1>1. Sound /\ PosedAt(h[a]) /\ IsFiniteSet(Unnumbered) /\ size + Cardinality(Unnumbered) <= MaxBookings
  BY DEF Posed
<1>2. size \in Nat /\ MaxBookings \in Nat /\ PortOf[a] \in PortProfile
  BY <1>1, SizeType, Records, MaxBookingsAssumption
<1>3. \A b \in Actors : b # a => h'[b] = h[b]
  BY <1>1, OthersKept
<1> SUFFICES Goal
  BY <1>3 DEF Posed
<1>4. Unnumbered' \subseteq Unnumbered \union {a}
  BY <1>3 DEF Unnumbered
<1>5. /\ a \in Unnumbered' <=> h'[a].op = "book" /\ h'[a].target = 0
      /\ a \in Unnumbered <=> h[a].op = "book" /\ h[a].target = 0
  BY DEF Unnumbered
<1>6. /\ a \notin Unnumbered' => Unnumbered' \subseteq Unnumbered \ {a}
      /\ a \in Unnumbered \/ a \notin Unnumbered' => Unnumbered' \subseteq Unnumbered
  BY <1>4
<1>7. /\ Unnumbered' \subseteq Unnumbered =>
           IsFiniteSet(Unnumbered') /\ Cardinality(Unnumbered') <= Cardinality(Unnumbered)
      /\ IsFiniteSet(Unnumbered') /\ Cardinality(Unnumbered') <= Cardinality(Unnumbered) + 1
      /\ a \in Unnumbered /\ a \notin Unnumbered' => Cardinality(Unnumbered') <= Cardinality(Unnumbered) - 1
      /\ Cardinality(Unnumbered) \in Nat /\ Cardinality(Unnumbered') \in Nat
  BY <1>1, <1>4, <1>6, CountOne
<1>8. ASSUME PosedAt(h'[a]), size' = size, a \in Unnumbered \/ a \notin Unnumbered' PROVE Goal
  BY <1>1, <1>2, <1>6, <1>7, <1>8
<1>9. CASE Proceed(a) \/ GateLost(a) \/ EventLost(a) \/ Fail(a)
  <2>1. /\ PosedAt(h'[a])
        /\ \/ h'[a] = Resting \/ Creates(h[a], h'[a], size)
           \/ h'[a].op = h[a].op /\ h'[a].target = h[a].target
    BY <1>1, <1>2, <1>9, ProceedAdvances, AdvancePosed
  <2>2. CASE Create(a)
    <3>1. h[a].pc = "create" /\ h[a].op = "book" /\ h'[a].target = size + 1 /\ size' = size + 1
      BY <1>1, <2>2, CreateRecord DEF Creates
    <3>2. a \in Unnumbered /\ a \notin Unnumbered'
      BY <1>1, <1>2, <1>5, <3>1 DEF PosedAt
    <3> QED BY <1>1, <1>2, <1>7, <2>1, <3>1, <3>2
  <2>3. CASE ~Create(a)
    <3>1. size' = size
      BY <1>9, <2>3 DEF Proceed, GateLost, EventLost, Fail, GateOpen, GateShut, ReadEvent, Count, Find, Patch,
                        Save, Log, ReadList, Fix, LogFix, EndFix, Reread, Report
    <3>2. a \in Unnumbered \/ a \notin Unnumbered'
      <4>1. CASE h'[a] = Resting
        BY <1>5, <4>1, RestingPosed
      <4>2. CASE Creates(h[a], h'[a], size)
        <5>1. h'[a].target # 0
          BY <1>2, <4>2 DEF Creates
        <5> QED BY <1>5, <5>1
      <4> QED BY <1>5, <2>1, <4>1, <4>2
    <3> QED BY <1>8, <2>1, <3>1, <3>2
  <2> QED BY <2>2, <2>3
<1>10. CASE FailFix(a) \/ CancelSibling(a)
  <2>1. FailsFix(h[a], h'[a])
    BY <1>1, <1>10, FailFixRecord
  <2>2. PosedAt(h'[a]) /\ h'[a].op = h[a].op /\ h'[a].target = h[a].target
    BY <1>1, <2>1 DEF FailsFix, SameTask, PosedAt
  <2>3. size' = size
    BY <1>10 DEF FailFix, CancelSibling
  <2> QED BY <1>5, <1>8, <2>2, <2>3
<1>11. CASE Expire(a)
  <2>1. /\ PosedAt(h'[a]) /\ size' = size /\ h'[a].op = h[a].op
        /\ h[a].op = "book" => h[a].target = 0 \/ Room
    BY <1>1, <1>11, ExpirePosed
  <2>2. CASE a \in Unnumbered \/ a \notin Unnumbered'
    BY <1>8, <2>1, <2>2
  <2>3. CASE a \notin Unnumbered /\ a \in Unnumbered'
    <3>1. Room
      BY <1>5, <2>1, <2>3
    <3>2. size + Cardinality(Unnumbered) < MaxBookings
      BY <3>1 DEF Room, Unnumbered
    <3> QED BY <1>2, <1>7, <2>1, <3>2
  <2> QED BY <2>2, <2>3
<1> QED BY <1>9, <1>10, <1>11 DEF Disrupt

LEMMA StartPosed ==
  ASSUME Posed, NEW a \in Actors, Start(a)
  PROVE  /\ \A b \in Actors : PosedAt(h'[b])
         /\ IsFiniteSet(Unnumbered') /\ size' + Cardinality(Unnumbered') <= MaxBookings
<1> DEFINE Goal == /\ \A b \in Actors : PosedAt(h'[b])
                   /\ IsFiniteSet(Unnumbered') /\ size' + Cardinality(Unnumbered') <= MaxBookings
<1>1. /\ Sound /\ PosedAt(h[a]) /\ IsFiniteSet(Unnumbered) /\ size + Cardinality(Unnumbered) <= MaxBookings
      /\ \A b \in Actors : PosedAt(h[b])
  BY DEF Posed
<1>2. /\ h \in [Actors -> Handler] /\ size \in Nat /\ MaxBookings \in Nat
      /\ PortOf[a].book.first \in {"event", "gate"} /\ PortOf[a].cancel.event \in {"before", "after"}
  BY <1>1, SizeType, Records, MaxBookingsAssumption DEF PortProfile, BookProfile, CancelProfile
<1>3. size' = size
  BY DEF Start, StartBook, StartCancel, StartCheckIn, StartEdit, Delete
<1>4. ASSUME NEW u \in Users, StartBook(a, u) PROVE Goal
  <2>1. h' = [h EXCEPT ![a] = [Resting EXCEPT !.pc = PortOf[a].book.first, !.op = "book", !.user = u]]
        /\ Room
    BY <1>4 DEF StartBook
  <2>2. PosedAt(h'[a])
    BY <1>2, <2>1 DEF PosedAt, Resting
  <2>3. \A b \in Actors : b # a => h'[b] = h[b]
    BY <1>2, <2>1
  <2>4. Unnumbered' \subseteq Unnumbered \union {a}
    BY <2>3 DEF Unnumbered
  <2>6. size + Cardinality(Unnumbered) < MaxBookings
    BY <2>1 DEF Room, Unnumbered
  <2>5. IsFiniteSet(Unnumbered') /\ Cardinality(Unnumbered') <= Cardinality(Unnumbered) + 1
        /\ Cardinality(Unnumbered) \in Nat /\ Cardinality(Unnumbered') \in Nat
    BY <1>1, <2>4, CountOne
  <2> QED BY <1>1, <1>2, <1>3, <2>2, <2>3, <2>5, <2>6
<1>5. ASSUME NEW r, h' = [h EXCEPT ![a] = r], PosedAt(r), r.op # "book" PROVE Goal
  <2>1. h'[a] = r /\ \A b \in Actors : b # a => h'[b] = h[b]
    BY <1>2, <1>5
  <2>2. Unnumbered' \subseteq Unnumbered
    BY <1>5, <2>1 DEF Unnumbered
  <2>3. IsFiniteSet(Unnumbered') /\ Cardinality(Unnumbered') <= Cardinality(Unnumbered)
        /\ Cardinality(Unnumbered) \in Nat /\ Cardinality(Unnumbered') \in Nat
    BY <1>1, <2>2, CountOne
  <2>4. size' + Cardinality(Unnumbered') <= MaxBookings
    BY <1>1, <1>2, <1>3, <2>3
  <2> QED BY <1>1, <1>5, <2>1, <2>3, <2>4
<1>6. ASSUME NEW i \in Created, StartCancel(a, i) \/ StartCheckIn(a, i) PROVE Goal
  <2>1. CASE StartCancel(a, i)
    <3> DEFINE r == [Resting EXCEPT !.pc = IF PortOf[a].cancel.refetch THEN "find" ELSE BeforeWrite(a),
                                    !.op = "cancel", !.user = owner[i], !.target = i]
    <3>1. h' = [h EXCEPT ![a] = r]
      BY <2>1 DEF StartCancel
    <3>2. r.pc \in {"find", "event", "patch"} /\ r.op = "cancel"
      BY <1>2 DEF Resting, BeforeWrite
    <3> HIDE DEF r
    <3>3. PosedAt(r) /\ r.op # "book"
      BY <3>2 DEF PosedAt
    <3> QED BY <1>5, <3>1, <3>3
  <2>2. CASE StartCheckIn(a, i)
    <3> DEFINE r == [Resting EXCEPT !.pc = "find", !.op = "checkin", !.target = i]
    <3>1. h' = [h EXCEPT ![a] = r]
      BY <2>2 DEF StartCheckIn
    <3>2. PosedAt(r) /\ r.op # "book"
      BY DEF Resting, PosedAt
    <3> QED BY <1>5, <3>1, <3>2
  <2> QED BY <1>6, <2>1, <2>2
<1>7. ASSUME NEW c \in Capacities, StartEdit(a, c) PROVE Goal
  <2> DEFINE r == [Resting EXCEPT !.pc = "save", !.op = "edit", !.capacity = c]
  <2>1. h' = [h EXCEPT ![a] = r]
    BY <1>7 DEF StartEdit
  <2>2. PosedAt(r) /\ r.op # "book"
    BY DEF Resting, PosedAt
  <2> QED BY <1>5, <2>1, <2>2
<1>8. CASE Delete(a)
  <2>1. h' = h
    BY <1>8 DEF Delete
  <2>2. Unnumbered' = Unnumbered
    BY <2>1 DEF Unnumbered
  <2> QED BY <1>1, <1>3, <2>1, <2>2
<1> QED BY <1>4, <1>6, <1>7, <1>8 DEF Start

LEMMA PosedInit == Init => Posed
<1> SUFFICES ASSUME Init PROVE Posed
  OBVIOUS
<1>1. Sound /\ \A a \in Actors : h[a] = Resting
  BY SoundInit DEF Init
<1>2. Unnumbered = {}
  BY <1>1, RestingPosed DEF Unnumbered
<1>3. size = 0 /\ MaxBookings \in Nat
  BY MaxBookingsAssumption DEF Init
<1> QED BY <1>1, <1>2, <1>3, RestingPosed, FS_EmptySet DEF Posed

LEMMA PosedNext == Posed /\ [Next]_vars => Posed'
<1> SUFFICES ASSUME Posed, [Next]_vars PROVE Posed'
  OBVIOUS
<1>1. Sound'
  BY SoundNext DEF Posed
<1>2. ASSUME NEW a \in Actors, Start(a) \/ Proceed(a) \/ Disrupt(a) PROVE Posed'
  BY <1>1, <1>2, StartPosed, OwnPosed DEF Posed
<1>3. CASE UNCHANGED vars
  BY <1>3 DEF vars, Posed, Sound, TypeOK, Unnumbered
<1> QED BY <1>2, <1>3 DEF Next

(***************************************************************************)
(* No operation is left without a step it may take: a booking's number     *)
(* waits for it, of two lists still to come there is one whose turn it is, *)
(* and of the corrections still to be made there is a next one.  Wherever  *)
(* else a handler stands its step is not guarded.                          *)
(***************************************************************************)
NobodyStuck ==
  \A a \in Actors :
    /\ h[a].pc = "create" => size < MaxBookings
    /\ h[a].pc = "reads" =>
         \E list \in h[a].unread :
           ~(/\ PortOf[a].reconcile.reads = "sequential" /\ list = "waitlisted"
             /\ "confirmed" \in h[a].unread)
    /\ h[a].pc = "fix" /\ h[a].logs = {} /\ h[a].promote \union h[a].demote # {} =>
         \E i \in h[a].promote \union h[a].demote : InTurn(a, i)

THEOREM SomeStepIsOpen == Spec => []NobodyStuck
<1>1. Posed => NobodyStuck
  <2> SUFFICES ASSUME Posed, NEW a \in Actors
               PROVE  /\ h[a].pc = "create" => size < MaxBookings
                      /\ h[a].pc = "reads" =>
                           \E list \in h[a].unread :
                             ~(/\ PortOf[a].reconcile.reads = "sequential" /\ list = "waitlisted"
                               /\ "confirmed" \in h[a].unread)
                      /\ h[a].pc = "fix" /\ h[a].logs = {} /\ h[a].promote \union h[a].demote # {} =>
                           \E i \in h[a].promote \union h[a].demote : InTurn(a, i)
    BY DEF NobodyStuck
  <2>1. Sound /\ PosedAt(h[a]) /\ h[a] \in Handler /\ FitsAt(h[a], size)
    BY Records DEF Posed
  <2>2. ASSUME h[a].pc = "create" PROVE size < MaxBookings
    <3>1. a \in Unnumbered
      BY <2>1, <2>2 DEF PosedAt, FitsAt, Unnumbered
    <3>2. Cardinality(Unnumbered) \in Nat /\ Cardinality(Unnumbered) # 0
      BY <3>1, FS_EmptySet, FS_CardinalityType DEF Posed
    <3> QED BY <2>1, <3>2, SizeType, MaxBookingsAssumption DEF Posed
  <2>3. ASSUME h[a].pc = "reads"
        PROVE  \E list \in h[a].unread :
                 ~(/\ PortOf[a].reconcile.reads = "sequential" /\ list = "waitlisted"
                   /\ "confirmed" \in h[a].unread)
    <3>1. h[a].unread # {}
      BY <2>1, <2>3 DEF PosedAt
    <3> QED BY <3>1
  <2>4. ASSUME h[a].logs = {}, h[a].promote \union h[a].demote # {}
        PROVE  \E i \in h[a].promote \union h[a].demote : InTurn(a, i)
    <3>1. h[a].promote \in SUBSET (1..MaxBookings) /\ h[a].demote \in SUBSET (1..MaxBookings)
      BY <2>1 DEF Handler, Ids
    <3>2. CASE h[a].promote # {}
      <4>1. PICK i \in h[a].promote : \A j \in h[a].promote : i <= j
        BY <3>1, <3>2, MaxBookingsAssumption, Earliest
      <4> QED BY <2>4, <4>1 DEF InTurn
    <3>3. CASE h[a].promote = {}
      <4>1. PICK i \in h[a].demote : \A j \in h[a].demote : i <= j
        BY <2>4, <3>1, <3>3, MaxBookingsAssumption, Earliest
      <4> QED BY <2>4, <3>3, <4>1 DEF InTurn
    <3> QED BY <3>2, <3>3
  <2> QED BY <2>2, <2>3, <2>4
<1> QED BY <1>1, PosedInit, PosedNext, PTL DEF Spec

=============================================================================
