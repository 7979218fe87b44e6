------------------------- MODULE CapacityLoop_proofs -------------------------
(***************************************************************************)
(* The walk of the code over its sorted list corrects what Seating says:   *)
(* for any number of bookings, any two lists a race may deliver, any       *)
(* capacity, and any creation times that follow the order of creation,     *)
(* ties among them.                                                        *)
(*                                                                         *)
(* The argument: the sort puts an entry where as many entries come before  *)
(* it, and as no two entries come before each other, every place is taken  *)
(* once.  The entries of its own list before it are the bookings created   *)
(* earlier; those of the other list are told apart by their times.  So the *)
(* place of an entry is the index Seating counts, and the walk compares it *)
(* with the capacity.                                                      *)
(***************************************************************************)
EXTENDS CapacityLoop, FiniteSetTheorems, SequenceTheorems, TLAPS

-----------------------------------------------------------------------------
(* Counting.                                                               *)

\* In a finite set that B orders strictly, the number of members before one is
\* its place: smaller for an earlier member, and every place is taken.
LEMMA Places ==
  ASSUME NEW D, IsFiniteSet(D), NEW B \in SUBSET (D \X D),
         \A p \in D : <<p, p>> \notin B,
         \A p, q, r \in D : <<p, q>> \in B /\ <<q, r>> \in B => <<p, r>> \in B,
         \A p, q \in D : p = q \/ <<p, q>> \in B \/ <<q, p>> \in B
  PROVE  LET place(p) == Cardinality({q \in D : <<q, p>> \in B})
             n == Cardinality(D)
         IN  /\ n \in Nat
             /\ \A p \in D : place(p) \in 0..(n - 1)
             /\ \A p, q \in D : <<p, q>> \in B <=> place(p) < place(q)
             /\ \A k \in 0..(n - 1) : \E p \in D : place(p) = k
             /\ \A p, q \in D : place(p) = place(q) => p = q
<1> DEFINE pre(p) == {q \in D : <<q, p>> \in B}
           place(p) == Cardinality(pre(p))
           n == Cardinality(D)
           f == [p \in D |-> place(p)]
<1>1. n \in Nat
  BY FS_CardinalityType
<1>2. ASSUME NEW p \in D PROVE place(p) \in 0..(n - 1)
  <2>1. pre(p) \subseteq D /\ pre(p) # D
    OBVIOUS
  <2>2. IsFiniteSet(pre(p)) /\ place(p) <= n /\ place(p) # n
    BY <2>1, FS_Subset
  <2>3. place(p) \in Nat
    BY <2>2, FS_CardinalityType
  <2> HIDE DEF pre, place, n
  <2> QED BY <1>1, <2>2, <2>3
<1>3. ASSUME NEW p \in D, NEW q \in D, <<p, q>> \in B PROVE place(p) < place(q)
  <2>1. pre(p) \subseteq pre(q) /\ p \in pre(q) /\ p \notin pre(p)
    BY <1>3
  <2>2. IsFiniteSet(pre(q))
    BY FS_Subset
  <2>3. place(p) <= place(q) /\ place(p) # place(q)
    BY <2>1, <2>2, FS_Subset
  <2> HIDE DEF pre, place, n
  <2> QED BY <1>1, <1>2, <2>3
<1>4. ASSUME NEW p \in D, NEW q \in D PROVE <<p, q>> \in B <=> place(p) < place(q)
  <2> HIDE DEF pre, place, n
  <2>1. place(p) \in Nat /\ place(q) \in Nat
    BY <1>1, <1>2
  <2>2. CASE p = q
    BY <2>1, <2>2
  <2>3. CASE <<p, q>> \in B
    BY <1>3, <2>3
  <2>4. CASE <<q, p>> \in B
    BY <1>3, <2>1, <2>4
  <2> QED BY <2>2, <2>3, <2>4
<1>5. ASSUME NEW p \in D, NEW q \in D, place(p) = place(q) PROVE p = q
  <2> HIDE DEF pre, place, n
  <2>1. place(p) \in Nat /\ place(q) \in Nat
    BY <1>1, <1>2
  <2>2. <<p, q>> \notin B /\ <<q, p>> \notin B
    BY <1>3, <1>5, <2>1
  <2> QED BY <2>2
<1>6. ASSUME NEW k \in 0..(n - 1) PROVE \E p \in D : place(p) = k
  <2> HIDE DEF pre, place, n
  <2>1. f \in [D -> 0..(n - 1)]
    BY <1>2
  <2>2. f \in Injection(D, 0..(n - 1))
    BY <1>5, <2>1 DEF Injection, IsInjective
  <2>3. IsFiniteSet(0..(n - 1)) /\ Cardinality(0..(n - 1)) = n
    BY <1>1, FS_Interval
  <2>4. f \in Surjection(D, 0..(n - 1))
    BY <2>2, <2>3, FS_Injection DEF n
  <2> QED BY <2>4 DEF Surjection
<1> QED BY <1>1, <1>2, <1>4, <1>5, <1>6

\* The same of bookings in the order of their creation.
LEMMA Line ==
  ASSUME NEW n \in Nat, NEW S \in SUBSET (1..n)
  PROVE  /\ IsFiniteSet(S) /\ Cardinality(S) \in Nat
         /\ \A i \in S : Ahead(S, i) \in 0..(Cardinality(S) - 1)
         /\ \A i, j \in S : i < j <=> Ahead(S, i) < Ahead(S, j)
         /\ \A k \in 0..(Cardinality(S) - 1) : \E i \in S : Ahead(S, i) = k
         /\ \A i, j \in S : Ahead(S, i) = Ahead(S, j) => i = j
<1> DEFINE B == {e \in S \X S : e[1] < e[2]}
<1>1. IsFiniteSet(S)
  <2>1. IsFiniteSet(1..n)
    BY FS_Interval
  <2> QED BY <2>1, FS_Subset
<1>2. \A p, q \in S : <<p, q>> \in B <=> p < q
  OBVIOUS
<1>3. \A i \in S : Ahead(S, i) = Cardinality({q \in S : <<q, i>> \in B})
  <2> TAKE i \in S
  <2>1. {q \in S : <<q, i>> \in B} = {q \in S : q < i}
    BY <1>2
  <2> QED BY <2>1 DEF Ahead
<1>4. S \subseteq Nat /\ B \in SUBSET (S \X S)
  OBVIOUS
<1> HIDE DEF B
<1>5. /\ \A p \in S : <<p, p>> \notin B
      /\ \A p, q, r \in S : <<p, q>> \in B /\ <<q, r>> \in B => <<p, r>> \in B
      /\ \A p, q \in S : p = q \/ <<p, q>> \in B \/ <<q, p>> \in B
  BY <1>2, <1>4
<1> DEFINE place(p) == Cardinality({q \in S : <<q, p>> \in B})
<1>6. /\ Cardinality(S) \in Nat
      /\ \A p \in S : place(p) \in 0..(Cardinality(S) - 1)
      /\ \A p, q \in S : <<p, q>> \in B <=> place(p) < place(q)
      /\ \A k \in 0..(Cardinality(S) - 1) : \E p \in S : place(p) = k
      /\ \A p, q \in S : place(p) = place(q) => p = q
  BY <1>1, <1>4, <1>5, Places
<1>7. \A i \in S : Ahead(S, i) = place(i)
  BY <1>3
<1> HIDE DEF place
<1>8. /\ \A i \in S : Ahead(S, i) \in 0..(Cardinality(S) - 1)
      /\ \A k \in 0..(Cardinality(S) - 1) : \E i \in S : Ahead(S, i) = k
  BY <1>6, <1>7
<1>9. ASSUME NEW i \in S, NEW j \in S
      PROVE  /\ i < j <=> Ahead(S, i) < Ahead(S, j)
             /\ Ahead(S, i) = Ahead(S, j) => i = j
  <2>1. Ahead(S, i) = place(i) /\ Ahead(S, j) = place(j)
    BY <1>7
  <2>2. <<i, j>> \in B <=> i < j
    BY <1>2
  <2>3. (<<i, j>> \in B <=> place(i) < place(j)) /\ (place(i) = place(j) => i = j)
    BY <1>6
  <2> QED BY <2>1, <2>2, <2>3
<1> QED BY <1>1, <1>6, <1>8, <1>9

-----------------------------------------------------------------------------
(* The concatenation of the two answers.                                   *)

Entry == [id : Nat, status : {"confirmed", "waitlisted"}]
Concatenated(C, W) == Fetched(C, "confirmed") \o Fetched(W, "waitlisted")

LEMMA Answer ==
  ASSUME NEW n \in Nat, NEW S \in SUBSET (1..n), NEW status \in {"confirmed", "waitlisted"}
  PROVE  LET F == Fetched(S, status)
         IN  /\ F \in Seq(Entry) /\ Len(F) = Cardinality(S)
             /\ \A k \in 1..Cardinality(S) :
                  F[k].status = status /\ F[k].id \in S /\ Ahead(S, F[k].id) = k - 1
<1> DEFINE F == Fetched(S, status)
           c == Cardinality(S)
<1>1. c \in Nat
  BY Line
<1>2. ASSUME NEW k \in 1..c
      PROVE  F[k] \in Entry /\ F[k].status = status /\ F[k].id \in S /\ Ahead(S, F[k].id) = k - 1
  <2> DEFINE e == CHOOSE i \in S : Ahead(S, i) = k - 1
  <2>1. F[k] = [id |-> e, status |-> status]
    BY <1>2 DEF Fetched
  <2>2. k - 1 \in 0..(c - 1)
    BY <1>1, <1>2
  <2>3. \E i \in S : Ahead(S, i) = k - 1
    BY <2>2, Line
  <2>4. e \in S /\ Ahead(S, e) = k - 1
    BY <2>3
  <2> HIDE DEF e, F
  <2>5. e \in Nat
    BY <2>4
  <2> QED BY <2>1, <2>4, <2>5 DEF Entry
<1>3. F \in [1..c -> Entry]
  <2>1. DOMAIN F = 1..c /\ F = [k \in 1..c |-> F[k]]
    BY DEF Fetched
  <2> HIDE DEF F, c
  <2> QED BY <1>2, <2>1
<1> HIDE DEF F, c
<1>4. F \in Seq(Entry) /\ Len(F) = c
  BY <1>1, <1>3, SeqDef, LenProperties
<1> QED BY <1>2, <1>4 DEF F, c

LEMMA Concatenation ==
  ASSUME NEW n \in Nat, NEW C \in SUBSET (1..n), NEW W \in SUBSET (1..n)
  PROVE  LET L == Concatenated(C, W)
             c == Cardinality(C)
             w == Cardinality(W)
         IN  /\ c \in Nat /\ w \in Nat
             /\ L \in Seq(Entry) /\ Len(L) = c + w /\ DOMAIN L = 1..(c + w)
             /\ \A p \in 1..c :
                  L[p].status = "confirmed" /\ L[p].id \in C /\ Ahead(C, L[p].id) = p - 1
             /\ \A p \in (c + 1)..(c + w) :
                  L[p].status = "waitlisted" /\ L[p].id \in W /\ Ahead(W, L[p].id) = p - c - 1
<1> DEFINE F == Fetched(C, "confirmed")
           G == Fetched(W, "waitlisted")
           L == Concatenated(C, W)
           c == Cardinality(C)
           w == Cardinality(W)
<1>1. c \in Nat /\ w \in Nat
  BY Line
<1>2. /\ F \in Seq(Entry) /\ Len(F) = c
      /\ \A k \in 1..c : F[k].status = "confirmed" /\ F[k].id \in C /\ Ahead(C, F[k].id) = k - 1
  BY Answer
<1>3. /\ G \in Seq(Entry) /\ Len(G) = w
      /\ \A k \in 1..w : G[k].status = "waitlisted" /\ G[k].id \in W /\ Ahead(W, G[k].id) = k - 1
  BY Answer
<1>4. L = F \o G
  BY DEF Concatenated
<1> HIDE DEF F, G, L, c, w
<1>5. /\ L \in Seq(Entry) /\ Len(L) = c + w
      /\ \A p \in 1..(c + w) : L[p] = IF p <= c THEN F[p] ELSE G[p - c]
  BY <1>2, <1>3, <1>4, ConcatProperties
<1>6. DOMAIN L = 1..(c + w)
  BY <1>5, LenProperties
<1>7. ASSUME NEW p \in 1..c
      PROVE  L[p].status = "confirmed" /\ L[p].id \in C /\ Ahead(C, L[p].id) = p - 1
  <2>1. p \in 1..(c + w) /\ p <= c
    BY <1>1
  <2>2. L[p] = F[p]
    BY <1>5, <2>1
  <2> QED BY <1>2, <2>2
<1>8. ASSUME NEW p \in (c + 1)..(c + w)
      PROVE  L[p].status = "waitlisted" /\ L[p].id \in W /\ Ahead(W, L[p].id) = p - c - 1
  <2>1. p \in 1..(c + w) /\ ~(p <= c) /\ p - c \in 1..w
    BY <1>1
  <2>2. L[p] = G[p - c]
    BY <1>5, <2>1
  <2> QED BY <1>3, <2>1, <2>2
<1> QED BY <1>1, <1>5, <1>6, <1>7, <1>8 DEF L, c, w

-----------------------------------------------------------------------------
(* The sorted list.                                                        *)

\* Creation times in the order of creation.
Monotone(n, time) == time \in [1..n -> Nat] /\ \A i, j \in 1..n : i <= j => time[i] <= time[j]

\* The positions of P that hold a booking of X.
Holding(L, P, X) == {p \in P : L[p].id \in X}

\* The positions of the answer S, which begin after `first', hold its bookings.
Span(first, S) == (first + 1)..(first + Cardinality(S))
Answers(L, first, S) ==
  \A p \in Span(first, S) : L[p].id \in S /\ Ahead(S, L[p].id) = p - first - 1

\* The positions the sort puts before position p.
Earlier(L, time, p) == {q \in DOMAIN L : Before(L, time, q, p)}

\* A query's answer holds as many bookings of X as X has.
LEMMA Matched ==
  ASSUME NEW n \in Nat, NEW S \in SUBSET (1..n), NEW first, first \in Nat, NEW L,
         Answers(L, first, S), NEW X \in SUBSET S
  PROVE  LET Q == Holding(L, Span(first, S), X)
         IN  IsFiniteSet(Q) /\ Cardinality(Q) = Cardinality(X)
<1> DEFINE c == Cardinality(S)
           Q == Holding(L, Span(first, S), X)
           f == [p \in Q |-> L[p].id]
<1>1. /\ c \in Nat /\ \A i \in S : Ahead(S, i) \in 0..(c - 1)
      /\ \A i, j \in S : Ahead(S, i) = Ahead(S, j) => i = j
  BY Line
<1>2. \A p \in Q : p \in Nat /\ L[p].id \in X /\ L[p].id \in S /\ Ahead(S, L[p].id) = p - first - 1
  BY <1>1 DEF Holding, Answers, Span
<1>3. \A i \in X : \E p \in Q : L[p].id = i
  <2> TAKE i \in X
  <2> DEFINE p == Ahead(S, i) + first + 1
  <2>1. Ahead(S, i) \in 0..(c - 1)
    BY <1>1
  <2>2. p \in Span(first, S) /\ p - first - 1 = Ahead(S, i)
    <3>1. Span(first, S) = (first + 1)..(first + c)
      BY DEF Span
    <3> HIDE DEF c
    <3> QED BY <1>1, <2>1, <3>1
  <2>3. L[p].id \in S /\ Ahead(S, L[p].id) = p - first - 1
    BY <2>2 DEF Answers
  <2>4. L[p].id = i
    <3> HIDE DEF p
    <3> QED BY <1>1, <2>2, <2>3
  <2> QED BY <2>2, <2>4 DEF Holding
<1>4. IsFiniteSet(Q)
  <2>1. IsFiniteSet((first + 1)..(first + c))
    <3> HIDE DEF c
    <3> QED BY <1>1, FS_Interval
  <2> QED BY <2>1, FS_Subset DEF Holding, Span
<1>5. f \in Bijection(Q, X)
  <2> HIDE DEF Q
  <2>1. f \in [Q -> X]
    BY <1>2
  <2>2. \A p, q \in Q : f[p] = f[q] => p = q
    BY <1>2
  <2>3. \A i \in X : \E p \in Q : f[p] = i
    BY <1>3
  <2> QED BY <2>1, <2>2, <2>3 DEF Bijection, Injection, Surjection, IsInjective
<1> HIDE DEF Q, f
<1>6. Cardinality(Q) = Cardinality(X)
  BY <1>4, <1>5, FS_Bijection DEF ExistsBijection
<1> QED BY <1>4, <1>6 DEF Q

\* The position of an entry in the sorted list is the index Seating counts.
LEMMA Counted ==
  ASSUME NEW n \in Nat, NEW C \in SUBSET (1..n), NEW W \in SUBSET (1..n),
         NEW time, Monotone(n, time)
  PROVE  LET L == Concatenated(C, W)
             c == Cardinality(C)
             w == Cardinality(W)
         IN  /\ \A p \in 1..c :
                  Cardinality(Earlier(L, time, p)) = ConfirmedIndex(C, W, time, L[p].id)
             /\ \A p \in (c + 1)..(c + w) :
                  Cardinality(Earlier(L, time, p)) = WaitlistedIndex(C, W, time, L[p].id)
<1> DEFINE L == Concatenated(C, W)
           c == Cardinality(C)
           w == Cardinality(W)
<1>1. /\ c \in Nat /\ w \in Nat
      /\ L \in Seq(Entry) /\ Len(L) = c + w /\ DOMAIN L = 1..(c + w)
      /\ \A p \in 1..c :
           L[p].status = "confirmed" /\ L[p].id \in C /\ Ahead(C, L[p].id) = p - 1
      /\ \A p \in (c + 1)..(c + w) :
           L[p].status = "waitlisted" /\ L[p].id \in W /\ Ahead(W, L[p].id) = p - c - 1
  BY Concatenation
<1>2. /\ \A i, j \in C : i < j <=> Ahead(C, i) < Ahead(C, j)
      /\ \A i, j \in W : i < j <=> Ahead(W, i) < Ahead(W, j)
  BY Line
<1>3. /\ \A X \in SUBSET C : LET Q == Holding(L, 1..c, X)
                             IN  IsFiniteSet(Q) /\ Cardinality(Q) = Cardinality(X)
      /\ \A X \in SUBSET W : LET Q == Holding(L, (c + 1)..(c + w), X)
                             IN  IsFiniteSet(Q) /\ Cardinality(Q) = Cardinality(X)
  <2> HIDE DEF L
  <2>1. Span(0, C) = 1..c /\ Span(c, W) = (c + 1)..(c + w)
    <3>1. Span(0, C) = (0 + 1)..(0 + c) /\ Span(c, W) = (c + 1)..(c + w)
      BY DEF Span
    <3> HIDE DEF c, w
    <3> QED BY <1>1, <3>1
  <2>2. Answers(L, 0, C) /\ Answers(L, c, W)
    <3> HIDE DEF c, w
    <3> QED BY <1>1, <2>1 DEF Answers
  <2>3. ASSUME NEW X \in SUBSET C
        PROVE  LET Q == Holding(L, Span(0, C), X)
               IN  IsFiniteSet(Q) /\ Cardinality(Q) = Cardinality(X)
    BY <2>2, Matched
  <2>4. ASSUME NEW X \in SUBSET W
        PROVE  LET Q == Holding(L, Span(c, W), X)
               IN  IsFiniteSet(Q) /\ Cardinality(Q) = Cardinality(X)
    <3>1. c \in Nat
      BY <1>1
    <3> HIDE DEF c, w
    <3> QED BY <2>2, <3>1, Matched
  <2> HIDE DEF c, w
  <2> QED BY <2>1, <2>3, <2>4
<1> HIDE DEF L, c, w
<1>4. ASSUME NEW P, NEW Q, NEW p, Earlier(L, time, p) = P \cup Q, P \cap Q = {},
             IsFiniteSet(P), IsFiniteSet(Q)
      PROVE  Cardinality(Earlier(L, time, p)) = Cardinality(P) + Cardinality(Q)
  <2>1. Cardinality(P \cap Q) = 0
    BY <1>4, FS_EmptySet
  <2>2. Cardinality(P) \in Nat /\ Cardinality(Q) \in Nat
    BY <1>4, FS_CardinalityType
  <2>3. Cardinality(P \cup Q) = Cardinality(P) + Cardinality(Q) - Cardinality(P \cap Q)
    BY <1>4, FS_Union
  <2> QED BY <1>4, <2>1, <2>2, <2>3
<1>5. ASSUME NEW p \in 1..c
      PROVE  Cardinality(Earlier(L, time, p)) = ConfirmedIndex(C, W, time, L[p].id)
  <2> DEFINE i == L[p].id
             X == {j \in C : j < i}
             Y == {j \in W : time[j] < time[i]}
             P == Holding(L, 1..c, X)
             Q == Holding(L, (c + 1)..(c + w), Y)
  <2>1. i \in C /\ i \in 1..n
    BY <1>1
  <2>2. ASSUME NEW q \in 1..c PROVE Before(L, time, q, p) <=> L[q].id \in X
    <3> DEFINE j == L[q].id
    <3>1. j \in C /\ j \in 1..n /\ Ahead(C, j) = q - 1 /\ Ahead(C, i) = p - 1
      BY <1>1
    <3>2. j < i <=> Ahead(C, j) < Ahead(C, i)
      BY <1>2, <2>1, <3>1
    <3>3. j < i <=> q < p
      BY <1>1, <3>1, <3>2
    <3>4. /\ time[i] \in Nat /\ time[j] \in Nat
          /\ j <= i => time[j] <= time[i]
          /\ i <= j => time[i] <= time[j]
      BY <2>1, <3>1 DEF Monotone
    <3>5. Before(L, time, q, p) <=> time[j] < time[i] \/ (time[j] = time[i] /\ q < p)
      BY DEF Before
    <3> HIDE DEF i, j
    <3>6. Before(L, time, q, p) <=> j < i
      BY <2>1, <3>1, <3>3, <3>4, <3>5
    <3> QED BY <3>1, <3>6 DEF j
  <2>3. ASSUME NEW q \in (c + 1)..(c + w) PROVE Before(L, time, q, p) <=> L[q].id \in Y
    <3>1. L[q].id \in W /\ ~(q < p)
      BY <1>1
    <3> QED BY <3>1 DEF Before
  <2>4. Earlier(L, time, p) = P \cup Q
    <3>1. 1..(c + w) = (1..c) \cup ((c + 1)..(c + w))
      BY <1>1
    <3> QED BY <1>1, <2>2, <2>3, <3>1 DEF Earlier, Holding
  <2>5. P \cap Q = {}
    BY <1>1 DEF Holding
  <2>6. IsFiniteSet(P) /\ Cardinality(P) = Cardinality(X)
    BY <1>3
  <2>7. IsFiniteSet(Q) /\ Cardinality(Q) = Cardinality(Y)
    BY <1>3
  <2>8. ConfirmedIndex(C, W, time, i) = Cardinality(X) + Cardinality(Y)
    BY DEF ConfirmedIndex, Ahead
  <2> HIDE DEF X, Y, P, Q
  <2> QED BY <1>4, <2>4, <2>5, <2>6, <2>7, <2>8
<1>6. ASSUME NEW p \in (c + 1)..(c + w)
      PROVE  Cardinality(Earlier(L, time, p)) = WaitlistedIndex(C, W, time, L[p].id)
  <2> DEFINE i == L[p].id
             X == {j \in C : time[j] <= time[i]}
             Y == {j \in W : j < i}
             P == Holding(L, 1..c, X)
             Q == Holding(L, (c + 1)..(c + w), Y)
  <2>1. i \in W /\ i \in 1..n /\ time[i] \in Nat
    BY <1>1 DEF Monotone
  <2>2. ASSUME NEW q \in 1..c PROVE Before(L, time, q, p) <=> L[q].id \in X
    <3>1. L[q].id \in C /\ q < p /\ time[L[q].id] \in Nat
      <4>1. L[q].id \in C /\ q < p
        BY <1>1
      <4> QED BY <4>1 DEF Monotone
    <3>2. Before(L, time, q, p) <=> time[L[q].id] <= time[i]
      <4> DEFINE j == L[q].id
      <4>1. Before(L, time, q, p) <=> time[j] < time[i] \/ (time[j] = time[i] /\ q < p)
        BY DEF Before
      <4> HIDE DEF i
      <4> QED BY <2>1, <3>1, <4>1
    <3> QED BY <3>1, <3>2
  <2>3. ASSUME NEW q \in (c + 1)..(c + w) PROVE Before(L, time, q, p) <=> L[q].id \in Y
    <3> DEFINE j == L[q].id
    <3>1. j \in W /\ j \in 1..n /\ Ahead(W, j) = q - c - 1 /\ Ahead(W, i) = p - c - 1
      BY <1>1
    <3>2. j < i <=> Ahead(W, j) < Ahead(W, i)
      BY <1>2, <2>1, <3>1
    <3>3. j < i <=> q < p
      BY <1>1, <3>1, <3>2
    <3>4. /\ time[i] \in Nat /\ time[j] \in Nat
          /\ j <= i => time[j] <= time[i]
          /\ i <= j => time[i] <= time[j]
      BY <2>1, <3>1 DEF Monotone
    <3>5. Before(L, time, q, p) <=> time[j] < time[i] \/ (time[j] = time[i] /\ q < p)
      BY DEF Before
    <3> HIDE DEF i, j
    <3>6. Before(L, time, q, p) <=> j < i
      BY <2>1, <3>1, <3>3, <3>4, <3>5
    <3> QED BY <3>1, <3>6 DEF j
  <2>4. Earlier(L, time, p) = P \cup Q
    <3>1. 1..(c + w) = (1..c) \cup ((c + 1)..(c + w))
      BY <1>1
    <3> QED BY <1>1, <2>2, <2>3, <3>1 DEF Earlier, Holding
  <2>5. P \cap Q = {}
    BY <1>1 DEF Holding
  <2>6. IsFiniteSet(P) /\ Cardinality(P) = Cardinality(X)
    BY <1>3
  <2>7. IsFiniteSet(Q) /\ Cardinality(Q) = Cardinality(Y)
    BY <1>3
  <2>8. WaitlistedIndex(C, W, time, i) = Cardinality(P) + Cardinality(Q)
    <3>1. WaitlistedIndex(C, W, time, i) = Cardinality(Y) + Cardinality(X)
      BY DEF WaitlistedIndex, Ahead
    <3>2. Cardinality(P) \in Nat /\ Cardinality(Q) \in Nat
      BY <2>6, <2>7, FS_CardinalityType
    <3> HIDE DEF X, Y, P, Q
    <3> QED BY <2>6, <2>7, <3>1, <3>2
  <2> HIDE DEF X, Y, P, Q
  <2> QED BY <1>4, <2>4, <2>5, <2>6, <2>7, <2>8
<1> QED BY <1>5, <1>6 DEF L, c, w

\* The sort puts every entry where as many entries come before it.
LEMMA Sorts ==
  ASSUME NEW n \in Nat, NEW C \in SUBSET (1..n), NEW W \in SUBSET (1..n),
         NEW time, Monotone(n, time)
  PROVE  LET L == Concatenated(C, W)
             N == Cardinality(C) + Cardinality(W)
             sorted == SortedByCreation(L, time)
             place(p) == Cardinality(Earlier(L, time, p))
         IN  /\ sorted \in Seq(Entry) /\ Len(sorted) = N
             /\ \A k \in 1..N : \E p \in 1..N : sorted[k] = L[p] /\ place(p) = k - 1
             /\ \A p \in 1..N : place(p) \in 0..(N - 1) /\ sorted[place(p) + 1] = L[p]
             /\ \A k, l \in 1..N : k < l => time[sorted[k].id] <= time[sorted[l].id]
<1> DEFINE L == Concatenated(C, W)
           c == Cardinality(C)
           w == Cardinality(W)
           N == c + w
           sorted == SortedByCreation(L, time)
           place(p) == Cardinality(Earlier(L, time, p))
           when(p) == time[L[p].id]
           B == {e \in (1..N) \X (1..N) : Before(L, time, e[1], e[2])}
<1>1. /\ c \in Nat /\ w \in Nat
      /\ L \in Seq(Entry) /\ Len(L) = c + w /\ DOMAIN L = 1..(c + w)
      /\ \A p \in 1..c :
           L[p].status = "confirmed" /\ L[p].id \in C /\ Ahead(C, L[p].id) = p - 1
      /\ \A p \in (c + 1)..(c + w) :
           L[p].status = "waitlisted" /\ L[p].id \in W /\ Ahead(W, L[p].id) = p - c - 1
  BY Concatenation
<1>2. N \in Nat /\ \A p \in 1..N : L[p] \in Entry /\ when(p) \in Nat
  <2> HIDE DEF L, c, w
  <2>1. N \in Nat
    BY <1>1
  <2>2. ASSUME NEW p \in 1..N PROVE L[p] \in Entry /\ L[p].id \in 1..n
    <3>1. p \in 1..c \/ p \in (c + 1)..(c + w)
      BY <1>1
    <3>2. L[p] \in Entry
      BY <1>1, ElementOfSeq
    <3> QED BY <1>1, <3>1, <3>2
  <2> QED BY <2>1, <2>2 DEF Monotone
<1>3. \A p, q \in 1..N : <<p, q>> \in B <=> when(p) < when(q) \/ (when(p) = when(q) /\ p < q)
  BY DEF Before
<1>4. \A p \in 1..N : place(p) = Cardinality({q \in 1..N : <<q, p>> \in B})
  <2> TAKE p \in 1..N
  <2>1. DOMAIN L = 1..N
    BY <1>1
  <2> HIDE DEF L, N
  <2>2. Earlier(L, time, p) = {q \in 1..N : <<q, p>> \in B}
    BY <2>1 DEF Earlier
  <2> QED BY <2>2
<1>5. B \in SUBSET ((1..N) \X (1..N))
  OBVIOUS
<1>6. DOMAIN L = 1..N /\ sorted = [k \in 1..N |->
        L[CHOOSE p \in 1..N : Cardinality(Earlier(L, time, p)) = k - 1]]
  <2>1. DOMAIN L = 1..N
    BY <1>1
  <2> HIDE DEF L, N
  <2> QED BY <2>1 DEF SortedByCreation, Earlier
<1> HIDE DEF L, c, w, N, B, when, sorted
<1>7. /\ \A p \in 1..N : <<p, p>> \notin B
      /\ \A p, q, r \in 1..N : <<p, q>> \in B /\ <<q, r>> \in B => <<p, r>> \in B
      /\ \A p, q \in 1..N : p = q \/ <<p, q>> \in B \/ <<q, p>> \in B
  <2>1. ASSUME NEW p \in 1..N, NEW q \in 1..N
        PROVE  <<p, p>> \notin B /\ (p = q \/ <<p, q>> \in B \/ <<q, p>> \in B)
    BY <1>2, <1>3
  <2>2. ASSUME NEW p \in 1..N, NEW q \in 1..N, NEW r \in 1..N, <<p, q>> \in B, <<q, r>> \in B
        PROVE  <<p, r>> \in B
    <3>1. when(p) \in Nat /\ when(q) \in Nat /\ when(r) \in Nat
      BY <1>2
    <3>2. /\ when(p) < when(q) \/ (when(p) = when(q) /\ p < q)
          /\ when(q) < when(r) \/ (when(q) = when(r) /\ q < r)
      BY <1>3, <2>2
    <3>3. when(p) < when(r) \/ (when(p) = when(r) /\ p < r)
      BY <3>1, <3>2
    <3> QED BY <1>3, <3>3
  <2> QED BY <2>1, <2>2
<1>8. IsFiniteSet(1..N) /\ Cardinality(1..N) = N
  BY <1>2, FS_Interval
<1> DEFINE rank(p) == Cardinality({q \in 1..N : <<q, p>> \in B})
<1>9. /\ \A p \in 1..N : rank(p) \in 0..(Cardinality(1..N) - 1)
      /\ \A p, q \in 1..N : <<p, q>> \in B <=> rank(p) < rank(q)
      /\ \A k \in 0..(Cardinality(1..N) - 1) : \E p \in 1..N : rank(p) = k
      /\ \A p, q \in 1..N : rank(p) = rank(q) => p = q
  BY <1>5, <1>7, <1>8, Places
<1> HIDE DEF rank, place
<1>10. \A p \in 1..N : place(p) = rank(p)
  BY <1>4 DEF rank
<1>11. ASSUME NEW k \in 1..N
       PROVE  \E p \in 1..N : sorted[k] = L[p] /\ place(p) = k - 1
  <2> DEFINE e == CHOOSE p \in 1..N : place(p) = k - 1
  <2>1. k - 1 \in 0..(Cardinality(1..N) - 1)
    BY <1>2, <1>8
  <2>2. \E p \in 1..N : place(p) = k - 1
    BY <1>9, <1>10, <2>1
  <2>3. e \in 1..N /\ place(e) = k - 1
    BY <2>2
  <2>4. sorted[k] = L[e]
    BY <1>6 DEF place
  <2> HIDE DEF e
  <2> QED BY <2>3, <2>4
<1>12. ASSUME NEW p \in 1..N
       PROVE  place(p) \in 0..(N - 1) /\ sorted[place(p) + 1] = L[p]
  <2>1. place(p) \in 0..(N - 1)
    BY <1>8, <1>9, <1>10
  <2>2. place(p) + 1 \in 1..N /\ (place(p) + 1) - 1 = place(p)
    BY <1>2, <2>1
  <2>3. PICK q \in 1..N : sorted[place(p) + 1] = L[q] /\ place(q) = (place(p) + 1) - 1
    BY <1>11, <2>2
  <2>4. p = q
    BY <1>9, <1>10, <2>2, <2>3
  <2> QED BY <2>1, <2>3, <2>4
<1>13. ASSUME NEW k \in 1..N, NEW l \in 1..N, k < l
       PROVE  time[sorted[k].id] <= time[sorted[l].id]
  <2>1. PICK p \in 1..N : sorted[k] = L[p] /\ place(p) = k - 1
    BY <1>11
  <2>2. PICK q \in 1..N : sorted[l] = L[q] /\ place(q) = l - 1
    BY <1>11
  <2>3. rank(p) < rank(q)
    BY <1>2, <1>10, <1>13, <2>1, <2>2
  <2>4. when(p) <= when(q)
    <3>1. <<p, q>> \in B
      BY <1>9, <2>3
    <3>2. when(p) < when(q) \/ (when(p) = when(q) /\ p < q)
      BY <1>3, <3>1
    <3>3. when(p) \in Nat /\ when(q) \in Nat
      BY <1>2
    <3> QED BY <3>2, <3>3
  <2> QED BY <2>1, <2>2, <2>4 DEF when
<1>14. sorted \in Seq(Entry) /\ Len(sorted) = N
  <2>1. \A k \in 1..N : sorted[k] \in Entry
    BY <1>2, <1>11
  <2>2. DOMAIN sorted = 1..N /\ sorted = [k \in 1..N |-> sorted[k]]
    BY <1>6
  <2>3. sorted \in [1..N -> Entry]
    BY <2>1, <2>2
  <2> QED BY <1>2, <2>3, SeqDef, LenProperties
<1> QED BY <1>11, <1>12, <1>13, <1>14 DEF L, c, w, N, sorted, place

Sorted(C, W, time) == SortedByCreation(Concatenated(C, W), time)

\* Entry e is of a booking that Seating counts as the k-th of its list.
InPlace(C, W, time, e, k) ==
  \/ e.status = "confirmed" /\ e.id \in C /\ ConfirmedIndex(C, W, time, e.id) = k - 1
  \/ e.status = "waitlisted" /\ e.id \in W /\ WaitlistedIndex(C, W, time, e.id) = k - 1

\* Every entry of the sorted list is where Seating counts it, every booking of
\* the two answers has its entry there, and they come in the order of creation.
Queued(C, W, time) ==
  LET sorted == Sorted(C, W, time)
      N == Cardinality(C) + Cardinality(W)
  IN  /\ sorted \in Seq(Entry) /\ Len(sorted) = N /\ N \in Nat
      /\ \A k \in 1..N : InPlace(C, W, time, sorted[k], k)
      /\ \A i \in C : \E k \in 1..N : /\ ConfirmedIndex(C, W, time, i) = k - 1
                                    /\ sorted[k].id = i /\ sorted[k].status = "confirmed"
      /\ \A i \in W : \E k \in 1..N : /\ WaitlistedIndex(C, W, time, i) = k - 1
                                    /\ sorted[k].id = i /\ sorted[k].status = "waitlisted"
      /\ \A k, l \in 1..N : k < l => time[sorted[k].id] <= time[sorted[l].id]

LEMMA Queue ==
  ASSUME NEW n, n \in Nat, NEW C \in SUBSET (1..n), NEW W \in SUBSET (1..n),
         NEW time, Monotone(n, time)
  PROVE  Queued(C, W, time)
<1> DEFINE L == Concatenated(C, W)
           c == Cardinality(C)
           w == Cardinality(W)
           N == c + w
           sorted == SortedByCreation(L, time)
           place(p) == Cardinality(Earlier(L, time, p))
<1>1. /\ c \in Nat /\ w \in Nat
      /\ L \in Seq(Entry) /\ Len(L) = c + w /\ DOMAIN L = 1..(c + w)
      /\ \A p \in 1..c :
           L[p].status = "confirmed" /\ L[p].id \in C /\ Ahead(C, L[p].id) = p - 1
      /\ \A p \in (c + 1)..(c + w) :
           L[p].status = "waitlisted" /\ L[p].id \in W /\ Ahead(W, L[p].id) = p - c - 1
  BY Concatenation
<1>2. /\ sorted \in Seq(Entry) /\ Len(sorted) = N
      /\ \A k \in 1..N : \E p \in 1..N : sorted[k] = L[p] /\ place(p) = k - 1
      /\ \A p \in 1..N : place(p) \in 0..(N - 1) /\ sorted[place(p) + 1] = L[p]
      /\ \A k, l \in 1..N : k < l => time[sorted[k].id] <= time[sorted[l].id]
  BY Sorts
<1>3. /\ \A p \in 1..c : place(p) = ConfirmedIndex(C, W, time, L[p].id)
      /\ \A p \in (c + 1)..(c + w) : place(p) = WaitlistedIndex(C, W, time, L[p].id)
  BY Counted
<1>4. /\ \A i \in C : Ahead(C, i) \in 0..(c - 1)
      /\ \A i, j \in C : Ahead(C, i) = Ahead(C, j) => i = j
      /\ \A i \in W : Ahead(W, i) \in 0..(w - 1)
      /\ \A i, j \in W : Ahead(W, i) = Ahead(W, j) => i = j
  BY Line
<1> HIDE DEF L, c, w, sorted, place
<1>5. N \in Nat /\ 1..N = (1..c) \cup ((c + 1)..(c + w))
  BY <1>1
<1>6. ASSUME NEW p \in 1..N PROVE InPlace(C, W, time, L[p], place(p) + 1)
  <2>1. place(p) \in Nat /\ (place(p) + 1) - 1 = place(p)
    BY <1>2, <1>5
  <2>2. CASE p \in 1..c
    BY <1>1, <1>3, <2>1, <2>2 DEF InPlace
  <2>3. CASE p \in (c + 1)..(c + w)
    BY <1>1, <1>3, <2>1, <2>3 DEF InPlace
  <2> QED BY <1>5, <2>2, <2>3
<1>7. ASSUME NEW k \in 1..N PROVE InPlace(C, W, time, sorted[k], k)
  <2>1. PICK p \in 1..N : sorted[k] = L[p] /\ place(p) = k - 1
    BY <1>2
  <2>2. place(p) + 1 = k
    BY <1>5, <2>1
  <2> QED BY <1>6, <2>1, <2>2
<1>8. ASSUME NEW p \in 1..N
      PROVE  place(p) + 1 \in 1..N /\ place(p) = (place(p) + 1) - 1 /\ sorted[place(p) + 1] = L[p]
  <2>1. place(p) \in 0..(N - 1) /\ sorted[place(p) + 1] = L[p]
    BY <1>2
  <2>2. place(p) + 1 \in 1..N /\ place(p) = (place(p) + 1) - 1
    BY <1>5, <2>1
  <2> QED BY <2>1, <2>2
<1>9. ASSUME NEW i \in C
      PROVE  \E k \in 1..N : /\ ConfirmedIndex(C, W, time, i) = k - 1
                              /\ sorted[k].id = i /\ sorted[k].status = "confirmed"
  <2> DEFINE p == Ahead(C, i) + 1
  <2>1. p \in 1..c /\ p - 1 = Ahead(C, i)
    BY <1>1, <1>4
  <2> HIDE DEF p
  <2>2. L[p].id = i /\ L[p].status = "confirmed"
    BY <1>1, <1>4, <2>1
  <2>3. p \in 1..N /\ place(p) = ConfirmedIndex(C, W, time, i)
    BY <1>3, <1>5, <2>1, <2>2
  <2> QED BY <1>8, <2>2, <2>3
<1>10. ASSUME NEW i \in W
       PROVE  \E k \in 1..N : /\ WaitlistedIndex(C, W, time, i) = k - 1
                               /\ sorted[k].id = i /\ sorted[k].status = "waitlisted"
  <2> DEFINE p == c + Ahead(W, i) + 1
  <2>1. p \in (c + 1)..(c + w) /\ p - c - 1 = Ahead(W, i)
    BY <1>1, <1>4
  <2> HIDE DEF p
  <2>2. L[p].id = i /\ L[p].status = "waitlisted"
    BY <1>1, <1>4, <2>1
  <2>3. p \in 1..N /\ place(p) = WaitlistedIndex(C, W, time, i)
    BY <1>3, <1>5, <2>1, <2>2
  <2> QED BY <1>8, <2>2, <2>3
<1> QED BY <1>2, <1>5, <1>7, <1>9, <1>10 DEF Queued, Sorted, L, c, w, sorted

-----------------------------------------------------------------------------
(* The walk.                                                               *)

\* The entries among the first m whose status the walk changes.
ToPromote(list, m, seats) == {k \in 1..m : k - 1 < seats /\ list[k].status # "confirmed"}
ToDemote(list, m, seats) == {k \in 1..m : k - 1 >= seats /\ list[k].status # "waitlisted"}

Walking ==
  /\ confirmed \in SUBSET Bookings /\ waitlisted \in SUBSET Bookings
  /\ Monotone(MaxBookings, at) /\ capacity \in Nat
  /\ index \in Nat
  /\ \/ live = <<>> /\ index = 0
     \/ live = Sorted(confirmed, waitlisted, at) /\ index <= Len(live)
  /\ promoted = {live[k].id : k \in ToPromote(live, index, capacity)}
  /\ demoted = {live[k].id : k \in ToDemote(live, index, capacity)}

LEMMA InitWalking == LoopInit => Walking
<1> SUFFICES ASSUME LoopInit PROVE Walking
  OBVIOUS
<1>1. MaxBookings \in Nat /\ Instants \subseteq Nat /\ Capacities \subseteq Nat \ {0}
  BY LoopAssumption
<1>2. Monotone(MaxBookings, at)
  BY <1>1 DEF LoopInit, Monotone, Bookings
<1>3. ToPromote(live, 0, capacity) = {} /\ ToDemote(live, 0, capacity) = {}
  BY DEF ToPromote, ToDemote
<1> QED BY <1>1, <1>2, <1>3 DEF LoopInit, Walking

LEMMA NextWalking == Walking /\ [LoopNext]_loopVars => Walking'
<1> SUFFICES ASSUME Walking, [LoopNext]_loopVars PROVE Walking'
  OBVIOUS
<1>1. CASE Collect
  <2>1. /\ live' = Sorted(confirmed, waitlisted, at) /\ live = <<>>
        /\ UNCHANGED <<confirmed, waitlisted, at, capacity, index, promoted, demoted>>
    BY <1>1 DEF Collect, inputs, Sorted, Concatenated
  <2>2. MaxBookings \in Nat /\ confirmed \in SUBSET (1..MaxBookings)
        /\ waitlisted \in SUBSET (1..MaxBookings) /\ Monotone(MaxBookings, at)
    BY LoopAssumption DEF Walking, Bookings
  <2>3. live' \in Seq(Entry)
    BY <2>1, <2>2, Queue DEF Queued
  <2>4. index = 0 /\ index' = 0
    <3>1. CASE live = Sorted(confirmed, waitlisted, at) /\ index <= Len(live)
      <4>1. Len(live) = 0
        BY <2>1
      <4> QED BY <2>1, <3>1, <4>1 DEF Walking
    <3> QED BY <2>1, <3>1 DEF Walking
  <2>5. /\ ToPromote(live, 0, capacity) = {} /\ ToDemote(live, 0, capacity) = {}
        /\ ToPromote(live', 0, capacity) = {} /\ ToDemote(live', 0, capacity) = {}
    BY DEF ToPromote, ToDemote
  <2>6. promoted' = {live'[k].id : k \in ToPromote(live', index', capacity')}
    BY <2>1, <2>4, <2>5 DEF Walking
  <2>7. demoted' = {live'[k].id : k \in ToDemote(live', index', capacity')}
    BY <2>1, <2>4, <2>5 DEF Walking
  <2>8. Len(live') \in Nat
    BY <2>3, LenProperties
  <2>9. index' \in Nat /\ index' <= Len(live')
    BY <2>4, <2>8
  <2>10. live' = Sorted(confirmed', waitlisted', at')
    BY <2>1
  <2>11. /\ confirmed' \in SUBSET Bookings /\ waitlisted' \in SUBSET Bookings
         /\ Monotone(MaxBookings, at') /\ capacity' \in Nat
    BY <2>1 DEF Walking
  <2> QED BY <2>6, <2>7, <2>9, <2>10, <2>11 DEF Walking
<1>2. CASE Visit
  <2> DEFINE booking == live[index + 1]
  <2>1. /\ index < Len(live) /\ index' = index + 1
        /\ UNCHANGED <<confirmed, waitlisted, at, capacity, live>>
        /\ promoted' = IF index < capacity /\ booking.status # "confirmed"
                         THEN promoted \union {booking.id} ELSE promoted
        /\ demoted' = IF ~(index < capacity) /\ booking.status # "waitlisted"
                        THEN demoted \union {booking.id} ELSE demoted
    BY <1>2 DEF Visit, inputs
  <2>2. index \in Nat /\ capacity \in Nat
    BY DEF Walking
  <2>3. live = Sorted(confirmed, waitlisted, at) /\ Len(live) \in Nat
    <3>1. MaxBookings \in Nat /\ confirmed \in SUBSET (1..MaxBookings)
          /\ waitlisted \in SUBSET (1..MaxBookings) /\ Monotone(MaxBookings, at)
      BY LoopAssumption DEF Walking, Bookings
    <3>2. Sorted(confirmed, waitlisted, at) \in Seq(Entry)
      BY <3>1, Queue DEF Queued
    <3>3. live # <<>>
      BY <2>1, <2>2
    <3> QED BY <3>2, <3>3, LenProperties DEF Walking
  <2>4. 1..(index + 1) = (1..index) \cup {index + 1} /\ index + 1 - 1 = index
    BY <2>2
  <2>5. ToPromote(live, index + 1, capacity) =
          IF index < capacity /\ booking.status # "confirmed"
            THEN ToPromote(live, index, capacity) \cup {index + 1}
            ELSE ToPromote(live, index, capacity)
    BY <2>2, <2>4 DEF ToPromote
  <2>6. ToDemote(live, index + 1, capacity) =
          IF ~(index < capacity) /\ booking.status # "waitlisted"
            THEN ToDemote(live, index, capacity) \cup {index + 1}
            ELSE ToDemote(live, index, capacity)
    BY <2>2, <2>4 DEF ToDemote
  <2>7. promoted' = {live[k].id : k \in ToPromote(live, index + 1, capacity)}
    BY <2>1, <2>5 DEF Walking
  <2>8. demoted' = {live[k].id : k \in ToDemote(live, index + 1, capacity)}
    BY <2>1, <2>6 DEF Walking
  <2>9. index' \in Nat /\ index' <= Len(live')
    BY <2>1, <2>2, <2>3
  <2> QED BY <2>1, <2>3, <2>7, <2>8, <2>9 DEF Walking
<1>3. CASE UNCHANGED loopVars
  BY <1>3 DEF loopVars, Walking
<1> QED BY <1>1, <1>2, <1>3 DEF LoopNext

LEMMA WalkingAlways == LoopSpec => []Walking
BY InitWalking, NextWalking, PTL DEF LoopSpec

\* What the walk has decided so far is among the corrections Seating names, and
\* at its end it is all of them.
LEMMA Decisions ==
  ASSUME Walking
  PROVE  /\ promoted \subseteq Promotions(confirmed, waitlisted, at, capacity)
         /\ demoted \subseteq Demotions(confirmed, waitlisted, at, capacity)
         /\ Done => /\ promoted = Promotions(confirmed, waitlisted, at, capacity)
                    /\ demoted = Demotions(confirmed, waitlisted, at, capacity)
<1> DEFINE P == Promotions(confirmed, waitlisted, at, capacity)
           D == Demotions(confirmed, waitlisted, at, capacity)
           N == Cardinality(confirmed) + Cardinality(waitlisted)
           sorted == Sorted(confirmed, waitlisted, at)
<1>1. /\ MaxBookings \in Nat /\ confirmed \in SUBSET (1..MaxBookings)
      /\ waitlisted \in SUBSET (1..MaxBookings) /\ Monotone(MaxBookings, at)
      /\ capacity \in Nat /\ index \in Nat
  BY LoopAssumption DEF Walking, Bookings
<1>2. /\ sorted \in Seq(Entry) /\ Len(sorted) = N /\ N \in Nat
      /\ \A k \in 1..N : InPlace(confirmed, waitlisted, at, sorted[k], k)
      /\ \A i \in confirmed : \E k \in 1..N :
           /\ ConfirmedIndex(confirmed, waitlisted, at, i) = k - 1
           /\ sorted[k].id = i /\ sorted[k].status = "confirmed"
      /\ \A i \in waitlisted : \E k \in 1..N :
           /\ WaitlistedIndex(confirmed, waitlisted, at, i) = k - 1
           /\ sorted[k].id = i /\ sorted[k].status = "waitlisted"
      /\ \A k, l \in 1..N : k < l => at[sorted[k].id] <= at[sorted[l].id]
  <2>1. Queued(confirmed, waitlisted, at)
    BY <1>1, Queue
  <2> QED BY <2>1 DEF Queued
<1> HIDE DEF N, sorted
<1>3. CASE live = <<>> /\ index = 0
  <2>1. promoted = {} /\ demoted = {}
    BY <1>3 DEF Walking, ToPromote, ToDemote
  <2>2. Done => confirmed = {} /\ waitlisted = {}
    <3>1. /\ IsFiniteSet(confirmed) /\ Cardinality(confirmed) \in Nat
          /\ IsFiniteSet(waitlisted) /\ Cardinality(waitlisted) \in Nat
      BY <1>1, Line
    <3>2. Done => Cardinality(confirmed) = 0 /\ Cardinality(waitlisted) = 0
      BY <1>3, <3>1 DEF Done
    <3> QED BY <3>1, <3>2, FS_EmptySet
  <2>3. Done => P = {} /\ D = {}
    BY <2>2 DEF Promotions, Demotions
  <2> QED BY <2>1, <2>3
<1>4. CASE live = sorted /\ index <= Len(live)
  <2>1. index <= N /\ \A k \in 1..index : k \in 1..N
    BY <1>1, <1>2, <1>4
  <2>2. ASSUME NEW k \in ToPromote(live, index, capacity) PROVE live[k].id \in P
    <3>1. k \in 1..N /\ k - 1 < capacity /\ live[k].status # "confirmed"
      BY <2>1 DEF ToPromote
    <3>2. /\ live[k].id \in waitlisted
          /\ WaitlistedIndex(confirmed, waitlisted, at, live[k].id) = k - 1
      BY <1>2, <1>4, <3>1 DEF InPlace
    <3> QED BY <3>1, <3>2 DEF Promotions
  <2>3. ASSUME NEW k \in ToDemote(live, index, capacity) PROVE live[k].id \in D
    <3>1. k \in 1..N /\ k - 1 >= capacity /\ live[k].status # "waitlisted"
      BY <2>1 DEF ToDemote
    <3>2. /\ live[k].id \in confirmed
          /\ ConfirmedIndex(confirmed, waitlisted, at, live[k].id) = k - 1
      BY <1>2, <1>4, <3>1 DEF InPlace
    <3> QED BY <3>1, <3>2 DEF Demotions
  <2>4. ASSUME Done, NEW i \in P PROVE i \in promoted
    <3>1. i \in waitlisted /\ WaitlistedIndex(confirmed, waitlisted, at, i) < capacity
      BY DEF Promotions
    <3>2. PICK k \in 1..N : /\ WaitlistedIndex(confirmed, waitlisted, at, i) = k - 1
                            /\ sorted[k].id = i /\ sorted[k].status = "waitlisted"
      BY <1>2, <3>1
    <3>3. k \in ToPromote(live, index, capacity)
      BY <1>4, <2>4, <3>1, <3>2 DEF ToPromote, Done, N
    <3> QED BY <1>4, <3>2, <3>3 DEF Walking
  <2>5. ASSUME Done, NEW i \in D PROVE i \in demoted
    <3>1. i \in confirmed /\ ConfirmedIndex(confirmed, waitlisted, at, i) >= capacity
      BY DEF Demotions
    <3>2. PICK k \in 1..N : /\ ConfirmedIndex(confirmed, waitlisted, at, i) = k - 1
                            /\ sorted[k].id = i /\ sorted[k].status = "confirmed"
      BY <1>2, <3>1
    <3>3. k \in ToDemote(live, index, capacity)
      BY <1>4, <2>5, <3>1, <3>2 DEF ToDemote, Done, N
    <3> QED BY <1>4, <3>2, <3>3 DEF Walking
  <2>6. promoted \subseteq P /\ demoted \subseteq D
    <3> HIDE DEF P, D
    <3> QED BY <2>2, <2>3 DEF Walking
  <2> HIDE DEF P, D
  <2>7. Done => promoted = P /\ demoted = D
    BY <2>4, <2>5, <2>6
  <2> QED BY <2>6, <2>7 DEF P, D
<1> QED BY <1>3, <1>4 DEF Walking, sorted

\* A booking that is in both lists counts no more entries ahead of it as a
\* confirmed one than as a waitlisted one: it is not to be moved both ways.
LEMMA OneWay ==
  ASSUME NEW n, n \in Nat, NEW C \in SUBSET (1..n), NEW W \in SUBSET (1..n),
         NEW time, Monotone(n, time), NEW seats, seats \in Nat
  PROVE  Promotions(C, W, time, seats) \cap Demotions(C, W, time, seats) = {}
<1> SUFFICES ASSUME NEW i \in C, i \in W
             PROVE  ~(/\ WaitlistedIndex(C, W, time, i) < seats
                      /\ ConfirmedIndex(C, W, time, i) >= seats)
  BY DEF Promotions, Demotions
<1> DEFINE c1 == {j \in C : j < i}
           c2 == {j \in C : time[j] <= time[i]}
           w1 == {j \in W : time[j] < time[i]}
           w2 == {j \in W : j < i}
<1>1. i \in 1..n /\ time \in [1..n -> Nat] /\ \A k, l \in 1..n : k <= l => time[k] <= time[l]
  BY DEF Monotone
<1>2. c1 \subseteq c2
  <2>1. ASSUME NEW j \in C, j < i PROVE time[j] <= time[i]
    <3>1. j \in 1..n /\ j <= i
      BY <1>1, <2>1
    <3> QED BY <1>1, <3>1
  <2> QED BY <2>1
<1>3. w1 \subseteq w2
  <2>1. ASSUME NEW j \in W, time[j] < time[i] PROVE j < i
    <3>1. j \in 1..n /\ time[j] \in Nat /\ time[i] \in Nat
      BY <1>1
    <3>2. ~(i <= j)
      BY <1>1, <2>1, <3>1
    <3> QED BY <1>1, <3>1, <3>2
  <2> QED BY <2>1
<1>4. IsFiniteSet(c2) /\ IsFiniteSet(w2)
  <2>1. IsFiniteSet(C) /\ IsFiniteSet(W)
    BY Line
  <2> QED BY <2>1, FS_Subset
<1>5. /\ Cardinality(c1) <= Cardinality(c2) /\ IsFiniteSet(c1)
      /\ Cardinality(w1) <= Cardinality(w2) /\ IsFiniteSet(w1)
  BY <1>2, <1>3, <1>4, FS_Subset
<1>6. /\ Cardinality(c1) \in Nat /\ Cardinality(c2) \in Nat
      /\ Cardinality(w1) \in Nat /\ Cardinality(w2) \in Nat
  BY <1>4, <1>5, FS_CardinalityType
<1>7. /\ ConfirmedIndex(C, W, time, i) = Cardinality(c1) + Cardinality(w1)
      /\ WaitlistedIndex(C, W, time, i) = Cardinality(w2) + Cardinality(c2)
  BY DEF ConfirmedIndex, WaitlistedIndex, Ahead
<1> HIDE DEF c1, c2, w1, w2
<1> QED BY <1>5, <1>6, <1>7

\* After a pass over lists without a booking in common the confirmed bookings are
\* the first of the sorted list, no later than any other and as many as there
\* are seats unless nobody waits: whatever their times, a second pass moves nobody.
LEMMA SecondPass ==
  ASSUME NEW n, n \in Nat, NEW C \in SUBSET (1..n), NEW W \in SUBSET (1..n), C \cap W = {},
         NEW time, Monotone(n, time), NEW seats, seats \in Nat
  PROVE  LET P == Promotions(C, W, time, seats)
             D == Demotions(C, W, time, seats)
             c == (C \cup P) \ D
             w == (W \cup D) \ P
         IN  Promotions(c, w, time, seats) = {} /\ Demotions(c, w, time, seats) = {}
<1> DEFINE P == Promotions(C, W, time, seats)
           D == Demotions(C, W, time, seats)
           c == (C \cup P) \ D
           w == (W \cup D) \ P
           N == Cardinality(C) + Cardinality(W)
           sorted == Sorted(C, W, time)
           K == {k \in 1..N : k - 1 < seats}
           f == [k \in K |-> sorted[k].id]
<1>1. /\ sorted \in Seq(Entry) /\ Len(sorted) = N /\ N \in Nat
      /\ \A k \in 1..N : InPlace(C, W, time, sorted[k], k)
      /\ \A i \in C : \E k \in 1..N : /\ ConfirmedIndex(C, W, time, i) = k - 1
                                    /\ sorted[k].id = i /\ sorted[k].status = "confirmed"
      /\ \A i \in W : \E k \in 1..N : /\ WaitlistedIndex(C, W, time, i) = k - 1
                                    /\ sorted[k].id = i /\ sorted[k].status = "waitlisted"
      /\ \A k, l \in 1..N : k < l => time[sorted[k].id] <= time[sorted[l].id]
  <2>1. Queued(C, W, time)
    BY Queue
  <2> QED BY <2>1 DEF Queued
<1>2. P \subseteq W /\ D \subseteq C /\ c \in SUBSET (1..n) /\ w \in SUBSET (1..n)
  BY DEF Promotions, Demotions
<1>2a. IsFiniteSet(c) /\ IsFiniteSet(w)
  <2>1. IsFiniteSet(1..n)
    BY FS_Interval
  <2> HIDE DEF c, w
  <2> QED BY <1>2, <2>1, FS_Subset
<1> HIDE DEF N, sorted, f
<1>3. ASSUME NEW i \in c PROVE \E k \in K : sorted[k].id = i
  <2>1. CASE i \in C /\ i \notin D
    <3>1. ~(ConfirmedIndex(C, W, time, i) >= seats)
      BY <2>1 DEF Demotions
    <3>2. PICK k \in 1..N : ConfirmedIndex(C, W, time, i) = k - 1 /\ sorted[k].id = i
      BY <1>1, <2>1
    <3>3. k - 1 < seats
      BY <3>1, <3>2
    <3> QED BY <3>2, <3>3
  <2>2. CASE i \in P
    <3>1. i \in W /\ WaitlistedIndex(C, W, time, i) < seats
      BY <2>2 DEF Promotions
    <3>2. PICK k \in 1..N : WaitlistedIndex(C, W, time, i) = k - 1 /\ sorted[k].id = i
      BY <1>1, <3>1
    <3> QED BY <3>1, <3>2
  <2> QED BY <2>1, <2>2
<1>4. ASSUME NEW i \in w PROVE \E k \in 1..N : k - 1 >= seats /\ sorted[k].id = i
  <2>1. CASE i \in W /\ i \notin P
    <3>1. ~(WaitlistedIndex(C, W, time, i) < seats)
      BY <2>1 DEF Promotions
    <3>2. PICK k \in 1..N : WaitlistedIndex(C, W, time, i) = k - 1 /\ sorted[k].id = i
      BY <1>1, <2>1
    <3>3. k - 1 >= seats
      BY <3>1, <3>2
    <3> QED BY <3>2, <3>3
  <2>2. CASE i \in D
    <3>1. i \in C /\ ConfirmedIndex(C, W, time, i) >= seats
      BY <2>2 DEF Demotions
    <3>2. PICK k \in 1..N : ConfirmedIndex(C, W, time, i) = k - 1 /\ sorted[k].id = i
      BY <1>1, <3>1
    <3> QED BY <3>1, <3>2
  <2> QED BY <2>1, <2>2
<1>5. ASSUME NEW k \in K PROVE sorted[k].id \in c
  <2>1. k \in 1..N /\ k - 1 < seats /\ ~(k - 1 >= seats)
    OBVIOUS
  <2>2. CASE sorted[k].id \in C /\ ConfirmedIndex(C, W, time, sorted[k].id) = k - 1
    BY <2>1, <2>2 DEF Demotions
  <2>3. CASE sorted[k].id \in W /\ WaitlistedIndex(C, W, time, sorted[k].id) = k - 1
    <3>1. sorted[k].id \in P
      BY <2>1, <2>3 DEF Promotions
    <3> QED BY <1>2, <2>3, <3>1
  <2> QED BY <1>1, <2>1, <2>2, <2>3 DEF InPlace
<1>6. ASSUME NEW k \in 1..N, NEW l \in 1..N, sorted[k].id = sorted[l].id PROVE k = l
  <2>1. InPlace(C, W, time, sorted[k], k) /\ InPlace(C, W, time, sorted[l], l)
    BY <1>1
  <2>2. ~(sorted[k].id \in C /\ sorted[k].id \in W)
    OBVIOUS
  <2>3. k - 1 = l - 1
    <3>1. CASE sorted[k].id \in C
      <4>1. /\ ConfirmedIndex(C, W, time, sorted[k].id) = k - 1
            /\ ConfirmedIndex(C, W, time, sorted[l].id) = l - 1
        BY <1>6, <2>1, <2>2, <3>1 DEF InPlace
      <4> QED BY <1>6, <4>1
    <3>2. CASE sorted[k].id \notin C
      <4>1. /\ WaitlistedIndex(C, W, time, sorted[k].id) = k - 1
            /\ WaitlistedIndex(C, W, time, sorted[l].id) = l - 1
        BY <1>6, <2>1, <3>2 DEF InPlace
      <4> QED BY <1>6, <4>1
    <3> QED BY <3>1, <3>2
  <2> QED BY <2>3
<1>7. ASSUME NEW i \in c, NEW j \in w PROVE time[i] <= time[j]
  <2>1. PICK k \in K : sorted[k].id = i
    BY <1>3
  <2>2. PICK l \in 1..N : l - 1 >= seats /\ sorted[l].id = j
    BY <1>4
  <2>3. k \in 1..N /\ k < l
    BY <2>1, <2>2
  <2> QED BY <1>1, <2>1, <2>2, <2>3
<1>8. /\ IsFiniteSet(c) /\ Cardinality(c) \in Nat /\ Cardinality(c) <= seats
      /\ w # {} => Cardinality(c) = seats
  <2>1. f \in Bijection(K, c)
    <3>1. f \in [K -> c]
      BY <1>5 DEF f
    <3>2. \A k, l \in K : f[k] = f[l] => k = l
      BY <1>6 DEF f
    <3>3. \A i \in c : \E k \in K : f[k] = i
      BY <1>3 DEF f
    <3> HIDE DEF K, c
    <3> QED BY <3>1, <3>2, <3>3 DEF Bijection, Injection, Surjection, IsInjective
  <2>2. CASE N <= seats
    <3>1. K = 1..N
      BY <1>1, <2>2
    <3>2. IsFiniteSet(K) /\ Cardinality(K) = N
      <4>1. IsFiniteSet(1..N) /\ Cardinality(1..N) = N
        BY <1>1, FS_Interval
      <4> QED BY <3>1, <4>1
    <3>3. w = {}
      <4>1. \A k \in 1..N : ~(k - 1 >= seats)
        BY <1>1, <2>2
      <4> QED BY <1>4, <4>1
    <3> HIDE DEF K, c, w
    <3>4. IsFiniteSet(c) /\ Cardinality(c) = N
      BY <2>1, <3>2, FS_Bijection DEF ExistsBijection
    <3> QED BY <1>1, <2>2, <3>3, <3>4
  <2>3. CASE seats < N
    <3>1. K = 1..seats
      BY <1>1, <2>3
    <3>2. IsFiniteSet(K) /\ Cardinality(K) = seats
      <4>1. IsFiniteSet(1..seats) /\ Cardinality(1..seats) = seats
        BY FS_Interval
      <4> QED BY <3>1, <4>1
    <3> HIDE DEF K, c, w
    <3>3. IsFiniteSet(c) /\ Cardinality(c) = seats
      BY <2>1, <3>2, FS_Bijection DEF ExistsBijection
    <3> QED BY <3>3
  <2> QED BY <1>1, <2>2, <2>3
<1>9. ASSUME NEW i \in c PROVE ConfirmedIndex(c, w, time, i) < seats
  <2> DEFINE before == {j \in c : j < i}
             sooner == {j \in w : time[j] < time[i]}
  <2>1. sooner = {}
    <3>1. ASSUME NEW j \in w PROVE ~(time[j] < time[i])
      <4>1. time[i] <= time[j]
        BY <1>7
      <4>2. time[i] \in Nat /\ time[j] \in Nat
        BY <1>2 DEF Monotone
      <4> QED BY <4>1, <4>2
    <3> QED BY <3>1
  <2>2. before \subseteq c /\ before # c
    BY <1>2
  <2> HIDE DEF c, w
  <2>3. /\ IsFiniteSet(before) /\ Cardinality(before) <= Cardinality(c)
        /\ Cardinality(before) # Cardinality(c)
    BY <1>8, <2>2, FS_Subset
  <2>4. Cardinality(before) \in Nat /\ Cardinality(sooner) = 0
    BY <2>1, <2>3, FS_CardinalityType, FS_EmptySet
  <2>5. ConfirmedIndex(c, w, time, i) = Cardinality(before) + Cardinality(sooner)
    BY DEF ConfirmedIndex, Ahead
  <2> HIDE DEF before, sooner
  <2> QED BY <1>8, <2>3, <2>4, <2>5
<1>10. ASSUME NEW i \in w PROVE WaitlistedIndex(c, w, time, i) >= seats
  <2>1. {j \in c : time[j] <= time[i]} = c
    BY <1>7
  <2>2. Ahead(w, i) \in Nat
    <3>1. IsFiniteSet({j \in w : j < i})
      BY <1>2a, FS_Subset
    <3> QED BY <3>1, FS_CardinalityType DEF Ahead
  <2>3. Cardinality(c) = seats
    BY <1>8
  <2> HIDE DEF c, w
  <2>4. WaitlistedIndex(c, w, time, i) = Ahead(w, i) + seats
    BY <2>1, <2>3 DEF WaitlistedIndex
  <2> QED BY <2>2, <2>4
<1>11. Demotions(c, w, time, seats) = {}
  <2>1. \A i \in c : ~(ConfirmedIndex(c, w, time, i) >= seats)
    <3> TAKE i \in c
    <3>1. ConfirmedIndex(c, w, time, i) < seats
      BY <1>9
    <3>2. ConfirmedIndex(c, w, time, i) \in Int
      <4>1. IsFiniteSet({j \in c : j < i}) /\ IsFiniteSet({j \in w : time[j] < time[i]})
        BY <1>2a, FS_Subset
      <4> QED BY <4>1, FS_CardinalityType DEF ConfirmedIndex, Ahead
    <3> QED BY <3>1, <3>2
  <2> HIDE DEF c, w
  <2> QED BY <2>1 DEF Demotions
<1>12. Promotions(c, w, time, seats) = {}
  <2>1. \A i \in w : ~(WaitlistedIndex(c, w, time, i) < seats)
    <3> TAKE i \in w
    <3>1. WaitlistedIndex(c, w, time, i) >= seats
      BY <1>10
    <3>2. WaitlistedIndex(c, w, time, i) \in Int
      <4>1. IsFiniteSet({j \in w : j < i}) /\ IsFiniteSet({j \in c : time[j] <= time[i]})
        BY <1>2a, FS_Subset
      <4> QED BY <4>1, FS_CardinalityType DEF WaitlistedIndex, Ahead
    <3> QED BY <3>1, <3>2
  <2> HIDE DEF c, w
  <2> QED BY <2>1 DEF Promotions
<1> QED BY <1>11, <1>12

-----------------------------------------------------------------------------
(* The theorems.                                                           *)

\* The walk over the sorted list decides on the corrections Seating names, for
\* every two lists a race may deliver and whatever creation times tie
\* (capacity.ts:41-79).
THEOREM WalkIsSeating == LoopSpec => []WalkAgrees
<1>1. Walking => WalkAgrees
  BY Decisions DEF WalkAgrees
<1> QED BY <1>1, WalkingAlways, PTL

\* A booking found in both lists is never corrected both ways by one walk
\* (capacity.ts:79).
THEOREM WalkIsOneWay == LoopSpec => []NeverBothWays
<1>1. Walking => NeverBothWays
  <2> SUFFICES ASSUME Walking PROVE NeverBothWays
    OBVIOUS
  <2>1. /\ MaxBookings \in Nat /\ confirmed \in SUBSET (1..MaxBookings)
        /\ waitlisted \in SUBSET (1..MaxBookings) /\ Monotone(MaxBookings, at) /\ capacity \in Nat
    BY LoopAssumption DEF Walking, Bookings
  <2>2. Promotions(confirmed, waitlisted, at, capacity)
          \cap Demotions(confirmed, waitlisted, at, capacity) = {}
    BY <2>1, OneWay
  <2> QED BY <2>2, Decisions DEF NeverBothWays
<1> QED BY <1>1, WalkingAlways, PTL

\* When the two lists have no booking in common, a second walk right after the
\* corrections of the first decides on none, whatever creation times tie.
THEOREM SecondWalkIsIdle == LoopSpec => []SecondPassIsIdle
<1>1. Walking => SecondPassIsIdle
  <2> SUFFICES ASSUME Walking, Done, confirmed \cap waitlisted = {} PROVE SecondPassIsIdle
    BY DEF SecondPassIsIdle
  <2>1. /\ MaxBookings \in Nat /\ confirmed \in SUBSET (1..MaxBookings)
        /\ waitlisted \in SUBSET (1..MaxBookings) /\ Monotone(MaxBookings, at) /\ capacity \in Nat
    BY LoopAssumption DEF Walking, Bookings
  <2>2. /\ promoted = Promotions(confirmed, waitlisted, at, capacity)
        /\ demoted = Demotions(confirmed, waitlisted, at, capacity)
    BY Decisions
  <2> QED BY <2>1, <2>2, SecondPass DEF SecondPassIsIdle
<1> QED BY <1>1, WalkingAlways, PTL
=============================================================================
