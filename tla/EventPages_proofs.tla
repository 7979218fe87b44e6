--------------------------- MODULE EventPages_proofs ---------------------------
(***************************************************************************)
(* What the pages of one event show: a user's own writes, no deleted       *)
(* event, and no Book button to who holds a booking, but for the gaps the  *)
(* properties name; for every number of mutations under way at a time, of  *)
(* mutations, of failures and of writes of other people, and whatever      *)
(* queries are followed.                                                   *)
(*                                                                         *)
(* The arguments.  A query that nothing overtook holds or is about to get  *)
(* data as new as the last write of the user that settled, because         *)
(* settling either marks its data stale or starts its fetch anew.  While   *)
(* an event is gone, either its deletion has not settled, and will remove  *)
(* it from the cache, or every write to it that is yet to settle is older. *)
(* An answer that tells a user free of bookings is older than the write of *)
(* the booking held, whose handler is under way, has settled or failed.    *)
(* A write whose answer is lost settles nothing: it is noted as such, and  *)
(* the two claims it would break name it.                                  *)
(***************************************************************************)
EXTENDS EventPages, TLAPS

-----------------------------------------------------------------------------
(* What is left of a handler.                                              *)

Ops == {"book", "cancel", "checkin", "create", "update", "delete"}

Done == <<>>
S    == <<"settle">>
RS   == <<"reconcile", "settle">>
ARS  == <<"activity", "reconcile", "settle">>
BARS == <<"bookings", "activity", "reconcile", "settle">>
AS   == <<"activity", "settle">>
BAS  == <<"bookings", "activity", "settle">>
A    == <<"activity">>
SA   == <<"settle", "activity">>
ESA  == <<"events", "settle", "activity">>
ES   == <<"events", "settle">>

Lefts == {Done, S, RS, ARS, BARS, AS, BAS, A, SA, ESA, ES}

\* Head, rest and kind of each.
LEMMA Heads ==
  /\ Head(S) = "settle" /\ Head(RS) = "reconcile" /\ Head(ARS) = "activity"
  /\ Head(BARS) = "bookings" /\ Head(AS) = "activity" /\ Head(BAS) = "bookings"
  /\ Head(A) = "activity" /\ Head(SA) = "settle" /\ Head(ESA) = "events" /\ Head(ES) = "events"
BY DEF S, RS, ARS, BARS, AS, BAS, A, SA, ESA, ES

LEMMA Tails ==
  /\ Tail(S) = Done /\ Tail(RS) = S /\ Tail(ARS) = RS /\ Tail(BARS) = ARS /\ Tail(AS) = S
  /\ Tail(BAS) = AS /\ Tail(A) = Done /\ Tail(SA) = A /\ Tail(ESA) = SA /\ Tail(ES) = S
<1>1. Tail(S) = Done /\ Tail(A) = Done
  BY DEF S, A, Done
<1>2. Tail(RS) = S /\ Tail(AS) = S /\ Tail(ES) = S /\ Tail(SA) = A
  BY DEF S, RS, AS, ES, A, SA
<1>3. Tail(ARS) = RS /\ Tail(BAS) = AS /\ Tail(ESA) = SA
  BY DEF ARS, RS, BAS, AS, ESA, SA
<1>4. Tail(BARS) = ARS
  BY DEF BARS, ARS
<1> QED
  BY <1>1, <1>2, <1>3, <1>4

LEMMA Unfinished ==
  \A s \in {S, RS, ARS, BARS, AS, BAS, A, SA, ESA, ES} : s # <<>>
BY DEF S, RS, ARS, BARS, AS, BAS, A, SA, ESA, ES

LEMMA LeftsAreCalls == Lefts \subseteq Seq(Collections \cup {"reconcile", "settle"})
BY DEF Lefts, Done, S, RS, ARS, BARS, AS, BAS, A, SA, ESA, ES, Collections

LEMMA Scripts ==
  /\ DOMAIN Script = Ops
  /\ Script["book"] = BARS /\ Script["cancel"] = BARS /\ Script["checkin"] = BAS
  /\ Script["create"] = ESA /\ Script["update"] = ESA /\ Script["delete"] = ES
BY DEF Script, Ops, BARS, BAS, ESA, ES

\* How far a handler is, and what it has written.
Stage(op, left, wrote) ==
  \/ op = "none" /\ left = Done
  \/ op \in {"book", "cancel"}
     /\ \/ left = BARS /\ wrote["bookings"] = 0 /\ wrote["activity"] = 0
        \/ left = ARS /\ wrote["bookings"] >= 1
        \/ left \in {RS, S, Done} /\ wrote["bookings"] >= 1 /\ wrote["activity"] >= 1
  \/ op = "checkin"
     /\ \/ left = BAS
        \/ left = AS /\ wrote["bookings"] >= 1
        \/ left \in {S, Done} /\ wrote["bookings"] >= 1 /\ wrote["activity"] >= 1
  \/ op \in {"create", "update"}
     /\ \/ left = ESA /\ wrote["events"] = 0
        \/ left \in {SA, A, Done} /\ wrote["events"] >= 1
  \/ op = "delete"
     /\ \/ left = ES
        \/ left \in {S, Done} /\ wrote["events"] >= 1

\* One step of a handler.
LEMMA Stepping ==
  ASSUME NEW op \in Ops \cup {"none"}, NEW left \in Lefts, NEW wrote \in [Collections -> Nat],
         Stage(op, left, wrote), left # <<>>
  PROVE  /\ op \in Ops /\ Tail(left) \in Lefts
         /\ Head(left) \in Collections \cup {"reconcile", "settle"}
         /\ Head(left) \in Collections =>
              \A n \in Nat \ {0} : Stage(op, Tail(left), [wrote EXCEPT ![Head(left)] = n])
         /\ Head(left) \notin Collections => Stage(op, Tail(left), wrote)
         /\ op = "book" => (Head(left) = "settle" \/ Tail(left) # <<>>)
         /\ op = "book" /\ Head(left) = "bookings" => wrote["bookings"] = 0
         /\ op = "delete" => ((Head(left) = "events" /\ Tail(left) = S) \/ left = S)
         /\ Head(left) = "settle" =>
              /\ op = "delete" => left = S
              /\ \A k \in About(op) : k \in Keys /\ wrote[CollectionOf(k)] >= 1
<1>1. {"events", "bookings", "activity"} = Collections
  BY DEF Collections
<1>2. /\ "settle" \notin Collections /\ "reconcile" \notin Collections
      /\ "events" \in Collections /\ "bookings" \in Collections /\ "activity" \in Collections
  BY DEF Collections
<1>3. /\ CollectionOf("events") = "events" /\ CollectionOf("event") = "events"
      /\ CollectionOf("count") = "bookings" /\ CollectionOf("mine") = "bookings"
      /\ CollectionOf("bookings") = "bookings" /\ CollectionOf("activity") = "activity"
  BY DEF CollectionOf
<1>4. /\ S # RS /\ S # BARS /\ S # ARS /\ S # Done /\ S # ESA /\ S # SA /\ S # BAS /\ S # AS
  BY DEF S, RS, BARS, ARS, Done, ESA, SA, BAS, AS
<1>5. \A n \in Nat \ {0} : n >= 1
  OBVIOUS
<1> USE <1>2, <1>5, Heads, Tails, Unfinished
<1>6. CASE op \in {"book", "cancel"} /\ left = BARS
  <2>1. About(op) = {"count", "mine", "bookings", "activity"}
    BY <1>6 DEF About
  <2> QED
    BY <1>6 DEF Stage, Ops, Lefts, Done
<1>7. CASE op \in {"book", "cancel"} /\ left = ARS
  BY <1>7 DEF Stage, Ops, Lefts, Done
<1>8. CASE op \in {"book", "cancel"} /\ left \in {RS, S}
  <2>1. About(op) = {"count", "mine", "bookings", "activity"}
    BY <1>8 DEF About
  <2>2. wrote["bookings"] >= 1 /\ wrote["activity"] >= 1
    BY <1>8, <1>4 DEF Stage
  <2> QED
    BY <1>8, <1>3, <2>1, <2>2 DEF Stage, Ops, Lefts, Done, Keys
<1>9. CASE op = "checkin"
  <2>1. About(op) = {"count", "mine", "bookings", "activity"}
    BY <1>9 DEF About
  <2>2. left = S => wrote["bookings"] >= 1 /\ wrote["activity"] >= 1
    BY <1>9, <1>4 DEF Stage
  <2>3. left \in {BAS, AS, S}
    BY <1>9 DEF Stage, Done
  <2> QED
    BY <1>9, <1>3, <2>1, <2>2, <2>3 DEF Stage, Ops, Lefts, Done, Keys
<1>10. CASE op \in {"create", "update"}
  <2>1. About(op) = {"events", "event"}
    BY <1>10 DEF About
  <2>2. left = SA => wrote["events"] >= 1
    BY <1>10 DEF Stage, SA, ESA
  <2>3. left \in {ESA, SA, A}
    BY <1>10 DEF Stage, Done
  <2> QED
    BY <1>10, <1>3, <2>1, <2>2, <2>3 DEF Stage, Ops, Lefts, Done, Keys
<1>11. CASE op = "delete"
  <2>1. About(op) = {"events"}
    BY <1>11 DEF About
  <2>2. left = S => wrote["events"] >= 1
    BY <1>11 DEF Stage, S, ES
  <2>3. left \in {ES, S}
    BY <1>11 DEF Stage, Done
  <2> QED
    BY <1>11, <1>3, <2>1, <2>2, <2>3 DEF Stage, Ops, Lefts, Done, Keys
<1> QED
  BY <1>6, <1>7, <1>8, <1>9, <1>10, <1>11 DEF Stage, Ops, Done

-----------------------------------------------------------------------------
(* Types.                                                                  *)

Query == [data : Data, fresh : BOOLEAN, fetching : BOOLEAN, answer : Data]
Job == [op : Ops \cup {"none"}, left : Lefts, wrote : [Collections -> Nat], here : BOOLEAN]

Typed ==
  /\ setting \in Settings
  /\ store \in [Collections -> Nat] /\ booked \in [active : Nat, cancelled : BOOLEAN]
  /\ exists \in BOOLEAN /\ page \in Pages /\ under \subseteq Keys
  /\ cache \in [Keys -> Query] /\ job \in [Jobs -> Job]
  /\ starts \in 0..MaxStarts /\ misses \in 0..MaxMisses
  /\ own \in [Keys -> Nat] /\ overtaken \in [Keys -> BOOLEAN]
  /\ brokenOff \in BOOLEAN /\ unanswered \in BOOLEAN

Staged == \A j \in Jobs : Stage(job[j].op, job[j].left, job[j].wrote)

LEMMA TypedImplies == Typed => TypeOK
<1> SUFFICES ASSUME Typed PROVE TypeOK
  OBVIOUS
<1>1. ASSUME NEW j \in Jobs
      PROVE  /\ job[j].op \in DOMAIN Script \cup {"none"} /\ job[j].here \in BOOLEAN
             /\ job[j].left \in Seq(Collections \cup {"reconcile", "settle"})
             /\ job[j].wrote \in [Collections -> Nat]
  <2>1. job[j] \in Job
    BY DEF Typed
  <2> QED
    BY <2>1, LeftsAreCalls, Scripts DEF Job
<1>2. cache \in [Keys -> [data : Data, fresh : BOOLEAN, fetching : BOOLEAN, answer : Data]]
  BY DEF Typed, Query
<1> QED
  BY <1>1, <1>2 DEF Typed, TypeOK

LEMMA KeyNames ==
  /\ {"events", "event", "count", "mine", "bookings", "activity"} = Keys
  /\ \A k \in Keys : CollectionOf(k) \in Collections
  /\ CollectionOf("mine") = "bookings" /\ CollectionOf("event") = "events"
  /\ CollectionOf("events") = "events"
  /\ {"events", "bookings", "activity"} = Collections
  /\ "settle" \notin Collections /\ "reconcile" \notin Collections
BY DEF Keys, CollectionOf, Collections

\* The backend's answer.
LEMMA ReadIs ==
  ASSUME Typed, NEW k \in Keys
  PROVE  /\ Read(k) \in Data /\ NoData \in Data
         /\ Read(k) = NoData \/ (Read(k).seen /\ Read(k).at = store[CollectionOf(k)])
         /\ k = "event" /\ ~exists => Read(k) = NoData
         /\ k = "mine" /\ booked.active > 0 /\ ~booked.cancelled => ~Read(k).free
<1>1. CollectionOf(k) \in Collections /\ store[CollectionOf(k)] \in Nat
  BY KeyNames DEF Typed
<1>2. MayShowFree(k) \in BOOLEAN
  BY DEF MayShowFree, Typed
<1>3. k = "mine" /\ booked.active > 0 /\ ~booked.cancelled => ~MayShowFree(k)
  BY DEF MayShowFree, Typed
<1> QED
  BY <1>1, <1>2, <1>3 DEF Read, NoData, Data

-----------------------------------------------------------------------------
(* One query: the data and the answer it waits for, the last write of the  *)
(* user's that is about it, whether it was overtaken, and the writes to    *)
(* its collection.                                                         *)

Sound(q, last, over, written) ==
  /\ last <= written /\ q.data.at <= written /\ q.answer.at <= written
  /\ q.fresh => q.data.seen
  /\ q.fresh /\ ~over => q.data.at >= last
  /\ q.answer.seen \/ q.answer = NoData
  /\ q.answer.seen => q.fetching
  /\ q.answer.seen /\ ~over => q.answer.at >= last
  /\ over => last >= 1

LEMMA SoundLater ==
  ASSUME NEW q \in Query, NEW last \in Nat, NEW over \in BOOLEAN, NEW written \in Nat,
         Sound(q, last, over, written), NEW later \in Nat, later >= written
  PROVE  Sound(q, last, over, later)
BY DEF Sound, Query, Data

\* A fetch begins, or its answer is read anew.
LEMMA SoundFetching ==
  ASSUME Typed, NEW k \in Keys, NEW q \in Query, NEW last \in Nat, NEW over \in BOOLEAN,
         Sound(q, last, over, store[CollectionOf(k)])
  PROVE  /\ [q EXCEPT !.fetching = TRUE, !.answer = Read(k)] \in Query
         /\ Sound([q EXCEPT !.fetching = TRUE, !.answer = Read(k)], last, over, store[CollectionOf(k)])
<1> DEFINE r == [q EXCEPT !.fetching = TRUE, !.answer = Read(k)]
<1>1. store[CollectionOf(k)] \in Nat
  BY KeyNames DEF Typed
<1>2. r \in Query /\ r.data = q.data /\ r.fresh = q.fresh /\ r.fetching /\ r.answer = Read(k)
  BY ReadIs DEF Query
<1>3. NoData.at = 0 /\ ~NoData.seen
  BY DEF NoData
<1> HIDE DEF r
<1>4. Sound(r, last, over, store[CollectionOf(k)])
  BY <1>1, <1>2, <1>3, ReadIs DEF Sound, Query, Data
<1> QED
  BY <1>2, <1>4 DEF r

\* The fetch ends, with the answer or without.
LEMMA SoundReceived ==
  ASSUME NEW q \in Query, NEW last \in Nat, NEW over \in BOOLEAN, NEW written \in Nat,
         Sound(q, last, over, written),
         NEW r \in {Received(IF q.answer.seen THEN Holding(q, q.answer) ELSE q)}
  PROVE  /\ r \in Query /\ r.answer = NoData
         /\ r.data = IF q.answer.seen THEN q.answer ELSE q.data
         /\ Sound(r, last, over /\ q.answer.at < last, written)
         /\ over /\ ~q.answer.seen => q.answer.at < last
<1>1. NoData \in Data /\ NoData.at = 0 /\ ~NoData.seen
  BY DEF NoData, Data
<1>2. CASE q.answer.seen
  <2>1. /\ r \in Query /\ r.data = q.answer /\ r.fresh /\ ~r.fetching /\ r.answer = NoData
    BY <1>1, <1>2 DEF Query, Received, Holding
  <2> QED
    BY <1>1, <1>2, <2>1 DEF Sound, Query, Data
<1>3. CASE ~q.answer.seen
  <2>1. /\ r \in Query /\ r.data = q.data /\ r.fresh = q.fresh /\ ~r.fetching /\ r.answer = NoData
    BY <1>1, <1>3 DEF Query, Received
  <2>2. over => 0 < last
    BY DEF Sound
  <2>3. q.answer.at = 0
    BY <1>1, <1>3 DEF Sound
  <2> QED
    BY <1>1, <1>3, <2>1, <2>2, <2>3 DEF Sound, Query, Data
<1> QED
  BY <1>2, <1>3

LEMMA SoundFailed ==
  ASSUME NEW q \in Query, NEW last \in Nat, NEW over \in BOOLEAN, NEW written \in Nat,
         Sound(q, last, over, written)
  PROVE  /\ Received(q) \in Query /\ Received(q).answer = NoData /\ Received(q).data = q.data
         /\ Sound(Received(q), last, over, written)
<1>1. NoData \in Data /\ NoData.at = 0 /\ ~NoData.seen
  BY DEF NoData, Data
<1>2. /\ Received(q) \in Query /\ Received(q).data = q.data /\ Received(q).fresh = q.fresh
      /\ Received(q).answer = NoData
  BY <1>1 DEF Query, Received
<1> QED
  BY <1>1, <1>2 DEF Sound, Query, Data

\* The query is invalidated by a mutation that is about it.
LEMMA SoundInvalidated ==
  ASSUME Typed, NEW k \in Keys, NEW q \in Query,
         q.data.at <= store[CollectionOf(k)], q.answer.at <= store[CollectionOf(k)],
         q.answer.seen \/ q.answer = NoData, q.answer.seen => q.fetching,
         NEW lately \in Nat, lately <= store[CollectionOf(k)], 1 <= lately,
         NEW overtakes \in BOOLEAN, q.fetching /\ ~Restarts(k, q) => overtakes
  PROVE  /\ Invalidated(k, q) \in Query /\ Invalidated(k, q).data = q.data
         /\ Invalidated(k, q).answer \in {q.answer, Read(k)}
         /\ Sound(Invalidated(k, q), lately, overtakes, store[CollectionOf(k)])
<1> DEFINE r == [q EXCEPT !.fresh = FALSE]
<1>1. store[CollectionOf(k)] \in Nat
  BY KeyNames DEF Typed
<1>2. /\ r \in Query /\ r.data = q.data /\ ~r.fresh /\ r.fetching = q.fetching
      /\ r.answer = q.answer
  BY DEF Query
<1> HIDE DEF r
<1>3. NoData.at = 0 /\ ~NoData.seen
  BY DEF NoData
<1>4. CASE Restarts(k, q)
  <2> DEFINE i == Invalidated(k, q)
  <2>1. i = [r EXCEPT !.fetching = TRUE, !.answer = Read(k)]
    BY <1>4 DEF Invalidated, Fetching, r
  <2>2. i \in Query /\ i.data = q.data /\ ~i.fresh /\ i.fetching /\ i.answer = Read(k)
    BY <2>1, <1>2, ReadIs DEF Query
  <2> HIDE DEF i
  <2>3. Sound(i, lately, overtakes, store[CollectionOf(k)])
    BY <1>1, <1>3, <2>2, ReadIs DEF Sound, Query, Data
  <2> QED
    BY <2>2, <2>3 DEF i
<1>5. CASE ~Restarts(k, q)
  <2>1. Invalidated(k, q) = r
    BY <1>5 DEF Invalidated, r
  <2>2. Sound(r, lately, overtakes, store[CollectionOf(k)])
    BY <1>1, <1>2, <1>3, <1>5 DEF Sound, Query, Data
  <2> QED
    BY <1>2, <2>1, <2>2
<1> QED
  BY <1>4, <1>5

-----------------------------------------------------------------------------
(* The invariant.                                                          *)

Counted == \A j \in Jobs : \A c \in Collections : job[j].wrote[c] <= store[c]

\* What is about the document is about the list.
Ordered == own["event"] <= own["events"]

Sounds == \A k \in Keys : Sound(cache[k], own[k], overtaken[k], store[CollectionOf(k)])

\* A deletion that has reached the store and not settled.
Deleting(d) == job[d].op = "delete" /\ job[d].left = S

\* A document that a create or an update wrote and may yet put into the cache.
Saved(j) == job[j].op \in {"create", "update"} /\ job[j].wrote["events"] >= 1

Removed ==
  ~exists /\ ~unanswered =>
    /\ \A j \in Jobs : Saved(j) =>
         Late(j) \/ \E d \in Jobs : Deleting(d) /\ job[j].wrote["events"] < job[d].wrote["events"]
    /\ cache["event"].answer.seen => \E d \in Jobs : Deleting(d)
    /\ cache["event"].data.seen => overtaken["event"] \/ \E d \in Jobs : Deleting(d)

\* A booking that is in the store and whose handler goes on.
Booked(j) == job[j].op = "book" /\ Going(j) /\ job[j].wrote["bookings"] >= 1

\* Data that tells the user free of bookings is from before one that is held.
Older(data) ==
  data.seen /\ data.free =>
    data.at < own["mine"] \/ \E j \in Jobs : Booked(j) /\ data.at < job[j].wrote["bookings"]

BookingSeen ==
  booked.active > 0 /\ ~booked.cancelled /\ ~brokenOff =>
    Older(cache["mine"].data) /\ Older(cache["mine"].answer)

Inv == Typed /\ Staged /\ Counted /\ Ordered /\ Sounds /\ Removed /\ BookingSeen

-----------------------------------------------------------------------------
(* Steps that settle nothing.                                              *)

\* What such a step keeps of the handlers.
Carried ==
  /\ \A d \in Jobs : Deleting(d) => Deleting(d)' /\ job'[d].wrote = job[d].wrote
  /\ \A j \in Jobs : Booked(j) /\ ~brokenOff' =>
       Booked(j)' /\ job'[j].wrote["bookings"] = job[j].wrote["bookings"]
  /\ \A j \in Jobs : Saved(j)' => Saved(j) /\ job'[j].wrote["events"] = job[j].wrote["events"]

\* What it may do to a query.
Step(k) ==
  \/ cache'[k] = cache[k] /\ overtaken'[k] = overtaken[k]
  \/ cache'[k] = [cache[k] EXCEPT !.fetching = TRUE, !.answer = Read(k)]
     /\ overtaken'[k] = overtaken[k]
  \/ cache'[k] = Received(cache[k]) /\ overtaken'[k] = overtaken[k]
  \/ cache'[k] = Received(IF cache[k].answer.seen THEN Holding(cache[k], cache[k].answer)
                          ELSE cache[k])
     /\ overtaken'[k] = (overtaken[k] /\ cache[k].answer.at < own[k])

Grows == \A c \in Collections : store'[c] >= store[c]

LEMMA StepSound ==
  ASSUME Inv, Typed', NEW k \in Keys, Step(k), own'[k] = own[k], Grows
  PROVE  /\ Sound(cache'[k], own'[k], overtaken'[k], store'[CollectionOf(k)])
         /\ cache'[k].answer \in {NoData, cache[k].answer, Read(k)}
         /\ \/ cache'[k].data = cache[k].data /\ (overtaken[k] => overtaken'[k])
            \/ cache'[k].data = cache[k].answer /\ cache[k].answer.seen
<1>1. /\ cache[k] \in Query /\ own[k] \in Nat /\ overtaken[k] \in BOOLEAN
      /\ store[CollectionOf(k)] \in Nat /\ Sound(cache[k], own[k], overtaken[k], store[CollectionOf(k)])
  BY KeyNames DEF Inv, Typed, Sounds
<1>2. /\ cache'[k] \in Query /\ overtaken'[k] \in BOOLEAN /\ own'[k] = own[k]
      /\ store'[CollectionOf(k)] \in Nat /\ store'[CollectionOf(k)] >= store[CollectionOf(k)]
  BY KeyNames DEF Typed, Grows
<1>3. SUFFICES
        /\ Sound(cache'[k], own[k], overtaken'[k], store[CollectionOf(k)])
        /\ cache'[k].answer \in {NoData, cache[k].answer, Read(k)}
        /\ \/ cache'[k].data = cache[k].data /\ (overtaken[k] => overtaken'[k])
           \/ cache'[k].data = cache[k].answer /\ cache[k].answer.seen
  BY <1>1, <1>2, SoundLater
<1>4. CASE cache'[k] = cache[k] /\ overtaken'[k] = overtaken[k]
  BY <1>1, <1>4
<1>5. CASE cache'[k] = [cache[k] EXCEPT !.fetching = TRUE, !.answer = Read(k)]
           /\ overtaken'[k] = overtaken[k]
  <2>1. Sound(cache'[k], own[k], overtaken[k], store[CollectionOf(k)])
    BY <1>1, <1>5, SoundFetching DEF Inv
  <2>2. cache'[k].answer = Read(k) /\ cache'[k].data = cache[k].data
    BY <1>1, <1>5 DEF Query
  <2> QED
    BY <1>5, <2>1, <2>2
<1>6. CASE cache'[k] = Received(cache[k]) /\ overtaken'[k] = overtaken[k]
  BY <1>1, <1>6, SoundFailed
<1>7. CASE /\ cache'[k] = Received(IF cache[k].answer.seen
                                   THEN Holding(cache[k], cache[k].answer) ELSE cache[k])
           /\ overtaken'[k] = (overtaken[k] /\ cache[k].answer.at < own[k])
  BY <1>1, <1>7, SoundReceived
<1> QED
  BY <1>4, <1>5, <1>6, <1>7 DEF Step

LEMMA SoundsKept ==
  ASSUME Inv, Typed', Grows, \A k \in Keys : Step(k), own' = own
  PROVE  Sounds'
<1> SUFFICES ASSUME NEW k \in Keys
             PROVE  Sound(cache'[k], own'[k], overtaken'[k], store'[CollectionOf(k)])
  BY DEF Sounds, Sound, Typed, CollectionOf
<1> QED
  BY StepSound

LEMMA RemovedKept ==
  ASSUME Inv, Typed', Carried, Grows, Step("event"), exists' = exists, unanswered' = unanswered,
         own'["event"] = own["event"], own'["events"] = own["events"]
  PROVE  Removed'
<1>1. "event" \in Keys /\ own'["events"] = own["events"]
  BY KeyNames
<1>2. SUFFICES ASSUME ~exists, ~unanswered PROVE Removed'
  BY DEF Removed
<1>3. /\ \A j \in Jobs : Saved(j) =>
           Late(j) \/ \E d \in Jobs : Deleting(d) /\ job[j].wrote["events"] < job[d].wrote["events"]
      /\ cache["event"].answer.seen => \E d \in Jobs : Deleting(d)
      /\ cache["event"].data.seen => overtaken["event"] \/ \E d \in Jobs : Deleting(d)
  BY <1>2 DEF Inv, Removed
<1>4. /\ cache'["event"].answer \in {NoData, cache["event"].answer}
      /\ \/ /\ cache'["event"].data = cache["event"].data
            /\ overtaken["event"] => overtaken'["event"]
         \/ cache'["event"].data = cache["event"].answer /\ cache["event"].answer.seen
  BY <1>1, <1>2, StepSound, ReadIs DEF Inv
<1>5. (\E d \in Jobs : Deleting(d)) => \E d \in Jobs : Deleting(d)'
  BY DEF Carried
<1>6. ASSUME NEW j \in Jobs, Saved(j)'
      PROVE  Late(j)' \/ \E d \in Jobs : Deleting(d)' /\ job'[j].wrote["events"] < job'[d].wrote["events"]
  <2>1. Saved(j) /\ job'[j].wrote["events"] = job[j].wrote["events"]
    BY <1>6 DEF Carried
  <2>2. CASE Late(j)
    BY <1>1, <2>1, <2>2 DEF Late
  <2>3. ASSUME NEW d \in Jobs, Deleting(d), job[j].wrote["events"] < job[d].wrote["events"]
        PROVE  Deleting(d)' /\ job'[j].wrote["events"] < job'[d].wrote["events"]
    BY <2>1, <2>3 DEF Carried
  <2> QED
    BY <1>3, <2>1, <2>2, <2>3
<1>7. ~NoData.seen
  BY DEF NoData
<1> QED
  BY <1>3, <1>4, <1>5, <1>6, <1>7 DEF Removed

LEMMA SeenKept ==
  ASSUME Inv, Typed', Carried, Grows, Step("mine"), booked' = booked,
         own'["mine"] = own["mine"],
         brokenOff => brokenOff'
  PROVE  BookingSeen'
<1>1. "mine" \in Keys
  BY KeyNames
<1>2. SUFFICES ASSUME booked.active > 0, ~booked.cancelled, ~brokenOff, ~brokenOff'
               PROVE  Older(cache["mine"].data)' /\ Older(cache["mine"].answer)'
  BY DEF BookingSeen
<1>3. Older(cache["mine"].data) /\ Older(cache["mine"].answer)
  BY <1>2 DEF Inv, BookingSeen
<1>4. ASSUME NEW data, Older(data) PROVE Older(data)'
  <2>1. own'["mine"] = own["mine"]
    OBVIOUS
  <2> QED
    BY <1>2, <1>4, <2>1 DEF Older, Carried
<1>5. /\ cache'["mine"].answer \in {NoData, cache["mine"].answer, Read("mine")}
      /\ cache'["mine"].data \in {cache["mine"].data, cache["mine"].answer}
  BY <1>1, StepSound
<1>6. ~NoData.seen /\ ~Read("mine").free
  BY <1>1, <1>2, ReadIs DEF Inv, NoData
<1> QED
  BY <1>3, <1>4, <1>5, <1>6 DEF Older

LEMMA Quiet ==
  ASSUME Inv, Typed', Staged', Counted', Carried, Grows, \A k \in Keys : Step(k),
         exists' = exists, booked' = booked, own' = own, brokenOff => brokenOff',
         unanswered' = unanswered
  PROVE  Inv'
BY KeyNames, SoundsKept, RemovedKept, SeenKept DEF Inv, Ordered

-----------------------------------------------------------------------------
(* The handlers of a step that settles nothing.                            *)

SameJob(j) ==
  job'[j].op = job[j].op /\ job'[j].left = job[j].left /\ job'[j].wrote = job[j].wrote

LEMMA NoJobIs ==
  /\ NoJob \in Job /\ NoJob.op = "none" /\ NoJob.left = Done
  /\ \A c \in Collections : NoJob.wrote[c] = 0
BY DEF NoJob, Job, Lefts, Done, Unwritten

LEMMA StoreGrows ==
  ASSUME Typed, Typed', Grows, NEW n \in Nat, NEW c \in Collections, n <= store[c]
  PROVE  n <= store'[c]
BY DEF Typed, Grows

\* The handlers but one stay; that one has returned, begins, or is over.
LEMMA Carrying ==
  ASSUME Inv, Typed', Grows, \A j \in Jobs : SameJob(j) \/ job[j].left = Done,
         \A j \in Jobs : SameJob(j)
                         \/ job'[j] = NoJob
                         \/ /\ job'[j].op \in Ops /\ job'[j].left = Script[job'[j].op]
                            /\ \A c \in Collections : job'[j].wrote[c] = 0
  PROVE  Staged' /\ Counted' /\ Carried
<1>1. "bookings" \in Collections /\ "events" \in Collections /\ "activity" \in Collections
  BY KeyNames
<1>2. \A j \in Jobs : job[j] \in Job /\ job'[j] \in Job
  BY DEF Inv, Typed
<1>3. Staged'
  <2> SUFFICES ASSUME NEW j \in Jobs PROVE Stage(job'[j].op, job'[j].left, job'[j].wrote)
    BY DEF Staged, Stage
  <2>1. CASE SameJob(j)
    BY <2>1 DEF Inv, Staged, SameJob
  <2>2. CASE job'[j] = NoJob
    BY <2>2, NoJobIs DEF Stage
  <2>3. CASE /\ job'[j].op \in Ops /\ job'[j].left = Script[job'[j].op]
             /\ \A c \in Collections : job'[j].wrote[c] = 0
    BY <1>1, <2>3, Scripts DEF Stage, Ops
  <2> QED
    BY <2>1, <2>2, <2>3
<1>4. Counted'
  <2> SUFFICES ASSUME NEW j \in Jobs, NEW c \in Collections PROVE job'[j].wrote[c] <= store'[c]
    BY DEF Counted
  <2>1. store[c] \in Nat /\ store'[c] \in Nat /\ store'[c] >= store[c]
    BY DEF Inv, Typed, Grows
  <2>2. CASE SameJob(j)
    BY <1>2, <2>1, <2>2 DEF Inv, Counted, SameJob, Job
  <2>3. CASE job'[j].wrote[c] = 0
    BY <2>1, <2>3
  <2> QED
    BY <2>2, <2>3, NoJobIs
<1>5. Carried
  <2>1. ASSUME NEW d \in Jobs, Deleting(d) PROVE SameJob(d)
    BY <2>1, Unfinished DEF Deleting, Done
  <2>2. ASSUME NEW j \in Jobs, Booked(j) PROVE SameJob(j)
    BY <2>2 DEF Booked, Going, Done
  <2>3. ASSUME NEW j \in Jobs, Saved(j)' PROVE SameJob(j)
    <3>1. job'[j].wrote["events"] # 0
      BY <1>1, <1>2, <2>3 DEF Saved
    <3> QED
      BY <1>1, <3>1, NoJobIs
  <2> QED
    BY <2>1, <2>2, <2>3 DEF Carried, SameJob, Deleting, Booked, Saved, Going
<1> QED
  BY <1>3, <1>4, <1>5

LEMMA StoreSame == ASSUME Typed, store' = store PROVE Grows
BY DEF Typed, Grows

-----------------------------------------------------------------------------
(* Pages and fetches.                                                      *)

Fetches(k) == [cache[k] EXCEPT !.fetching = TRUE, !.answer = Read(k)]

LEMMA FetchesTyped == ASSUME Typed, NEW k \in Keys PROVE Fetches(k) \in Query
<1>1. cache[k] \in Query
  BY DEF Typed
<1> QED
  BY <1>1, ReadIs DEF Fetches, Query

LEMMA Entering ==
  ASSUME Typed, NEW p \in Pages, Enter(p)
  PROVE  /\ page' \in Pages /\ under' \subseteq Keys /\ cache' \in [Keys -> Query]
         /\ \A k \in Keys : cache'[k] = cache[k] \/ cache'[k] = Fetches(k)
<1>1. setting.watched \subseteq Keys
  BY PageConstants DEF Typed
<1>2. under \cup Queries(page) \subseteq Keys
  BY <1>1 DEF Typed, Queries
<1>3. under' \subseteq Keys
  BY <1>2 DEF Enter
<1>4. PICK starting \in SUBSET Keys :
        cache' = [k \in Keys |-> IF k \in starting THEN Fetching(k, cache[k]) ELSE cache[k]]
  <2> DEFINE starting == {k \in Queries(p) : ~Open(k) /\ ~cache[k].fresh /\ ~cache[k].fetching}
  <2>1. starting \in SUBSET Keys
    BY <1>1 DEF Queries
  <2>2. cache' = [k \in Keys |-> IF k \in starting THEN Fetching(k, cache[k]) ELSE cache[k]]
    BY DEF Enter
  <2> QED
    BY <2>1, <2>2
<1>5. ASSUME NEW k \in Keys
      PROVE  (IF k \in starting THEN Fetching(k, cache[k]) ELSE cache[k]) \in Query
             /\ cache'[k] \in {cache[k], Fetches(k)}
  <2>1. cache[k] \in Query /\ Fetching(k, cache[k]) = Fetches(k)
    BY DEF Typed, Fetching, Fetches
  <2> QED
    BY <1>4, <2>1, FetchesTyped
<1>6. cache' \in [Keys -> Query]
  BY <1>4, <1>5
<1> QED
  BY <1>3, <1>5, <1>6 DEF Enter

LEMMA VisitKeeps ==
  ASSUME Inv, NEW p \in Pages, Visit(p)
  PROVE  Inv'
<1>1. Typed
  BY DEF Inv
<1>2. /\ page' \in Pages /\ under' \subseteq Keys /\ cache' \in [Keys -> Query]
      /\ \A k \in Keys : cache'[k] = cache[k] \/ cache'[k] = Fetches(k)
  BY <1>1, Entering DEF Visit
<1>3. /\ UNCHANGED <<setting, store, booked, exists, starts, misses, own, overtaken, brokenOff,
                     unanswered>>
      /\ job' = [j \in Jobs |-> [job[j] EXCEPT !.here = FALSE]]
  BY DEF Visit, backend, bounds, history
<1>4. \A j \in Jobs : [job[j] EXCEPT !.here = FALSE] \in Job /\ SameJob(j)
  BY <1>1, <1>3 DEF Typed, Job, SameJob
<1>5. Typed'
  BY <1>1, <1>2, <1>3, <1>4 DEF Typed
<1>6. Grows /\ \A k \in Keys : Step(k)
  BY <1>1, <1>2, <1>3, StoreSame DEF Step, Fetches
<1>7. Staged' /\ Counted' /\ Carried
  BY <1>4, <1>5, <1>6, Carrying
<1> QED
  BY <1>3, <1>5, <1>6, <1>7, Quiet

LEMMA FetchKeeps ==
  ASSUME Inv, NEW k \in Keys, Serve(k) \/ Receive(k) \/ FetchFails(k) \/ Refetch(k)
  PROVE  Inv'
<1>1. Typed /\ cache \in [Keys -> Query] /\ cache[k] \in Query
      /\ overtaken \in [Keys -> BOOLEAN] /\ own \in [Keys -> Nat]
  BY DEF Inv, Typed
<1>2. /\ UNCHANGED <<setting, store, booked, exists, page, under, job, starts, own, brokenOff,
                     unanswered>>
      /\ misses' \in 0..MaxMisses
  BY <1>1, PageConstants DEF Serve, Receive, FetchFails, Refetch, backend, screens, bounds,
     history, Miss, Typed
<1>3. /\ cache' \in [Keys -> Query] /\ overtaken' \in [Keys -> BOOLEAN]
      /\ \A x \in Keys : Step(x)
  <2>1. CASE Serve(k)
    <3>1. [cache[k] EXCEPT !.answer = Read(k)] = Fetches(k)
      BY <1>1, <2>1 DEF Serve, Fetches, Query
    <3>2. cache' = [cache EXCEPT ![k] = Fetches(k)] /\ overtaken' = overtaken
      BY <1>1, <2>1, <3>1 DEF Serve, history
    <3> QED
      BY <1>1, <3>2, FetchesTyped DEF Step, Fetches
  <2>2. CASE Receive(k)
    <3> DEFINE r == Received(IF cache[k].answer.seen THEN Holding(cache[k], cache[k].answer)
                             ELSE cache[k])
    <3>1. r \in Query
      BY <1>1, KeyNames, SoundReceived DEF Inv, Typed, Sounds
    <3>2. /\ cache' = [cache EXCEPT ![k] = r]
          /\ overtaken' = [overtaken EXCEPT ![k] = overtaken[k] /\ cache[k].answer.at < own[k]]
      BY <2>2 DEF Receive
    <3>3. (overtaken[k] /\ cache[k].answer.at < own[k]) \in BOOLEAN
      OBVIOUS
    <3> HIDE DEF r
    <3>4. /\ cache' \in [Keys -> Query] /\ overtaken' \in [Keys -> BOOLEAN]
          /\ cache'[k] = r /\ overtaken'[k] = (overtaken[k] /\ cache[k].answer.at < own[k])
          /\ \A x \in Keys \ {k} : cache'[x] = cache[x] /\ overtaken'[x] = overtaken[x]
      BY <1>1, <3>1, <3>2, <3>3
    <3> QED
      BY <3>4 DEF Step, r
  <2>3. CASE FetchFails(k)
    <3>1. Received(cache[k]) \in Query
      BY <1>1, KeyNames, SoundFailed DEF Inv, Typed, Sounds
    <3>2. cache' = [cache EXCEPT ![k] = Received(cache[k])] /\ overtaken' = overtaken
      BY <2>3 DEF FetchFails, history
    <3> QED
      BY <1>1, <3>1, <3>2 DEF Step
  <2>4. CASE Refetch(k)
    <3>1. cache' = [cache EXCEPT ![k] = Fetches(k)] /\ overtaken' = overtaken
      BY <2>4 DEF Refetch, Fetching, Fetches, history
    <3> QED
      BY <1>1, <3>1, FetchesTyped DEF Step, Fetches
  <2> QED
    BY <2>1, <2>2, <2>3, <2>4
<1>4. Typed'
  BY <1>1, <1>2, <1>3 DEF Typed
<1>5. Grows /\ \A j \in Jobs : SameJob(j)
  BY <1>1, <1>2, StoreSame DEF SameJob
<1>6. Staged' /\ Counted' /\ Carried
  BY <1>4, <1>5, Carrying
<1> QED
  BY <1>2, <1>3, <1>4, <1>5, <1>6, Quiet

-----------------------------------------------------------------------------
(* Handlers begin, return, reconcile; other people write.                  *)

LEMMA BeginKeeps ==
  ASSUME Inv, NEW op \in Ops, Begin(op), UNCHANGED <<page, under>>
  PROVE  Inv'
<1>1. Typed
  BY DEF Inv
<1>2. PICK j \in Jobs : /\ job[j] = NoJob
                        /\ job' = [job EXCEPT ![j] = [NoJob EXCEPT !.op = op, !.left = Script[op],
                                                                   !.here = TRUE]]
  BY DEF Begin
<1> DEFINE new == [NoJob EXCEPT !.op = op, !.left = Script[op], !.here = TRUE]
<1>3. /\ UNCHANGED <<setting, store, booked, exists, page, under, cache, misses, own,
                     overtaken, brokenOff, unanswered>>
      /\ starts' \in 0..MaxStarts
  BY <1>1, PageConstants DEF Begin, backend, screens, history, Typed
<1>4. Script[op] \in Lefts
  BY Scripts DEF Ops, Lefts
<1>5. new \in Job /\ new.op = op /\ new.left = Script[op]
      /\ \A c \in Collections : new.wrote[c] = 0
  BY <1>4 DEF NoJob, Job, Unwritten
<1>6. job' = [job EXCEPT ![j] = new]
  BY <1>2
<1> HIDE DEF new
<1>7. job' \in [Jobs -> Job] /\ job'[j] = new /\ \A i \in Jobs \ {j} : job'[i] = job[i]
  BY <1>1, <1>5, <1>6 DEF Typed
<1>8. Typed'
  BY <1>1, <1>3, <1>7 DEF Typed
<1>9. Grows /\ \A k \in Keys : Step(k)
  BY <1>1, <1>3, StoreSame DEF Step
<1>10. Staged' /\ Counted' /\ Carried
  <2>1. \A i \in Jobs : SameJob(i) \/ job[i].left = Done
    BY <1>2, <1>7, NoJobIs DEF SameJob
  <2>2. \A i \in Jobs : SameJob(i)
                        \/ /\ job'[i].op \in Ops /\ job'[i].left = Script[job'[i].op]
                           /\ \A c \in Collections : job'[i].wrote[c] = 0
    BY <1>5, <1>7 DEF SameJob
  <2> QED
    BY <1>8, <1>9, <2>1, <2>2, Carrying
<1> QED
  BY <1>3, <1>8, <1>9, <1>10, Quiet

LEMMA Targets == "list" \in Pages /\ "detail" \in Pages
BY DEF Pages, WebPages

LEMMA FinishKeeps ==
  ASSUME Inv, NEW j \in Jobs, Finish(j)
  PROVE  Inv'
<1>1. Typed
  BY DEF Inv
<1>2. UNCHANGED <<setting, store, booked, exists, starts, misses, own, overtaken, brokenOff,
                  unanswered>>
  BY DEF Finish, backend, bounds, history
<1>3. /\ page' \in Pages /\ under' \subseteq Keys /\ cache' \in [Keys -> Query]
      /\ \A k \in Keys : cache'[k] = cache[k] \/ cache'[k] = Fetches(k)
      /\ job' \in [Jobs -> Job] /\ job'[j] = NoJob /\ \A i \in Jobs \ {j} : SameJob(i)
  <2>1. CASE job[j].op \in DOMAIN Target
    <3>1. Target[job[j].op] \in Pages
      BY <2>1, Targets DEF Target
    <3>2. Enter(Target[job[j].op])
          /\ job' = [i \in Jobs |-> IF i = j THEN NoJob
                       ELSE [job[i] EXCEPT !.here = job[i].here /\ page = Target[job[j].op]]]
      BY <2>1 DEF Finish
    <3>3. \A i \in Jobs : [job[i] EXCEPT !.here = job[i].here /\ page = Target[job[j].op]] \in Job
      BY <1>1 DEF Typed, Job
    <3>4. \A i \in Jobs : job[i] \in Job
      BY <1>1 DEF Typed
    <3>5. /\ job' \in [Jobs -> Job] /\ job'[j] = NoJob
          /\ \A i \in Jobs \ {j} : SameJob(i)
      BY <3>2, <3>3, <3>4, NoJobIs DEF SameJob, Job
    <3> QED
      BY <1>1, <3>1, <3>2, <3>5, Entering
  <2>2. CASE job[j].op \notin DOMAIN Target
    <3>1. job' = [job EXCEPT ![j] = NoJob] /\ UNCHANGED <<page, under, cache>>
      BY <2>2 DEF Finish, screens
    <3> QED
      BY <1>1, <3>1, NoJobIs DEF Typed, SameJob
  <2> QED
    BY <2>1, <2>2
<1>4. Typed'
  BY <1>1, <1>2, <1>3 DEF Typed
<1>5. Grows /\ \A k \in Keys : Step(k)
  BY <1>1, <1>2, <1>3, StoreSame DEF Step, Fetches
<1>6. job[j].left = Done
  BY DEF Finish, Going, Done
<1>7. Staged' /\ Counted' /\ Carried
  BY <1>3, <1>4, <1>5, <1>6, Carrying
<1> QED
  BY <1>2, <1>4, <1>5, <1>7, Quiet

\* What a reconciliation or a write of somebody else does to the store.
LEMMA Growing ==
  ASSUME Typed, NEW x \in Collections, NEW y \in Collections,
         \/ store' = [store EXCEPT ![x] = @ + 1]
         \/ store' = [store EXCEPT ![x] = @ + 1, ![y] = @ + 1]
  PROVE  store' \in [Collections -> Nat] /\ Grows
BY DEF Typed, Grows

LEMMA ElsewhereKeeps ==
  ASSUME Inv, NEW c \in Collections, Elsewhere(c)
  PROVE  Inv'
<1>1. Typed
  BY DEF Inv
<1>2. /\ UNCHANGED <<setting, booked, exists, page, under, cache, job, starts, own, overtaken,
                     brokenOff, unanswered>>
      /\ misses' \in 0..MaxMisses
  BY <1>1, PageConstants DEF Elsewhere, screens, history, Miss, Typed
<1>3. store' \in [Collections -> Nat] /\ Grows
  BY <1>1, Growing DEF Elsewhere
<1>4. Typed'
  BY <1>1, <1>2, <1>3 DEF Typed
<1>5. Staged' /\ Counted' /\ Carried
  BY <1>2, <1>3, <1>4, Carrying DEF SameJob
<1> QED
  BY <1>2, <1>3, <1>4, <1>5, Quiet DEF Step

-----------------------------------------------------------------------------
(* A call of a handler.                                                    *)

\* What the invariant says of a handler that goes on.
LEMMA GoesOn ==
  ASSUME Inv, NEW j \in Jobs, Going(j)
  PROVE  /\ job[j] \in Job /\ job[j].op \in Ops /\ Tail(job[j].left) \in Lefts
         /\ Now(j) \in Collections \cup {"reconcile", "settle"}
         /\ Now(j) \in Collections =>
              \A n \in Nat \ {0} :
                Stage(job[j].op, Tail(job[j].left), [job[j].wrote EXCEPT ![Now(j)] = n])
         /\ Now(j) \notin Collections => Stage(job[j].op, Tail(job[j].left), job[j].wrote)
         /\ job[j].op = "book" => Now(j) = "settle" \/ Tail(job[j].left) # <<>>
         /\ job[j].op = "book" /\ Now(j) = "bookings" => job[j].wrote["bookings"] = 0
         /\ job[j].op = "delete" => ((Now(j) = "events" /\ Tail(job[j].left) = S) \/ job[j].left = S)
         /\ Now(j) = "settle" =>
              /\ job[j].op = "delete" => job[j].left = S
              /\ \A k \in About(job[j].op) : k \in Keys /\ job[j].wrote[CollectionOf(k)] >= 1
         /\ Deleting(j) => Now(j) = "settle"
<1>1. /\ job[j] \in Job /\ job[j].op \in Ops \cup {"none"} /\ job[j].left \in Lefts
      /\ job[j].wrote \in [Collections -> Nat] /\ Stage(job[j].op, job[j].left, job[j].wrote)
      /\ job[j].left # <<>>
  BY DEF Inv, Typed, Job, Staged, Going
<1> DEFINE op == job[j].op  left == job[j].left  wrote == job[j].wrote
<1>2. Deleting(j) => Head(left) = "settle"
  BY Heads DEF Deleting
<1> HIDE DEF op, left, wrote
<1>3. /\ op \in Ops \cup {"none"} /\ left \in Lefts
      /\ wrote \in [Collections -> Nat] /\ Stage(op, left, wrote) /\ left # <<>>
  BY <1>1 DEF op, left, wrote
<1>4. /\ op \in Ops /\ Tail(left) \in Lefts
      /\ Head(left) \in Collections \cup {"reconcile", "settle"}
      /\ Head(left) \in Collections =>
           \A n \in Nat \ {0} : Stage(op, Tail(left), [wrote EXCEPT ![Head(left)] = n])
      /\ Head(left) \notin Collections => Stage(op, Tail(left), wrote)
      /\ op = "book" => (Head(left) = "settle" \/ Tail(left) # <<>>)
      /\ op = "book" /\ Head(left) = "bookings" => wrote["bookings"] = 0
      /\ op = "delete" => ((Head(left) = "events" /\ Tail(left) = S) \/ left = S)
      /\ Head(left) = "settle" =>
           /\ op = "delete" => left = S
           /\ \A k \in About(op) : k \in Keys /\ wrote[CollectionOf(k)] >= 1
  BY ONLY <1>3, Stepping
<1> QED
  BY <1>1, <1>2, <1>4 DEF Now, op, left, wrote

LEMMA ReconcileKeeps ==
  ASSUME Inv, NEW j \in Jobs, Reconcile(j)
  PROVE  Inv'
<1>1. Typed
  BY DEF Inv
<1>2. /\ UNCHANGED <<setting, booked, exists, page, under, cache, starts, misses, own, overtaken,
                     brokenOff, unanswered>>
      /\ Going(j) /\ Now(j) = "reconcile"
      /\ job' = [job EXCEPT ![j] = [job[j] EXCEPT !.left = Tail(job[j].left)]]
  BY DEF Reconcile, screens, bounds, history
<1>3. store' \in [Collections -> Nat] /\ Grows
  <2>1. CASE UNCHANGED store
    BY <1>1, <2>1, StoreSame DEF Typed
  <2>2. CASE store' = [store EXCEPT !["bookings"] = @ + 1, !["activity"] = @ + 1]
    BY <1>1, <2>2, KeyNames, Growing
  <2> QED
    BY <2>1, <2>2 DEF Reconcile
<1> DEFINE new == [job[j] EXCEPT !.left = Tail(job[j].left)]
<1>4. /\ new \in Job /\ new.op = job[j].op /\ new.left = Tail(job[j].left)
      /\ new.wrote = job[j].wrote
  BY <1>2, GoesOn DEF Job
<1>5. job' = [job EXCEPT ![j] = new]
  BY <1>2
<1> HIDE DEF new
<1>6. job' \in [Jobs -> Job] /\ job'[j] = new /\ \A i \in Jobs \ {j} : job'[i] = job[i]
  BY <1>1, <1>4, <1>5 DEF Typed
<1>7. Typed'
  BY <1>1, <1>2, <1>3, <1>6 DEF Typed
<1>8. Stage(new.op, new.left, new.wrote)
  BY <1>2, <1>4, GoesOn, KeyNames
<1>9. Staged'
  <2> SUFFICES ASSUME NEW i \in Jobs PROVE Stage(job'[i].op, job'[i].left, job'[i].wrote)
    BY DEF Staged, Stage
  <2> QED
    BY <1>6, <1>8 DEF Inv, Staged
<1>10. Counted'
  <2> SUFFICES ASSUME NEW i \in Jobs, NEW c \in Collections PROVE job'[i].wrote[c] <= store'[c]
    BY DEF Counted
  <2> job[i] \in Job
    BY <1>1 DEF Typed
  <2>1. job'[i].wrote = job[i].wrote /\ job[i].wrote[c] \in Nat /\ job[i].wrote[c] <= store[c]
    BY <1>4, <1>6 DEF Inv, Job, Counted
  <2> QED
    BY <1>1, <1>3, <1>7, <2>1, StoreGrows
<1>11. Carried
  <2>1. ~Deleting(j) /\ (Booked(j) => Tail(job[j].left) # <<>>)
    BY <1>2, GoesOn, KeyNames DEF Booked
  <2>2. \A i \in Jobs : job'[i].op = job[i].op /\ job'[i].wrote = job[i].wrote
    BY <1>4, <1>6
  <2>3. \A i \in Jobs \ {j} : job'[i].left = job[i].left
    BY <1>6
  <2>4. Booked(j) => Booked(j)'
    BY <1>4, <1>6, <2>1 DEF Booked, Going
  <2> QED
    BY <2>1, <2>2, <2>3, <2>4 DEF Carried, Deleting, Booked, Saved, Going
<1> QED
  BY <1>2, <1>3, <1>7, <1>9, <1>10, <1>11, Quiet DEF Step

LEMMA FailKeeps ==
  ASSUME Inv, NEW j \in Jobs, Fail(j)
  PROVE  Inv'
<1>1. Typed /\ job[j] \in Job
  BY DEF Inv, Typed
<1>2. /\ UNCHANGED <<setting, store, booked, exists, page, under, cache, starts, own, overtaken,
                     unanswered>>
      /\ misses' \in 0..MaxMisses /\ Going(j) /\ Now(j) # "settle"
      /\ brokenOff' = (brokenOff \/ job[j].wrote # Unwritten) /\ brokenOff' \in BOOLEAN
      /\ job' = [job EXCEPT ![j] = NoJob]
  BY <1>1, PageConstants DEF Fail, backend, screens, Miss, Typed
<1>3. job' \in [Jobs -> Job] /\ job'[j] = NoJob /\ \A i \in Jobs \ {j} : job'[i] = job[i]
  BY <1>1, <1>2, NoJobIs DEF Typed
<1>4. Typed'
  BY <1>1, <1>2, <1>3 DEF Typed
<1>5. Grows
  BY <1>1, <1>2, StoreSame
<1>6. Staged' /\ Counted'
  <2>1. ASSUME NEW i \in Jobs PROVE Stage(job'[i].op, job'[i].left, job'[i].wrote)
    BY <1>3, NoJobIs DEF Inv, Staged, Stage
  <2>2. ASSUME NEW i \in Jobs, NEW c \in Collections PROVE job'[i].wrote[c] <= store'[c]
    <3>1. store'[c] = store[c] /\ store[c] \in Nat
      BY <1>1, <1>2 DEF Typed
    <3> QED
      BY <1>3, <3>1, NoJobIs DEF Inv, Counted
  <2>3. Staged'
    BY <2>1 DEF Staged, Stage
  <2>4. Counted'
    BY <2>2 DEF Counted
  <2> QED
    BY <2>3, <2>4
<1>7. Carried
  <2>1. ~Deleting(j)
    BY <1>2, GoesOn
  <2>2. Booked(j) => brokenOff'
    <3>1. Unwritten["bookings"] = 0
      BY KeyNames DEF Unwritten
    <3>2. Booked(j) => job[j].wrote["bookings"] # 0
      BY DEF Booked
    <3>3. Booked(j) => job[j].wrote # Unwritten
      BY <3>1, <3>2
    <3> QED
      BY <1>2, <3>3
  <2>3. ~Saved(j)'
    BY <1>3, NoJobIs DEF Saved
  <2> QED
    BY <1>3, <2>1, <2>2, <2>3 DEF Carried, Deleting, Booked, Saved, Going
<1> QED
  BY <1>2, <1>4, <1>5, <1>6, <1>7, Quiet DEF Step

\* What a call that reaches the store does to it.
LEMMA Reaching ==
  ASSUME Typed, NEW j \in Jobs, Reaches(j)
  PROVE  /\ store' \in [Collections -> Nat] /\ Grows
         /\ booked' \in [active : Nat, cancelled : BOOLEAN] /\ exists' \in BOOLEAN
<1>1. store' \in [Collections -> Nat] /\ Grows
  BY Growing DEF Reaches
<1>2. booked' \in [active : Nat, cancelled : BOOLEAN]
  <2>1. LeftByCancel \in Nat
    BY DEF LeftByCancel, Typed
  <2>2. [booked EXCEPT !.active = @ + 1] \in [active : Nat, cancelled : BOOLEAN]
    BY DEF Typed
  <2>3. [active |-> LeftByCancel, cancelled |-> TRUE] \in [active : Nat, cancelled : BOOLEAN]
    BY <2>1
  <2>4. booked' \in {[booked EXCEPT !.active = @ + 1],
                     [active |-> LeftByCancel, cancelled |-> TRUE], booked}
    BY DEF Reaches
  <2> QED
    BY <2>2, <2>3, <2>4 DEF Typed
<1>3. exists' \in BOOLEAN
  <2>1. CASE Now(j) = "events"
    BY <2>1 DEF Reaches
  <2>2. CASE Now(j) # "events"
    BY <2>2 DEF Reaches, Typed
  <2> QED
    BY <2>1, <2>2
<1> QED
  BY <1>1, <1>2, <1>3

LEMMA AnswerLostKeeps ==
  ASSUME Inv, NEW j \in Jobs, AnswerLost(j)
  PROVE  Inv'
<1>1. Typed /\ job[j] \in Job /\ "events" \in Keys /\ "event" \in Keys
  BY KeyNames DEF Inv, Typed
<1>2. /\ UNCHANGED <<setting, page, under, cache, starts, own, overtaken>>
      /\ misses' \in 0..MaxMisses /\ brokenOff' = TRUE /\ Going(j) /\ Now(j) \in Collections
      /\ exists' = (IF Now(j) = "events" THEN job[j].op # "delete" ELSE exists)
      /\ job' = [job EXCEPT ![j] = NoJob]
  BY <1>1, PageConstants DEF AnswerLost, Reaches, screens, Miss, Typed
<1>3. unanswered' \in BOOLEAN /\ (unanswered' <=> Now(j) = "events" \/ unanswered)
  BY <1>1 DEF AnswerLost, Typed
<1>4. /\ store' \in [Collections -> Nat] /\ Grows
      /\ booked' \in [active : Nat, cancelled : BOOLEAN] /\ exists' \in BOOLEAN
  BY <1>1, Reaching DEF AnswerLost
<1>5. job' \in [Jobs -> Job] /\ job'[j] = NoJob /\ \A i \in Jobs \ {j} : job'[i] = job[i]
  BY <1>1, <1>2, NoJobIs DEF Typed
<1>6. Typed'
  BY <1>1, <1>2, <1>3, <1>4, <1>5 DEF Typed
<1>7. \A k \in Keys : Step(k)
  BY <1>2 DEF Step
<1>8. Staged'
  <2> SUFFICES ASSUME NEW i \in Jobs PROVE Stage(job'[i].op, job'[i].left, job'[i].wrote)
    BY DEF Staged, Stage
  <2> QED
    BY <1>5, NoJobIs DEF Inv, Staged, Stage
<1>9. Counted'
  <2> SUFFICES ASSUME NEW i \in Jobs, NEW c \in Collections PROVE job'[i].wrote[c] <= store'[c]
    BY DEF Counted
  <2>1. store'[c] \in Nat
    BY <1>4
  <2>2. CASE i = j
    BY <1>5, <2>1, <2>2, NoJobIs
  <2>3. CASE i # j
    <3>1. job[i].wrote[c] \in Nat /\ job[i].wrote[c] <= store[c]
      BY <1>1 DEF Inv, Typed, Job, Counted
    <3> QED
      BY <1>1, <1>4, <1>5, <1>6, <2>3, <3>1, StoreGrows
  <2> QED
    BY <2>2, <2>3
<1>10. Carried
  <2>1. ~Deleting(j)
    BY <1>2, GoesOn, KeyNames
  <2>2. ~Saved(j)'
    BY <1>5, NoJobIs DEF Saved
  <2> QED
    BY <1>2, <1>5, <2>1, <2>2 DEF Carried, Deleting, Saved
<1>11. Removed'
  <2>1. CASE Now(j) = "events"
    BY <1>3, <2>1 DEF Removed
  <2>2. CASE Now(j) # "events"
    <3>1. exists' = exists /\ unanswered' = unanswered
      BY <1>1, <1>2, <1>3, <2>2 DEF Typed
    <3> QED
      BY <1>1, <1>2, <1>4, <1>6, <1>7, <1>10, <3>1, RemovedKept
  <2> QED
    BY <2>1, <2>2
<1>12. Ordered' /\ Sounds' /\ BookingSeen'
  BY <1>2, <1>4, <1>6, <1>7, SoundsKept DEF Inv, Ordered, BookingSeen
<1> QED
  BY <1>6, <1>8, <1>9, <1>11, <1>12 DEF Inv

LEMMA WriteKeeps ==
  ASSUME Inv, NEW j \in Jobs, Write(j)
  PROVE  Inv'
<1>1. Typed /\ job[j] \in Job
  BY DEF Inv, Typed
<1> DEFINE c == Now(j)
           n == store[c] + 1
           new == [job[j] EXCEPT !.left = Tail(job[j].left), !.wrote[c] = n]
<1>2. /\ UNCHANGED <<setting, page, under, cache, starts, misses, brokenOff>>
      /\ unanswered' = (c # "events" /\ unanswered)
      /\ Going(j) /\ c \in Collections
      /\ store' = [store EXCEPT ![c] = @ + 1]
      /\ exists' = IF c = "events" THEN job[j].op # "delete" ELSE exists
      /\ booked' = CASE c = "bookings" /\ job[j].op = "book" -> [booked EXCEPT !.active = @ + 1]
                     [] c = "bookings" /\ job[j].op = "cancel" ->
                          [active |-> LeftByCancel, cancelled |-> TRUE]
                     [] OTHER -> booked
      /\ job' = [job EXCEPT ![j] = new]
  BY DEF Write, Reaches, screens, bounds
<1> DEFINE over == cache["activity"].fresh \/ cache["activity"].fetching
<1>3. \/ UNCHANGED <<own, overtaken>>
      \/ /\ c = "activity" /\ own' = [own EXCEPT !["activity"] = n]
         /\ overtaken' = [overtaken EXCEPT !["activity"] = over]
  BY DEF Write, Unannounced
<1>4. store' \in [Collections -> Nat] /\ Grows
  BY <1>1, <1>2, Growing
<1>5. n \in Nat \ {0} /\ store'[c] = n /\ store[c] \in Nat
  BY <1>1, <1>2 DEF Typed
<1>6. /\ new \in Job /\ new.op = job[j].op /\ new.left = Tail(job[j].left)
      /\ new.wrote = [job[j].wrote EXCEPT ![c] = n] /\ new.wrote[c] = n
      /\ \A d \in Collections \ {c} : new.wrote[d] = job[j].wrote[d]
  BY <1>1, <1>2, <1>5, GoesOn DEF Job
<1>7. Stage(new.op, new.left, new.wrote)
  BY <1>2, <1>5, <1>6, GoesOn
<1>8. booked' \in [active : Nat, cancelled : BOOLEAN] /\ exists' \in BOOLEAN
  BY <1>1, Reaching DEF Write
<1> c \in Collections /\ n \in Nat
  BY <1>2, <1>5
<1>9. /\ cache["activity"] \in Query /\ over \in BOOLEAN
      /\ Sound(cache["activity"], own["activity"], overtaken["activity"], store["activity"])
  <2>1. "activity" \in Keys /\ CollectionOf("activity") = "activity"
    BY DEF Keys, CollectionOf
  <2>2. cache["activity"] \in Query
    BY <1>1, <2>1 DEF Typed
  <2>3. over \in BOOLEAN
    BY <2>2 DEF Query
  <2> QED
    BY <2>1, <2>2, <2>3 DEF Inv, Sounds
<1> HIDE DEF c, n, new, over
<1>10. /\ own' \in [Keys -> Nat] /\ overtaken' \in [Keys -> BOOLEAN]
      /\ \A k \in Keys :
           \/ own'[k] = own[k] /\ overtaken'[k] = overtaken[k]
           \/ k = "activity" /\ c = "activity" /\ own'[k] = n /\ overtaken'[k] = over
  BY <1>1, <1>3, <1>9 DEF Typed
<1>11. job' \in [Jobs -> Job] /\ job'[j] = new /\ \A i \in Jobs \ {j} : job'[i] = job[i]
  BY <1>1, <1>2, <1>6 DEF Typed
<1>12. Typed'
  BY <1>1, <1>2, <1>4, <1>8, <1>11, <1>10 DEF Typed
<1>13. Staged'
  <2> SUFFICES ASSUME NEW i \in Jobs PROVE Stage(job'[i].op, job'[i].left, job'[i].wrote)
    BY DEF Staged, Stage
  <2> QED
    BY <1>7, <1>11 DEF Inv, Staged
<1>14. Counted'
  <2> SUFFICES ASSUME NEW i \in Jobs, NEW d \in Collections PROVE job'[i].wrote[d] <= store'[d]
    BY DEF Counted
  <2> job[i] \in Job
    BY <1>1 DEF Typed
  <2>1. job[i].wrote[d] \in Nat /\ job[i].wrote[d] <= store[d]
    BY DEF Inv, Job, Counted
  <2>2. job[i].wrote[d] <= store'[d]
    BY <1>1, <1>4, <1>12, <2>1, StoreGrows
  <2>3. job'[i].wrote[d] \in {job[i].wrote[d]} \/ (d = c /\ job'[i].wrote[d] = store'[d])
    BY <1>5, <1>6, <1>11
  <2> QED
    BY <1>5, <2>2, <2>3
<1>15. /\ \A k \in Keys \ {"activity"} : Step(k) /\ own'[k] = own[k]
       /\ "event" \in Keys \ {"activity"} /\ "events" \in Keys \ {"activity"}
       /\ "mine" \in Keys \ {"activity"}
  BY <1>2, <1>10 DEF Step, Keys
<1>16. ~Deleting(j) /\ "bookings" \in Collections /\ "events" \in Collections
  BY <1>2, GoesOn, KeyNames DEF c
<1>17. ASSUME c # "events" PROVE Carried
  <2>1. Booked(j) => Booked(j)' /\ new.wrote["bookings"] = job[j].wrote["bookings"]
    <3>1. SUFFICES ASSUME Booked(j)
                   PROVE  Booked(j)' /\ new.wrote["bookings"] = job[j].wrote["bookings"]
      OBVIOUS
    <3>2. c # "bookings" /\ Tail(job[j].left) # <<>>
      BY <1>2, <3>1, GoesOn, KeyNames DEF Booked, c
    <3> QED
      BY <1>6, <1>11, <1>16, <3>1, <3>2 DEF Booked, Going
  <2>2. new.wrote["events"] = job[j].wrote["events"]
    BY <1>6, <1>16, <1>17
  <2> QED
    BY <1>6, <1>11, <1>16, <2>1, <2>2 DEF Carried, Deleting, Booked, Saved, Going
<1>18. Removed'
  <2>1. CASE c # "events"
    <3>1. exists' = exists /\ unanswered' = unanswered
      BY <1>1, <1>2, <2>1 DEF Typed
    <3> QED
      BY <1>4, <1>12, <1>15, <1>17, <2>1, <3>1, RemovedKept
  <2>2. CASE c = "events" /\ job[j].op # "delete"
    BY <1>2, <2>2 DEF Removed
  <2>3. CASE c = "events" /\ job[j].op = "delete"
    <3>1. Deleting(j)'
      <4>1. Tail(job[j].left) = S
        BY <1>2, <1>16, <2>3, GoesOn DEF Deleting
      <4> QED
        BY <1>6, <1>11, <2>3, <4>1 DEF Deleting
    <3>2. ASSUME NEW i \in Jobs, Saved(i)' PROVE job'[i].wrote["events"] < job'[j].wrote["events"]
      <4>1. i # j
        BY <1>6, <1>11, <2>3, <3>2 DEF Saved
      <4> job[i] \in Job
        BY <1>1 DEF Typed
      <4>2. /\ job'[i].wrote["events"] = job[i].wrote["events"]
            /\ job[i].wrote["events"] \in Nat /\ job[i].wrote["events"] <= store["events"]
        BY <1>11, <1>16, <4>1 DEF Inv, Counted, Job
      <4>3. job'[j].wrote["events"] = store["events"] + 1 /\ store["events"] \in Nat
        BY <1>5, <1>6, <1>11, <2>3 DEF n
      <4> QED
        BY <4>2, <4>3
    <3> QED
      BY <3>1, <3>2 DEF Removed
  <2> QED
    BY <2>1, <2>2, <2>3
<1>19. BookingSeen'
  <2>1. CASE c = "bookings" /\ job[j].op = "book"
    <3>1. Booked(j)' /\ job'[j].wrote["bookings"] = n
      <4>1. Tail(job[j].left) # <<>>
        BY <1>2, <2>1, GoesOn DEF c
      <4>2. job'[j].wrote["bookings"] = n
        BY <1>6, <1>11, <2>1
      <4>3. n >= 1
        BY <1>5 DEF n
      <4>4. job'[j].op = "book" /\ job'[j].left # <<>>
        BY <1>6, <1>11, <2>1, <4>1
      <4> QED
        BY <4>2, <4>3, <4>4 DEF Booked, Going
    <3>2. ASSUME NEW data \in Data, data.at <= store["bookings"] PROVE Older(data)'
      BY <1>5, <2>1, <3>1, <3>2 DEF Older, n, Data
    <3>3. /\ cache["mine"] \in Query
          /\ cache["mine"].data.at <= store["bookings"] /\ cache["mine"].answer.at <= store["bookings"]
      BY KeyNames DEF Inv, Typed, Sounds, Sound
    <3>4. cache' = cache
      BY <1>2
    <3> QED
      BY <3>2, <3>3, <3>4 DEF BookingSeen, Query
  <2>2. CASE c = "bookings" /\ job[j].op = "cancel"
    BY <1>2, <2>2 DEF BookingSeen
  <2>3. CASE (c = "bookings" /\ job[j].op \notin {"book", "cancel"}) \/ c \notin {"bookings", "events"}
    <3>1. booked' = booked
      BY <1>2, <2>3
    <3>2. Carried
      BY <1>17, <2>3
    <3> QED
      BY <1>2, <1>4, <1>12, <1>15, <3>1, <3>2, SeenKept
  <2>4. CASE c = "events"
    <3>1. booked' = booked
      BY <1>2, <2>4
    <3>2. \A i \in Jobs : Booked(i) => Booked(i)' /\ job'[i].wrote["bookings"] = job[i].wrote["bookings"]
      <4>1. Booked(j) => Tail(job[j].left) # <<>>
        BY <1>2, <2>4, GoesOn DEF Booked, c
      <4> QED
        BY <1>6, <1>11, <1>16, <2>4, <4>1 DEF Booked, Going
    <3>3. cache' = cache /\ own'["mine"] = own["mine"] /\ brokenOff' = brokenOff
      BY <1>2, <1>15
    <3> QED
      BY <3>1, <3>2, <3>3 DEF Inv, BookingSeen, Older
  <2> QED
    BY <2>1, <2>2, <2>3, <2>4
<1>20. Ordered'
  BY <1>15 DEF Inv, Ordered
<1>21. Sounds'
  <2> SUFFICES ASSUME NEW k \in Keys
               PROVE  Sound(cache'[k], own'[k], overtaken'[k], store'[CollectionOf(k)])
    BY DEF Sounds, Sound, Typed, CollectionOf
  <2>1. CASE own'[k] = own[k] /\ overtaken'[k] = overtaken[k]
    <3>1. Step(k) /\ own'[k] = own[k]
      BY <1>2, <2>1 DEF Step
    <3> QED
      BY <1>4, <1>12, <3>1, StepSound
  <2>2. CASE /\ k = "activity" /\ c = "activity" /\ own'[k] = n /\ overtaken'[k] = over
    <3>1. store'[CollectionOf(k)] = n /\ n \in Nat /\ 1 <= n /\ store["activity"] \in Nat
          /\ store["activity"] <= n
      BY <1>5, <2>2 DEF CollectionOf, n
    <3>2. /\ cache'[k] = cache["activity"] /\ NoData.at = 0 /\ ~NoData.seen
          /\ over = (cache["activity"].fresh \/ cache["activity"].fetching)
      BY <1>2, <2>2 DEF over, NoData
    <3> QED
      BY <1>9, <2>2, <3>1, <3>2 DEF Sound, Query, Data
  <2> QED
    BY <1>10, <2>1, <2>2
<1> QED
  BY <1>12, <1>13, <1>14, <1>18, <1>19, <1>20, <1>21 DEF Inv

-----------------------------------------------------------------------------
(* A mutation settles.                                                     *)

Document(at) == [seen |-> TRUE, at |-> at, free |-> TRUE]

LEMMA AboutIs ==
  /\ \A op \in {"book", "cancel", "checkin"} : About(op) = EventState
  /\ EventState = {"count", "mine", "bookings", "activity"}
  /\ \A op \in {"create", "update"} : About(op) = {"events", "event"}
  /\ About("delete") = {"events"}
BY DEF About, EventState

\* The cache after onSuccess, query by query.
LEMMA SettledIs ==
  ASSUME Typed, NEW op \in Ops, NEW at \in Nat, NEW k \in Keys
  PROVE  /\ Settled(op, at)[k] \in
              {cache[k], NoQuery, Invalidated(k, cache[k]),
               Holding(Invalidated(k, cache[k]), Document(at)),
               Invalidated(k, Holding(cache[k], Document(at)))}
         /\ k \notin About(op) /\ (op = "delete" => k # "event") =>
              Settled(op, at)[k] = cache[k]
         /\ op = "delete" /\ k = "event" => Settled(op, at)[k] = NoQuery
         /\ k \in About(op) => Settled(op, at)[k] \in
              {Invalidated(k, cache[k])} \cup
              (IF k = "event" THEN {Holding(Invalidated(k, cache[k]), Document(at)),
                                    Invalidated(k, Holding(cache[k], Document(at)))}
               ELSE {})
<1>1. cache \in [Keys -> Query] /\ "event" \in Keys
  BY KeyNames DEF Typed
<1>2. CASE op \in {"book", "cancel", "checkin"}
  <2>1. Settled(op, at) = [x \in Keys |-> IF x \in EventState THEN Invalidated(x, cache[x])
                                          ELSE cache[x]]
    BY <1>2 DEF Settled, InvalidateAll
  <2> QED
    BY <1>2, <2>1, AboutIs
<1> DEFINE both == [x \in Keys |-> IF x \in {"events", "event"} THEN Invalidated(x, cache[x])
                                   ELSE cache[x]]
           put == [cache EXCEPT !["event"] = Holding(cache["event"], Document(at))]
<1>3. CASE op = "create"
  <2>1. CASE setting.client = "web"
    <3>1. Settled(op, at) = [both EXCEPT !["event"] = Holding(both["event"], Document(at))]
      BY <1>3, <2>1 DEF Settled, WebCreated, SetData, InvalidateAll, Document
    <3>2. both["event"] = Invalidated("event", cache["event"])
      BY <1>1
    <3>3. /\ k = "event" => Settled(op, at)[k] = Holding(Invalidated(k, cache[k]), Document(at))
          /\ k = "events" => Settled(op, at)[k] = Invalidated(k, cache[k])
          /\ k \notin {"event", "events"} => Settled(op, at)[k] = cache[k]
      BY <1>1, <3>1, <3>2
    <3> HIDE DEF both
    <3> QED
      BY <1>3, <3>3, AboutIs
  <2>2. CASE setting.client # "web"
    <3>1. Settled(op, at) = both
      BY <1>3, <2>2 DEF Settled, ExpoCreated, InvalidateAll
    <3>2. /\ k \in {"event", "events"} => Settled(op, at)[k] = Invalidated(k, cache[k])
          /\ k \notin {"event", "events"} => Settled(op, at)[k] = cache[k]
      BY <3>1
    <3> HIDE DEF both
    <3> QED
      BY <1>3, <3>2, AboutIs
  <2> QED
    BY <2>1, <2>2
<1>4. CASE op = "update"
  <2>1. Settled(op, at) = [x \in Keys |-> IF x \in {"events", "event"} THEN Invalidated(x, put[x])
                                          ELSE put[x]]
    BY <1>4 DEF Settled, WebUpdated, ExpoUpdated, SetData, InvalidateAll, Document
  <2>2. put["event"] = Holding(cache["event"], Document(at)) /\ \A x \in Keys \ {"event"} : put[x] = cache[x]
    BY <1>1
  <2> HIDE DEF both, put
  <2>3. /\ k = "event" => Settled(op, at)[k] = Invalidated(k, Holding(cache[k], Document(at)))
        /\ k = "events" => Settled(op, at)[k] = Invalidated(k, cache[k])
        /\ k \notin {"event", "events"} => Settled(op, at)[k] = cache[k]
    BY <2>1, <2>2
  <2> QED
    BY <1>4, <2>3, AboutIs
<1>5. CASE op = "delete"
  <2> DEFINE gone == [cache EXCEPT !["event"] = NoQuery]
  <2>1. Settled(op, at) = [x \in Keys |-> IF x \in {"events"} THEN Invalidated(x, gone[x]) ELSE gone[x]]
    BY <1>5 DEF Settled, WebDeleted, ExpoDeleted, Remove, InvalidateAll
  <2>2. gone["event"] = NoQuery /\ \A x \in Keys \ {"event"} : gone[x] = cache[x]
    BY <1>1
  <2> HIDE DEF both, put, gone
  <2>3. /\ k = "event" => Settled(op, at)[k] = NoQuery
        /\ k = "events" => Settled(op, at)[k] = Invalidated(k, cache[k])
        /\ k \notin {"event", "events"} => Settled(op, at)[k] = cache[k]
    BY <2>1, <2>2
  <2> QED
    BY <1>5, <2>3, AboutIs
<1> QED
  BY <1>2, <1>3, <1>4, <1>5 DEF Ops

LEMMA SettledDomain ==
  ASSUME NEW op \in Ops, NEW at, cache \in [Keys -> Query]
  PROVE  Settled(op, at) = [k \in Keys |-> Settled(op, at)[k]]
<1>1. CASE op \in {"book", "cancel", "checkin"}
  BY <1>1 DEF Settled, InvalidateAll
<1>2. CASE op = "create"
  BY <1>2 DEF Settled, WebCreated, ExpoCreated, SetData, InvalidateAll
<1>3. CASE op = "update"
  BY <1>3 DEF Settled, WebUpdated, ExpoUpdated, InvalidateAll
<1>4. CASE op = "delete"
  BY <1>4 DEF Settled, WebDeleted, ExpoDeleted, InvalidateAll
<1> QED
  BY <1>1, <1>2, <1>3, <1>4 DEF Ops

LEMMA NoQueryIs ==
  /\ NoQuery \in Query /\ NoQuery.data = NoData /\ NoQuery.answer = NoData /\ ~NoQuery.fresh
  /\ NoData \in Data /\ NoData.at = 0 /\ ~NoData.seen
BY DEF NoQuery, Query, NoData, Data

\* The document of a mutation put into a query.
LEMMA HoldingIs ==
  ASSUME NEW q \in Query, NEW at \in Nat
  PROVE  /\ Holding(q, Document(at)) \in Query
         /\ Holding(q, Document(at)).data.at = at /\ Holding(q, Document(at)).data.seen
         /\ Holding(q, Document(at)).fresh
         /\ Holding(q, Document(at)).fetching = q.fetching
         /\ Holding(q, Document(at)).answer = q.answer
<1>1. Document(at) \in Data /\ Document(at).at = at /\ Document(at).seen
  BY DEF Document, Data
<1> QED
  BY <1>1 DEF Holding, Query

\* A query the mutation is about, after onSuccess.
LEMMA AboutSound ==
  ASSUME Typed, NEW k \in Keys, Sound(cache[k], own[k], overtaken[k], store[CollectionOf(k)]),
         NEW at \in Nat, 1 <= at, at <= store[CollectionOf(k)],
         NEW late \in BOOLEAN, late \/ own[k] <= at,
         NEW a, NEW over \in BOOLEAN, a.fetching /\ ~Restarts(k, cache[k]) => over,
         \/ a = Invalidated(k, cache[k])
         \/ /\ late => over
            /\ \/ a = Holding(Invalidated(k, cache[k]), Document(at))
               \/ a = Invalidated(k, Holding(cache[k], Document(at)))
  PROVE  /\ a \in Query /\ Sound(a, Later(own[k], at), over, store[CollectionOf(k)])
         /\ a.answer \in {cache[k].answer, Read(k)}
         /\ a = Invalidated(k, cache[k]) => a.data = cache[k].data
<1> DEFINE s == store[CollectionOf(k)]
           last == Later(own[k], at)
           q == cache[k]
           i == Invalidated(k, q)
<1>1. /\ s \in Nat /\ own[k] \in Nat /\ overtaken[k] \in BOOLEAN /\ q \in Query
      /\ q.data.at <= s /\ q.answer.at <= s /\ (q.answer.seen \/ q.answer = NoData)
      /\ q.answer.seen => q.fetching /\ own[k] <= s
  BY KeyNames DEF Typed, Sound
<1>2. /\ q.data.at <= s /\ q.answer.at <= s /\ (q.answer.seen \/ q.answer = NoData)
      /\ (q.answer.seen => q.fetching) /\ own[k] <= s
  BY DEF Sound
<1>3. /\ last \in Nat /\ last <= s /\ 1 <= last /\ at <= last /\ (own[k] <= at => last = at)
  BY <1>1, <1>2 DEF Later
<1>4. /\ Restarts(k, q) = (Open(k) /\ (q.fetching => q.data.seen))
      /\ i.fetching = (Restarts(k, q) \/ q.fetching)
  BY <1>1 DEF Restarts, Invalidated, Fetching, Query
<1>5. CASE a = i
  <2>1. q.fetching /\ ~Restarts(k, q) => over
    BY <1>4, <1>5
  <2> QED
    BY <1>1, <1>2, <1>3, <1>5, <2>1, SoundInvalidated
<1>6. CASE a = Holding(i, Document(at)) /\ (late => over)
  <2>1. i \in Query /\ i.answer \in {q.answer, Read(k)} /\ Sound(i, last, TRUE, s)
    <3>1. q.fetching /\ ~Restarts(k, q) => TRUE
      OBVIOUS
    <3> QED
      BY <1>1, <1>2, <1>3, <3>1, SoundInvalidated
  <2>2. ~over => Sound(i, last, FALSE, s)
    <3>1. SUFFICES ASSUME ~over PROVE Sound(i, last, FALSE, s)
      OBVIOUS
    <3>2. a.fetching = i.fetching
      BY <1>6, <2>1, HoldingIs
    <3>3. q.fetching /\ ~Restarts(k, q) => FALSE
      BY <1>4, <3>1, <3>2
    <3> QED
      BY <1>1, <1>2, <1>3, <3>3, SoundInvalidated
  <2>3. /\ a \in Query /\ a.data.at = at /\ a.data.seen /\ a.fresh /\ a.fetching = i.fetching
        /\ a.answer = i.answer
    BY <1>6, <2>1, HoldingIs
  <2>4. over \/ last = at
    BY <1>3, <1>6
  <2> HIDE DEF i, last, s, q
  <2>5. Sound(a, last, over, s)
    BY <1>1, <1>3, <2>1, <2>2, <2>3, <2>4 DEF Sound, Query, Data
  <2>6. a = i => a.data = q.data
    <3>1. ~i.fresh
      BY <1>1 DEF i, Invalidated, Fetching, Query
    <3> QED
      BY <2>3, <3>1
  <2> QED
    BY <2>1, <2>3, <2>5, <2>6 DEF i, last, s, q
<1>7. CASE a = Invalidated(k, Holding(q, Document(at))) /\ (late => over)
  <2> DEFINE h == Holding(q, Document(at))
  <2>1. /\ h \in Query /\ h.data.at = at /\ h.data.seen /\ h.fetching = q.fetching
        /\ h.answer = q.answer
    BY <1>1, HoldingIs
  <2> HIDE DEF h
  <2>2. /\ Restarts(k, h) <=> Open(k)
        /\ Invalidated(k, h).fetching <=> (Restarts(k, h) \/ h.fetching)
    BY <2>1 DEF Restarts, Invalidated, Fetching, Query
  <2>3. h.fetching /\ ~Restarts(k, h) => over
    BY <1>4, <1>7, <2>1, <2>2 DEF h
  <2>4. /\ a \in Query /\ a.answer \in {h.answer, Read(k)} /\ Sound(a, last, over, s)
    BY <1>1, <1>2, <1>3, <1>7, <2>1, <2>3, SoundInvalidated DEF h
  <2> QED
    BY <1>5, <2>1, <2>4
<1> QED
  BY <1>5, <1>6, <1>7

LEMMA SettleKeeps ==
  ASSUME Inv, NEW j \in Jobs, Settle(j)
  PROVE  Inv'
<1> DEFINE op == job[j].op
           at == job[j].wrote["events"]
           after == Settled(op, at)
           new == [job[j] EXCEPT !.left = Tail(job[j].left)]
           over(k) == \/ after[k].fetching /\ ~Restarts(k, cache[k])
                      \/ k = "event" /\ Late(j)
           last(k) == Later(own[k], job[j].wrote[CollectionOf(k)])
<1>1. Typed /\ job[j] \in Job /\ "event" \in Keys /\ "events" \in Keys /\ "mine" \in Keys
  BY KeyNames DEF Inv, Typed
<1>2. /\ UNCHANGED <<setting, store, booked, exists, page, under, starts, misses, brokenOff,
                     unanswered>>
      /\ Going(j) /\ Now(j) = "settle" /\ cache' = after
      /\ own' = [k \in Keys |-> IF k \in About(op) THEN last(k) ELSE own[k]]
      /\ overtaken' = [k \in Keys |-> IF k \in About(op) THEN over(k) ELSE overtaken[k]]
      /\ job' = [job EXCEPT ![j] = new]
  BY DEF Settle, backend, screens, bounds
<1>3. /\ op \in Ops /\ at \in Nat
      /\ \A c \in Collections : job[j].wrote[c] \in Nat /\ job[j].wrote[c] <= store[c]
      /\ \A k \in About(op) : k \in Keys /\ job[j].wrote[CollectionOf(k)] >= 1
      /\ op = "delete" => job[j].left = S
  BY <1>1, <1>2, GoesOn, KeyNames DEF Inv, Counted, Job
<1>4. /\ new \in Job /\ new.op = op /\ new.left = Tail(job[j].left) /\ new.wrote = job[j].wrote
      /\ Stage(new.op, new.left, new.wrote)
  BY <1>1, <1>2, GoesOn, KeyNames DEF Job
<1>5. ASSUME NEW k \in Keys, k \in About(op)
      PROVE  /\ after[k] \in Query /\ over(k) \in BOOLEAN /\ last(k) \in Nat
             /\ Sound(after[k], last(k), over(k), store[CollectionOf(k)])
             /\ after[k].answer \in {cache[k].answer, Read(k)}
             /\ k # "event" => after[k].data = cache[k].data
             /\ own[k] <= last(k) /\ job[j].wrote[CollectionOf(k)] <= last(k)
  <2> DEFINE n == job[j].wrote[CollectionOf(k)]
  <2>1. /\ n \in Nat /\ 1 <= n /\ n <= store[CollectionOf(k)] /\ own[k] \in Nat
        /\ (k = "event" => n = at)
    BY <1>1, <1>3, <1>5, KeyNames DEF Typed
  <2>2. Sound(cache[k], own[k], overtaken[k], store[CollectionOf(k)])
    BY DEF Inv, Sounds
  <2> DEFINE late == k = "event" /\ Late(j)
  <2>3. late \in BOOLEAN /\ (late \/ k # "event" \/ own[k] <= n)
    <3>1. own["event"] <= own["events"] /\ own["event"] \in Nat /\ own["events"] \in Nat
      BY <1>1 DEF Inv, Ordered, Typed
    <3>2. CASE k = "event" /\ ~Late(j)
      BY <1>3, <2>1, <3>1, <3>2 DEF Late
    <3> QED
      BY <3>2
  <2>4. after[k] \in {Invalidated(k, cache[k])} \cup
                       (IF k = "event" THEN {Holding(Invalidated(k, cache[k]), Document(at)),
                                             Invalidated(k, Holding(cache[k], Document(at)))}
                        ELSE {})
    BY <1>1, <1>3, <1>5, SettledIs
  <2>5. over(k) \in BOOLEAN /\ (after[k].fetching /\ ~Restarts(k, cache[k]) => over(k))
        /\ (late => over(k))
    OBVIOUS
  <2>6. last(k) \in Nat /\ own[k] <= last(k) /\ n <= last(k) /\ last(k) = Later(own[k], n)
    BY <2>1 DEF Later
  <2> HIDE DEF after, over, late, n, last
  <2>7. CASE k = "event"
    <3>1. late \/ own[k] <= n
      BY <2>3, <2>7
    <3>2. \/ after[k] = Invalidated(k, cache[k])
          \/ after[k] = Holding(Invalidated(k, cache[k]), Document(n))
          \/ after[k] = Invalidated(k, Holding(cache[k], Document(n)))
      BY <2>1, <2>4, <2>7
    <3>3. /\ after[k] \in Query /\ Sound(after[k], Later(own[k], n), over(k), store[CollectionOf(k)])
          /\ after[k].answer \in {cache[k].answer, Read(k)}
      BY <1>1, <2>1, <2>2, <2>3, <2>5, <3>1, <3>2, AboutSound
    <3> QED
      BY <2>5, <2>6, <2>7, <3>3 DEF n
  <2>8. CASE k # "event"
    <3>1. after[k] = Invalidated(k, cache[k])
      BY <2>4, <2>8
    <3>2. TRUE \in BOOLEAN /\ (TRUE \/ own[k] <= n)
      OBVIOUS
    <3>3. /\ after[k] \in Query /\ Sound(after[k], Later(own[k], n), over(k), store[CollectionOf(k)])
          /\ after[k].answer \in {cache[k].answer, Read(k)} /\ after[k].data = cache[k].data
      BY <1>1, <2>1, <2>2, <2>5, <3>1, <3>2, AboutSound
    <3> QED
      BY <2>5, <2>6, <3>3 DEF n
  <2> QED
    BY <2>7, <2>8
<1>6. ASSUME NEW k \in Keys, k \notin About(op)
      PROVE  /\ after[k] \in Query
             /\ Sound(after[k], own[k], overtaken[k], store[CollectionOf(k)])
             /\ after[k] = cache[k] \/ (op = "delete" /\ k = "event" /\ after[k] = NoQuery)
  <2>1. cache[k] \in Query /\ Sound(cache[k], own[k], overtaken[k], store[CollectionOf(k)])
    BY <1>1 DEF Inv, Typed, Sounds
  <2>2. after[k] = cache[k] \/ (op = "delete" /\ k = "event" /\ after[k] = NoQuery)
    BY <1>1, <1>3, <1>6, SettledIs
  <2>3. Sound(NoQuery, own[k], overtaken[k], store[CollectionOf(k)])
    <3>1. store[CollectionOf(k)] \in Nat
      BY <1>1, KeyNames DEF Typed
    <3> QED
      BY <2>1, <3>1, NoQueryIs DEF Sound
  <2> QED
    BY <2>1, <2>2, <2>3, NoQueryIs
<1>7. after = [k \in Keys |-> after[k]]
  BY <1>1, <1>3, SettledDomain DEF Typed
<1>8. after \in [Keys -> Query]
  BY <1>5, <1>6, <1>7
<1>9. op = "delete" => after["event"] = NoQuery
  BY <1>1, <1>3, SettledIs
<1> HIDE DEF after, over, last, new, op, at
<1>10. /\ own' \in [Keys -> Nat] /\ overtaken' \in [Keys -> BOOLEAN]
       /\ \A k \in Keys : k \in About(op) => own'[k] = last(k) /\ overtaken'[k] = over(k)
       /\ \A k \in Keys : k \notin About(op) => own'[k] = own[k] /\ overtaken'[k] = overtaken[k]
       /\ \A k \in Keys : own[k] <= own'[k]
  BY <1>1, <1>2, <1>5 DEF Typed
<1>11. job' \in [Jobs -> Job] /\ job'[j] = new /\ \A i \in Jobs \ {j} : job'[i] = job[i]
  BY <1>1, <1>2, <1>4 DEF Typed
<1>12. Typed'
  BY <1>1, <1>2, <1>8, <1>10, <1>11 DEF Typed
<1>13. Staged'
  <2> SUFFICES ASSUME NEW i \in Jobs PROVE Stage(job'[i].op, job'[i].left, job'[i].wrote)
    BY DEF Staged, Stage
  <2> QED
    BY <1>4, <1>11 DEF Inv, Staged
<1>14. \A i \in Jobs : job'[i].op = job[i].op /\ job'[i].wrote = job[i].wrote
  BY <1>4, <1>11 DEF op
<1>15. Counted'
  BY <1>2, <1>14 DEF Inv, Counted
<1>16. Ordered'
  <2>1. CASE op \in {"create", "update"}
    <3>1. "event" \in About(op) /\ "events" \in About(op)
      BY <2>1, AboutIs
    <3>2. own["event"] <= own["events"] /\ own["event"] \in Nat /\ own["events"] \in Nat
      BY <1>1 DEF Inv, Ordered, Typed
    <3>3. own'["event"] = Later(own["event"], at) /\ own'["events"] = Later(own["events"], at)
      BY <1>1, <1>10, <3>1, KeyNames DEF last, at
    <3> QED
      BY <1>3, <3>2, <3>3 DEF Ordered, Later
  <2>2. CASE op \notin {"create", "update"}
    <3>1. "event" \notin About(op)
      BY <1>3, <2>2, AboutIs DEF Ops
    <3>2. /\ own["event"] \in Nat /\ own'["events"] \in Nat /\ own["events"] \in Nat
          /\ own["events"] <= own'["events"] /\ own["event"] <= own["events"]
      BY <1>1, <1>10 DEF Typed, Inv, Ordered
    <3> QED
      BY <1>1, <1>10, <3>1, <3>2 DEF Ordered
  <2> QED
    BY <2>1, <2>2
<1>17. Sounds'
  <2> SUFFICES ASSUME NEW k \in Keys
               PROVE  Sound(cache'[k], own'[k], overtaken'[k], store'[CollectionOf(k)])
    BY DEF Sounds, Sound, Typed, CollectionOf
  <2> QED
    BY <1>2, <1>5, <1>6, <1>10
<1>18. ASSUME NEW d \in Jobs, Deleting(d), op # "delete" PROVE Deleting(d)'
  <2>1. d # j
    BY <1>18 DEF Deleting, op
  <2> QED
    BY <1>11, <1>18, <2>1 DEF Deleting
<1>19. Removed'
  <2>1. SUFFICES ASSUME ~exists, ~unanswered PROVE Removed'
    BY <1>2 DEF Removed
  <2>2. /\ \A i \in Jobs : Saved(i) =>
             Late(i) \/ \E d \in Jobs : Deleting(d) /\ job[i].wrote["events"] < job[d].wrote["events"]
        /\ cache["event"].answer.seen => \E d \in Jobs : Deleting(d)
        /\ cache["event"].data.seen => overtaken["event"] \/ \E d \in Jobs : Deleting(d)
    BY <2>1 DEF Inv, Removed
  <2>3. ASSUME NEW i \in Jobs
        PROVE  /\ job[i].wrote["events"] \in Nat /\ own["events"] \in Nat /\ own'["events"] \in Nat
               /\ own["events"] <= own'["events"] /\ (Late(i) => Late(i)')
    <3>1. job[i] \in Job /\ "events" \in Collections
      BY <1>1, KeyNames DEF Typed
    <3>2. /\ job[i].wrote["events"] \in Nat /\ own["events"] \in Nat /\ own'["events"] \in Nat
          /\ own["events"] <= own'["events"]
      BY <1>1, <1>10, <3>1 DEF Typed, Job
    <3> QED
      BY <1>14, <3>2 DEF Late
  <2>4. CASE op = "delete"
    <3>1. own'["events"] >= job[j].wrote["events"]
      BY <1>1, <1>5, <1>10, <2>4, AboutIs, KeyNames
    <3>2. ASSUME NEW i \in Jobs, Saved(i)'
          PROVE  Late(i)' \/ \E d \in Jobs : Deleting(d)' /\ job'[i].wrote["events"] < job'[d].wrote["events"]
      <4>1. Saved(i)
        BY <1>14, <3>2 DEF Saved
      <4>2. ASSUME NEW d \in Jobs, Deleting(d), job[i].wrote["events"] < job[d].wrote["events"], d # j
            PROVE  Deleting(d)' /\ job'[i].wrote["events"] < job'[d].wrote["events"]
        BY <1>11, <1>14, <4>2 DEF Deleting
      <4>3. ASSUME job[i].wrote["events"] < job[j].wrote["events"] PROVE Late(i)'
        BY <1>14, <2>3, <3>1, <4>3 DEF Late
      <4> QED
        BY <2>2, <2>3, <4>1, <4>2, <4>3
    <3>3. ~cache'["event"].answer.seen /\ ~cache'["event"].data.seen
      BY <1>2, <1>9, <2>4, NoQueryIs
    <3> QED
      BY <3>2, <3>3 DEF Removed
  <2>5. CASE op # "delete"
    <3>1. (\E d \in Jobs : Deleting(d)) => \E d \in Jobs : Deleting(d)'
      BY <1>18, <2>5
    <3>2. ASSUME NEW i \in Jobs, Saved(i)'
          PROVE  Late(i)' \/ \E d \in Jobs : Deleting(d)' /\ job'[i].wrote["events"] < job'[d].wrote["events"]
      <4>1. Saved(i)
        BY <1>14, <3>2 DEF Saved
      <4>2. ASSUME NEW d \in Jobs, Deleting(d), job[i].wrote["events"] < job[d].wrote["events"]
            PROVE  Deleting(d)' /\ job'[i].wrote["events"] < job'[d].wrote["events"]
        BY <1>14, <1>18, <2>5, <4>2
      <4> QED
        BY <2>2, <2>3, <4>1, <4>2
    <3>3. CASE "event" \in About(op)
      <4>1. cache'["event"].answer.seen => \E d \in Jobs : Deleting(d)
        BY <1>1, <1>2, <1>5, <2>1, <2>2, <3>3, ReadIs, NoQueryIs
      <4>2. Saved(j)
        <5>1. op \in {"create", "update"}
          BY <1>3, <3>3, AboutIs DEF Ops
        <5>2. job[j].wrote["events"] >= 1
          BY <1>3, <3>3, KeyNames
        <5> QED
          BY <5>1, <5>2 DEF Saved, op
      <4>3. overtaken'["event"] \/ \E d \in Jobs : Deleting(d)
        <5>1. Late(j) => over("event")
          BY DEF over
        <5> QED
          BY <1>1, <1>10, <2>2, <3>3, <4>2, <5>1
      <4> QED
        BY <3>1, <3>2, <4>1, <4>3 DEF Removed
    <3>4. CASE "event" \notin About(op)
      <4>1. cache'["event"] = cache["event"] /\ overtaken'["event"] = overtaken["event"]
        BY <1>1, <1>2, <1>6, <1>10, <2>5, <3>4
      <4> QED
        BY <2>2, <3>1, <3>2, <4>1 DEF Removed
    <3> QED
      BY <3>3, <3>4
  <2> QED
    BY <2>4, <2>5
<1>20. BookingSeen'
  <2>1. SUFFICES ASSUME booked.active > 0, ~booked.cancelled, ~brokenOff
                 PROVE  Older(cache["mine"].data)' /\ Older(cache["mine"].answer)'
    BY <1>2 DEF BookingSeen
  <2>2. Older(cache["mine"].data) /\ Older(cache["mine"].answer)
    BY <2>1 DEF Inv, BookingSeen
  <2>3. /\ cache'["mine"].data = cache["mine"].data
        /\ cache'["mine"].answer \in {cache["mine"].answer, Read("mine")}
    <3>1. CASE "mine" \in About(op)
      BY <1>1, <1>2, <1>5, <3>1
    <3>2. CASE "mine" \notin About(op)
      BY <1>1, <1>2, <1>6, <3>2
    <3> QED
      BY <3>1, <3>2
  <2>4. ~Read("mine").free
    BY <1>1, <2>1, ReadIs
  <2>5. /\ own["mine"] \in Nat /\ own'["mine"] \in Nat /\ own["mine"] <= own'["mine"]
        /\ (op = "book" => job[j].wrote["bookings"] <= own'["mine"])
        /\ job[j].wrote["bookings"] \in Nat
    <3>1. op = "book" => "mine" \in About(op)
      BY AboutIs
    <3>2. /\ own["mine"] \in Nat /\ own'["mine"] \in Nat /\ own["mine"] <= own'["mine"]
          /\ job[j].wrote["bookings"] \in Nat
      BY <1>1, <1>3, <1>10, KeyNames DEF Typed
    <3> QED
      BY <1>1, <1>5, <1>10, <3>1, <3>2, KeyNames
  <2>6. ASSUME NEW data \in Data, Older(data) PROVE Older(data)'
    <3>1. SUFFICES ASSUME data.seen, data.free
                   PROVE  data.at < own'["mine"]
                          \/ \E i \in Jobs : Booked(i)' /\ data.at < job'[i].wrote["bookings"]
      BY DEF Older
    <3>2. data.at < own["mine"] \/ \E i \in Jobs : Booked(i) /\ data.at < job[i].wrote["bookings"]
      BY <2>6, <3>1 DEF Older
    <3>3. data.at \in Nat
      BY DEF Data
    <3>4. ASSUME NEW i \in Jobs, Booked(i), data.at < job[i].wrote["bookings"], i # j
          PROVE  Booked(i)' /\ data.at < job'[i].wrote["bookings"]
      BY <1>11, <3>4 DEF Booked, Going
    <3>5. ASSUME Booked(j), data.at < job[j].wrote["bookings"] PROVE data.at < own'["mine"]
      BY <2>5, <3>3, <3>5 DEF Booked, op
    <3> QED
      BY <2>5, <3>2, <3>3, <3>4, <3>5
  <2>7. cache["mine"].data \in Data /\ cache["mine"].answer \in Data
    BY <1>1 DEF Typed, Query
  <2>8. ASSUME NEW data, ~data.free PROVE Older(data)'
    BY <2>8 DEF Older
  <2> QED
    BY <2>2, <2>3, <2>4, <2>6, <2>7, <2>8
<1> QED
  BY <1>12, <1>13, <1>15, <1>16, <1>17, <1>19, <1>20 DEF Inv

-----------------------------------------------------------------------------
(* The theorems.                                                           *)

LEMMA InitInv == Init => Inv
<1> SUFFICES ASSUME Init PROVE Inv
  OBVIOUS
<1>1. /\ setting \in Settings /\ store = Unwritten /\ exists \in BOOLEAN
      /\ page \in Pages /\ under \subseteq Keys
      /\ job = [j \in Jobs |-> NoJob] /\ starts \in 0..MaxStarts /\ misses \in 0..MaxMisses
      /\ own = [k \in Keys |-> 0] /\ overtaken = [k \in Keys |-> FALSE]
      /\ brokenOff = FALSE /\ unanswered = FALSE
  <2>1. exists \in BOOLEAN
    <3>1. exists \in (IF Organizer THEN BOOLEAN ELSE {TRUE})
      BY DEF Init
    <3> QED
      BY <3>1
  <2>2. 0 \in 0..MaxStarts /\ 0 \in 0..MaxMisses
    BY PageConstants
  <2>3. page \in Pages /\ under \subseteq Keys
    BY Targets DEF Init
  <2> QED
    BY <2>1, <2>2, <2>3 DEF Init
<1>2. booked \in [active : Nat, cancelled : BOOLEAN] /\ booked.active = 0
  <2> DEFINE B == IF Attendee THEN BOOLEAN ELSE {FALSE}
  <2>1. booked \in [active : {0}, cancelled : B]
    BY DEF Init
  <2>2. B \subseteq BOOLEAN
    OBVIOUS
  <2> HIDE DEF B
  <2> QED
    BY <2>1, <2>2
<1>3. store \in [Collections -> Nat] /\ \A c \in Collections : store[c] = 0
  BY <1>1 DEF Unwritten
<1>4. ASSUME NEW k \in Keys
      PROVE  Read(k) \in Data /\ (Read(k) = NoData \/ (Read(k).seen /\ Read(k).at = 0))
             /\ (k = "event" /\ ~exists => Read(k) = NoData)
  <2>1. MayShowFree(k) \in BOOLEAN /\ store[CollectionOf(k)] = 0
    BY <1>2, <1>3, KeyNames DEF MayShowFree
  <2> QED
    BY <2>1, NoQueryIs DEF Read, Data
<1>5. ASSUME NEW k \in Keys
      PROVE  /\ cache[k] \in Query /\ ~cache[k].fresh /\ cache[k].data = NoData
             /\ cache[k].answer = NoData \/ (cache[k].fetching /\ cache[k].answer = Read(k))
  <2>1. cache[k] = IF k \in Queries("list") THEN Fetching(k, NoQuery) ELSE NoQuery
    BY DEF Init
  <2>2. /\ Fetching(k, NoQuery) \in Query /\ ~Fetching(k, NoQuery).fresh
        /\ Fetching(k, NoQuery).data = NoData /\ Fetching(k, NoQuery).fetching
        /\ Fetching(k, NoQuery).answer = Read(k)
    BY <1>4, NoQueryIs DEF Fetching, Query
  <2> QED
    BY <2>1, <2>2, NoQueryIs
<1>6. cache \in [Keys -> Query]
  BY <1>5 DEF Init
<1>7. Typed
  BY <1>1, <1>2, <1>3, <1>6, NoJobIs DEF Typed
<1>8. Staged
  BY <1>1, NoJobIs DEF Staged, Stage
<1>9. Counted
  BY <1>1, <1>3, NoJobIs DEF Counted
<1>10. Ordered
  BY <1>1, KeyNames DEF Ordered
<1>11. Sounds
  <2> SUFFICES ASSUME NEW k \in Keys
               PROVE  Sound(cache[k], own[k], overtaken[k], store[CollectionOf(k)])
    BY DEF Sounds
  <2>1. own[k] = 0 /\ ~overtaken[k] /\ store[CollectionOf(k)] = 0
    BY <1>1, <1>3, KeyNames
  <2> QED
    BY <1>4, <1>5, <2>1, NoQueryIs DEF Sound
<1>12. Removed
  <2>1. ASSUME NEW j \in Jobs PROVE ~Saved(j)
    BY <1>1, NoJobIs DEF Saved
  <2>2. ~exists => cache["event"].answer = NoData
    BY <1>4, <1>5, KeyNames
  <2> QED
    BY <1>5, <2>1, <2>2, NoQueryIs, KeyNames DEF Removed
<1>13. BookingSeen
  BY <1>2 DEF BookingSeen
<1> QED
  BY <1>7, <1>8, <1>9, <1>10, <1>11, <1>12, <1>13 DEF Inv

LEMMA Stuttering == Inv /\ UNCHANGED vars => Inv'
<1> SUFFICES ASSUME Inv, UNCHANGED vars PROVE Inv'
  OBVIOUS
<1>1. /\ UNCHANGED <<setting, store, booked, exists, page, under, cache, job, starts, misses,
                     own, overtaken, brokenOff, unanswered>>
  BY DEF vars, backend, screens, bounds, history
<1>2. Typed'
  BY <1>1 DEF Inv, Typed
<1>3. Grows /\ \A j \in Jobs : SameJob(j)
  BY <1>1, StoreSame DEF Inv, SameJob
<1>4. Staged' /\ Counted' /\ Carried
  BY <1>2, <1>3, Carrying
<1> QED
  BY <1>1, <1>2, <1>3, <1>4, Quiet DEF Step

LEMMA Beginnings ==
  ASSUME Book \/ Cancel \/ Delete \/ CheckIn \/ Update \/ Create
  PROVE  \E op \in Ops : Begin(op)
BY DEF Book, Cancel, Delete, CheckIn, Update, Create, Ops

LEMMA NextInv == Inv /\ [Next]_vars => Inv'
<1> SUFFICES ASSUME Inv, [Next]_vars PROVE Inv'
  OBVIOUS
<1>1. CASE UNCHANGED vars
  BY <1>1, Stuttering
<1>2. CASE \E p \in Pages : Visit(p)
  BY <1>2, VisitKeeps
<1>3. CASE \E k \in Keys : Serve(k) \/ Receive(k) \/ FetchFails(k) \/ Refetch(k)
  BY <1>3, FetchKeeps
<1>4. CASE Book \/ Cancel \/ Delete \/ CheckIn \/ Update \/ Create
  <2>1. PICK op \in Ops : Begin(op)
    BY <1>4, Beginnings
  <2>2. UNCHANGED <<page, under>>
    BY <2>1 DEF Begin, screens
  <2> QED
    BY <2>1, <2>2, BeginKeeps
<1>5. CASE \E j \in Jobs : \/ Write(j) \/ Reconcile(j) \/ Settle(j) \/ Finish(j)
                          \/ Fail(j) \/ AnswerLost(j)
  BY <1>5, WriteKeeps, ReconcileKeeps, SettleKeeps, FinishKeeps, FailKeeps, AnswerLostKeeps
<1>6. CASE \E c \in Collections : Elsewhere(c)
  BY <1>6, ElsewhereKeeps
<1> QED
  BY <1>1, <1>2, <1>3, <1>4, <1>5, <1>6 DEF Next

LEMMA InvShows == Inv => TypeOK /\ OwnWritesShown /\ DeletedIsGone
<1> SUFFICES ASSUME Inv PROVE TypeOK /\ OwnWritesShown /\ DeletedIsGone
  OBVIOUS
<1>1. TypeOK
  BY TypedImplies DEF Inv
<1>2. OwnWritesShown
  BY DEF Inv, Sounds, Sound, OwnWritesShown
<1>3. DeletedIsGone
  <2> SUFFICES ASSUME ~exists, ~unanswered, \A j \in Jobs : job[j] = NoJob
               PROVE  ~cache["event"].data.seen \/ overtaken["event"]
    BY DEF DeletedIsGone
  <2>1. \A d \in Jobs : ~Deleting(d)
    BY NoJobIs DEF Deleting
  <2> QED
    BY <2>1 DEF Inv, Removed
<1> QED
  BY <1>1, <1>2, <1>3

\* Every variable has its type.
THEOREM PagesTyped == Spec => []TypeOK
<1> QED
  BY InitInv, NextInv, InvShows, PTL DEF Spec

\* Data that a page takes for fresh is never from before a write of the user
\* that succeeded, unless it overtook a fetch, an answer, or (the entry of an
\* event created or saved, which comes after onSuccess) the feed as it was then.
THEOREM PagesShowOwnWrites == Spec => []OwnWritesShown
<1> QED
  BY InitInv, NextInv, InvShows, PTL DEF Spec

\* With nothing under way a deleted event is in no page's cache
\* (OrganizerActions.tsx), unless a save that settled after the deletion put it
\* back, or the answer to the deletion was lost, so that its onSuccess never ran.
THEOREM DeletedLeavesThePages == Spec => []DeletedIsGone
<1> QED
  BY InitInv, NextInv, InvShows, PTL DEF Spec

\* BookButton.tsx lets a user who holds a booking book again only in one of the
\* five gaps.
THEOREM RebookingNeedsAGap == Spec => RebooksOnlyInAGap
<1>1. ASSUME Inv, Book, booked.active > 0, "mine" \in setting.watched
      PROVE  \/ ~cache["mine"].fresh \/ overtaken["mine"]
             \/ booked.cancelled \/ brokenOff
             \/ \E j \in Jobs : job[j].op = "book" /\ Going(j)
  <2>1. SUFFICES ASSUME cache["mine"].fresh, ~overtaken["mine"], ~booked.cancelled, ~brokenOff
                 PROVE  \E j \in Jobs : job[j].op = "book" /\ Going(j)
    OBVIOUS
  <2>2. /\ cache["mine"].data.seen /\ cache["mine"].data.at >= own["mine"]
        /\ cache["mine"] \in Query /\ own["mine"] \in Nat
    BY <1>1, <2>1, KeyNames DEF Inv, Typed, Sounds, Sound
  <2>3. cache["mine"].data.free
    BY <1>1 DEF Book
  <2>4. Older(cache["mine"].data)
    BY <1>1, <2>1 DEF Inv, BookingSeen
  <2>5. ~(cache["mine"].data.at < own["mine"])
    BY <2>2 DEF Query, Data
  <2> QED
    BY <2>2, <2>3, <2>4, <2>5 DEF Older, Booked
<1>2. Inv /\ [Next]_vars =>
        [Book /\ booked.active > 0 /\ "mine" \in setting.watched =>
           \/ ~cache["mine"].fresh \/ overtaken["mine"]
           \/ booked.cancelled \/ brokenOff
           \/ \E j \in Jobs : job[j].op = "book" /\ Going(j)]_vars
  BY <1>1
<1> QED
  BY <1>2, InitInv, NextInv, PTL DEF Spec, RebooksOnlyInAGap
=============================================================================
