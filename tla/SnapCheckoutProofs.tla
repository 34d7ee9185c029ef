------------------------- MODULE SnapCheckoutProofs -------------------------
(***************************************************************************)
(* Proofs about SnapCheckout, for any number of tabs, orders and events.   *)
(***************************************************************************)
EXTENDS SnapCheckout, FiniteSetTheorems, WellFoundedInduction, TLAPS

(* The order with the greatest number.                                       *)

\* A set of numbers up to n that is not empty has a greatest one.
LEMMA Greatest ==
    ASSUME NEW n \in Nat, NEW S \in SUBSET (1..n), S # {}
    PROVE  \E x \in S : \A y \in S : y <= x
  <1> DEFINE T == {m \in Nat : n - m \in S}
  <1>1. T # {}
    <2>1. PICK y \in S : TRUE
      OBVIOUS
    <2>2. n - y \in Nat /\ n - (n - y) = y
      OBVIOUS
    <2> QED
      BY <2>1, <2>2
  <1>2. PICK m \in T : \A k \in T : ~ (<<k, m>> \in OpToRel(<, Nat))
    BY <1>1, WFMin, NatLessThanWellFounded
  <1>3. \A k \in T : ~ (k < m)
    BY <1>2 DEF OpToRel
  <1>4. ASSUME NEW y \in S PROVE y <= n - m
    <2>1. n - y \in Nat /\ n - (n - y) = y
      OBVIOUS
    <2>2. n - y \in T
      BY <2>1
    <2>3. ~ (n - y < m)
      BY <1>3, <2>2
    <2>4. m \in Nat /\ y \in Nat
      OBVIOUS
    <2> QED
      BY <2>3, <2>4
  <1> QED
    BY <1>4

\* The latest of some orders is one of them.
LEMMA LatestIn ==
    ASSUME NEW S \in SUBSET Orders
    PROVE  /\ S = {} => Latest(S) = NoOrder
           /\ S # {} => Latest(S) \in S
  BY Greatest, CheckoutAssumption DEF Latest, Orders
\* There are finitely many orders.
LEMMA RowsFinite == /\ IsFiniteSet(Rows) /\ Cardinality(Rows) \in Nat
                    /\ IsFiniteSet(Orders)
  <1>1. IsFiniteSet(Orders)
    BY FS_Interval, CheckoutAssumption DEF Orders
  <1> QED
    BY <1>1, FS_Subset, FS_CardinalityType DEF Rows
-----------------------------------------------------------------------------
(* The inductive invariant.                                                  *)

CreateGoals == {"snap", "replace", "qris"}
CreateSteps == {"read", "choose", "lapsed", "dropped", "create"}
CancelSteps == {"provider", "local", "cancelled"}
BlankSteps == {"idle", "read", "create"}

\* A session is being opened for the order of the request.
Opening(a) == pc[a].at \in {"session", "save"}

\* A request has an order once it has found or created one, only a create request
\* chooses or creates, and only a cancelling one cancels; orders are numbered in
\* the order they are created, and one request at most opens the session of each.
Blank == \A a \in Actors : pc[a].at \in BlankSteps => pc[a].order = NoOrder
Clean == \A a \in Actors : pc[a].at \in {"read", "dropped"} => pc[a].answer \notin Words
Steered ==
    \A a \in Actors : /\ pc[a].at = "idle" => pc[a].goal \notin CreateGoals
                      /\ pc[a].at \in CreateSteps => pc[a].goal \in CreateGoals
                      /\ pc[a].at \in CancelSteps => pc[a].goal \notin {"check", "sweep"}
Numbered == \E n \in 0..MaxOrders : Rows = 1..n
OpeningOnce ==
    \A a, b \in Actors : Opening(a) /\ Opening(b) /\ pc[a].order = pc[b].order => a = b

\* Until its session is stored nobody can have paid an order: not at the provider,
\* not by an answer under way, not in the row.
Unpaid(o) ==
    /\ o \notin session /\ ~IsSettled(status[o]) /\ provider[o] # "settlement"
    /\ \A b \in Actors : pc[b].order = o => pc[b].answer # "settlement"
OpeningUnpaid == \A a \in Actors : Opening(a) => Unpaid(pc[a].order)

\* Where no two writers overlapped, one at most is about to write the status, the
\* catch block does not find a paid order, and a transaction that finds one has
\* read it as paid.  A pending order was read as pending, crossed or not: no
\* transition goes back to PENDING.
WritesAlone == \A o \in Orders \ crossed : \A a, b \in Writers(o) : a = b
RefusesUnpaid ==
    \A a \in Actors : At(a, "refuse") /\ pc[a].order \notin crossed => ~IsSettled(status[pc[a].order])
ReadBefore ==
    \A a \in Actors : pc[a].at \in TxSteps =>
        /\ pc[a].saw # Absent
        /\ status[pc[a].order] = "PENDING" => pc[a].saw = "PENDING"
        /\ IsSettled(status[pc[a].order]) /\ pc[a].order \notin crossed => IsSettled(pc[a].saw)

Safe == /\ Blank /\ Clean /\ Steered /\ Numbered /\ OpeningOnce
        /\ OpeningUnpaid /\ WritesAlone /\ RefusesUnpaid /\ ReadBefore

\* Every request that has yet to create its order stands for an order to come.  When
\* one of them has not yet seen a pending order there is, or is about to close one,
\* it will not add to the orders that are pending.
Creators == {p \in Procs : Creating(p)}
Choosers == {p \in Creators : At(p, "read") \/ pc[p].order \in Waiting}
Spare == IF Waiting # {} /\ Choosers # {} THEN 1 ELSE 0
Bounded == /\ IsFiniteSet(Creators)
           /\ Cardinality(Waiting) + Cardinality(Creators) <= 1 + blind + Spare

Inv == TypeOK /\ Safe /\ Bounded

\* What a step leaves of the orders that are paid.
Kept == \A o \in Paid \ crossed : IsSettled(status'[o])
-----------------------------------------------------------------------------
(* The steps that do not create an order or open its session.                *)

\* An actor goes on with the record r.
Onward(a, r) ==
    /\ Go(a, r) /\ r \in PcRecords
    /\ r.at \notin {"session", "save", "refuse"}
    /\ IF r.at \in BlankSteps THEN r.order = NoOrder ELSE r.order \in Rows
    /\ r.answer = "settlement" => \/ r.order \in Orders /\ provider[r.order] = "settlement"
                                  \/ pc[a].answer = "settlement" /\ pc[a].order = r.order
    /\ r.at \in {"read", "dropped"} => r.answer \notin Words
    /\ r.at = "idle" => r.goal \notin CreateGoals
    /\ r.at \in CreateSteps => r.goal \in CreateGoals
    /\ r.at \in CancelSteps => r.goal \notin {"check", "sweep"}
    /\ IF r.at \in TxSteps
       THEN r.saw = status[r.order] /\ Cross(a, r.order) /\ status' = status
       ELSE crossed' = crossed

\* Meanwhile the rest stands still, but for a cancellation at the provider, ...
Frame ==
    /\ session' = session /\ lapsed' = lapsed /\ aged' = aged
    /\ sweep' \subseteq Rows
    /\ events' \in 0..MaxEvents /\ blind' \in 0..events'
    /\ provider' \in [Orders -> ProviderStates]
    /\ \A o \in Orders : /\ provider'[o] # "none" => provider[o] # "none"
                         /\ provider'[o] = "settlement" => provider[o] = "settlement"

\* ... and for what a transition does to its order.
Rewrites(a) ==
    /\ status' \in [Orders -> OrderStatuses \cup {Absent}]
    /\ Rows' = Rows
    /\ \A q \in Orders : status'[q] = "PENDING" => status[q] = "PENDING"
    /\ \A q \in Orders : IsSettled(status'[q]) =>
           \/ IsSettled(status[q])
           \/ q = pc[a].order /\ pc[a].at \in TxSteps /\ pc[a].answer = "settlement"

\* A step that writes no status.
LEMMA Unwritten ==
    ASSUME TypeOK, UNCHANGED status, NEW a
    PROVE  Rewrites(a)
  BY DEF TypeOK, OrdersOK, Rewrites, Rows

\* Going on keeps the types, ...
LEMMA OnwardTypes ==
    ASSUME TypeOK, NEW a \in Actors, NEW r, Onward(a, r), Frame, Rewrites(a)
    PROVE  TypeOK'
  <1>1. OrdersOK'
    BY DEF TypeOK, OrdersOK, Frame, Rewrites
  <1>2. ActorsOK'
    BY DEF TypeOK, ActorsOK, Onward, Go, Rewrites, BlankSteps
  <1>3. crossed' \subseteq Rows
    BY DEF TypeOK, HistoryOK, Onward, Cross, BlankSteps, TxSteps
  <1>4. HistoryOK'
    BY <1>3 DEF HistoryOK, Frame, Rewrites
  <1> QED
    BY <1>1, <1>2, <1>4 DEF TypeOK

\* ... and what is known of the sessions and of the writers.
LEMMA OnwardSafe ==
    ASSUME TypeOK, Safe, NEW a \in Actors, NEW r, Onward(a, r), Frame, Rewrites(a)
    PROVE  Safe'
  <1>0. /\ pc \in [Actors -> PcRecords] /\ pc' = [pc EXCEPT ![a] = r]
        /\ pc'[a] = r /\ \A b \in Actors : b # a => pc'[b] = pc[b]
        /\ \A b \in Actors : pc[b].at \in BlankSteps \/ pc[b].order \in Rows
        /\ Rows \subseteq Orders
    BY DEF TypeOK, ActorsOK, Onward, Go, Rows, BlankSteps
  <1>1. /\ crossed \subseteq crossed'
        /\ r.at \in TxSteps => r.order \in crossed' \/ Writers(r.order) \ {a} = {}
    BY DEF Onward, Cross
  <1>2. Blank' /\ Clean' /\ Steered'
    BY <1>0 DEF Safe, Blank, Clean, Steered, Onward
  <1>3. Numbered' /\ OpeningOnce'
    BY <1>0 DEF Safe, Numbered, OpeningOnce, Opening, Onward, Rewrites
  <1>4. OpeningUnpaid'
    <2> SUFFICES ASSUME NEW b \in Actors, Opening(b)'
                 PROVE  /\ pc'[b].order \notin session' /\ ~IsSettled(status'[pc'[b].order])
                        /\ provider'[pc'[b].order] # "settlement"
                        /\ \A c \in Actors : pc'[c].order = pc'[b].order => pc'[c].answer # "settlement"
      BY DEF OpeningUnpaid, Unpaid
    <2>1. b # a /\ pc'[b] = pc[b]
      BY <1>0 DEF Opening, Onward
    <2> DEFINE o == pc[b].order
    <2>2. Opening(b) /\ o \in Orders /\ Unpaid(o)
      BY <1>0, <2>1 DEF Opening, Safe, OpeningUnpaid, BlankSteps
    <2> HIDE DEF o
    <2>3. o \notin session' /\ ~IsSettled(status'[o]) /\ provider'[o] # "settlement"
      BY <2>2 DEF Unpaid, Frame, Rewrites
    <2>4. ASSUME NEW c \in Actors, pc'[c].order = o PROVE pc'[c].answer # "settlement"
      <3>1. CASE c = a
        BY <1>0, <2>2, <2>4, <3>1 DEF Unpaid, Onward
      <3>2. CASE c # a
        BY <1>0, <2>2, <2>4, <3>2 DEF Unpaid
      <3> QED
        BY <3>1, <3>2
    <2> QED
      BY <2>1, <2>3, <2>4 DEF o
  <1>5. WritesAlone'
    <2> SUFFICES ASSUME NEW o \in Orders \ crossed',
                        NEW b \in Actors, NEW c \in Actors, b \in Writers(o)', c \in Writers(o)'
                 PROVE  b = c
      BY DEF WritesAlone, Writers
    <2>1. ASSUME NEW d \in Actors, d # a, d \in Writers(o)' PROVE d \in Writers(o)
      BY <1>0, <2>1 DEF Writers
    <2>2. ASSUME a \in Writers(o)' PROVE Writers(o) \ {a} = {}
      BY <1>0, <1>1, <2>2 DEF Writers, Onward
    <2>3. o \in Orders \ crossed
      BY <1>1
    <2> QED
      BY <2>1, <2>2, <2>3 DEF Safe, WritesAlone
  <1>6. RefusesUnpaid'
    <2> SUFFICES ASSUME NEW b \in Actors, At(b, "refuse")', pc'[b].order \notin crossed'
                 PROVE  ~IsSettled(status'[pc'[b].order])
      BY DEF RefusesUnpaid
    <2>1. b # a /\ pc'[b] = pc[b]
      BY <1>0 DEF At, Onward
    <2> DEFINE o == pc[b].order
    <2>2. At(b, "refuse") /\ o \in Orders /\ o \notin crossed /\ ~IsSettled(status[o])
      BY <1>0, <1>1, <2>1 DEF At, Safe, RefusesUnpaid, BlankSteps
    <2>3. ~ (pc[a].order = o /\ pc[a].at \in TxSteps)
      BY <2>1, <2>2 DEF Safe, WritesAlone, Writers, At
    <2> QED
      BY <2>1, <2>2, <2>3 DEF Rewrites
  <1>7. ReadBefore'
    <2> SUFFICES ASSUME NEW b \in Actors, pc'[b].at \in TxSteps
                 PROVE  /\ pc'[b].saw # Absent
                        /\ status'[pc'[b].order] = "PENDING" => pc'[b].saw = "PENDING"
                        /\ IsSettled(status'[pc'[b].order]) /\ pc'[b].order \notin crossed'
                              => IsSettled(pc'[b].saw)
      BY DEF ReadBefore
    <2>1. CASE b = a
      <3>1. r.order \in Rows /\ r.saw = status[r.order] /\ status' = status
        BY <1>0, <2>1 DEF Onward, TxSteps, BlankSteps
      <3> QED
        BY <1>0, <2>1, <3>1 DEF Rows
    <2>2. CASE b # a
      <3> DEFINE o == pc[b].order
      <3>1. /\ pc'[b] = pc[b] /\ o \in Orders
            /\ pc[b].saw # Absent
            /\ status[o] = "PENDING" => pc[b].saw = "PENDING"
            /\ IsSettled(status[o]) /\ o \notin crossed => IsSettled(pc[b].saw)
        BY <1>0, <2>2 DEF Safe, ReadBefore, TxSteps, BlankSteps
      <3>2. o \notin crossed => ~ (pc[a].order = o /\ pc[a].at \in TxSteps)
        BY <2>2, <3>1 DEF Safe, WritesAlone, Writers
      <3> QED
        BY <1>1, <3>1, <3>2 DEF Rewrites
    <2> QED
      BY <2>1, <2>2
  <1> QED
    BY <1>2, <1>3, <1>4, <1>5, <1>6, <1>7 DEF Safe
-----------------------------------------------------------------------------
(* Counting the orders that are pending and those to come.                   *)

\* A record is one of a request that has yet to create its order.
Creates(r) == r.goal \in CreateGoals /\ r.at \notin {"idle", "session", "save", "refuse"}

\* The orders that can be offered are finitely many.
LEMMA WaitingFinite == IsFiniteSet(Waiting) /\ Cardinality(Waiting) \in Nat
  <1>1. Waiting \in SUBSET Orders
    BY DEF Waiting, Pending
  <1> QED
    BY <1>1, RowsFinite, FS_Subset, FS_CardinalityType

\* The count is kept when nothing is added, unless the last request to choose
\* stops choosing and neither it nor a pending order is gone.
LEMMA Shrinks ==
    ASSUME TypeOK, Bounded, blind' = blind, Waiting' \subseteq Waiting, Creators' \subseteq Creators,
           Waiting # {} /\ Waiting' = Waiting /\ Creators' = Creators /\ Choosers # {} => Choosers' # {}
    PROVE  Bounded'
  <1>1. IsFiniteSet(Waiting) /\ IsFiniteSet(Creators)
    BY WaitingFinite DEF Bounded
  <1>2. IsFiniteSet(Waiting') /\ IsFiniteSet(Creators')
    BY <1>1, FS_Subset
  <1>3. /\ Cardinality(Waiting) \in Nat /\ Cardinality(Creators) \in Nat
        /\ Cardinality(Waiting') \in Nat /\ Cardinality(Creators') \in Nat
    BY <1>1, <1>2, FS_CardinalityType
  <1>4. /\ Cardinality(Waiting') <= Cardinality(Waiting)
        /\ Cardinality(Waiting) = Cardinality(Waiting') => Waiting' = Waiting
    BY <1>1, FS_Subset
  <1>5. /\ Cardinality(Creators') <= Cardinality(Creators)
        /\ Cardinality(Creators) = Cardinality(Creators') => Creators' = Creators
    BY <1>1, FS_Subset
  <1>6. blind \in Nat
    BY DEF TypeOK, HistoryOK
  <1>7. Spare \in {0, 1} /\ Spare' \in {0, 1}
    BY DEF Spare
  <1>8. Cardinality(Waiting) + Cardinality(Creators) <= 1 + blind + Spare
    BY DEF Bounded
  <1>9. CASE Waiting' = Waiting /\ Creators' = Creators
    <2>1. Spare = 1 => Spare' = 1
      BY <1>9 DEF Spare
    <2> QED
      BY <1>2, <1>3, <1>6, <1>7, <1>8, <1>9, <2>1 DEF Bounded
  <1>10. CASE Waiting' # Waiting \/ Creators' # Creators
    <2>1. Cardinality(Waiting') + Cardinality(Creators') < Cardinality(Waiting) + Cardinality(Creators)
      BY <1>3, <1>4, <1>5, <1>10
    <2> QED
      BY <1>2, <1>3, <1>6, <1>7, <1>8, <2>1 DEF Bounded
  <1> QED
    BY <1>9, <1>10

\* A request that goes on creating was creating before, and is still to choose or to
\* close its order if it was.
Steers(a, r) ==
    a \in Procs /\ Creates(r) =>
        /\ Creating(a)
        /\ a \in Choosers /\ Waiting' = Waiting /\ Waiting # {} => r.at = "read" \/ r.order \in Waiting

\* Going on keeps the count.
LEMMA OnwardBounded ==
    ASSUME TypeOK, Bounded, NEW a \in Actors, NEW r, Onward(a, r), Frame, Rewrites(a),
           blind' = blind, Steers(a, r)
    PROVE  Bounded'
  <1>0. pc' = [pc EXCEPT ![a] = r] /\ pc \in [Actors -> PcRecords] /\ Procs \subseteq Actors
    BY DEF TypeOK, ActorsOK, Onward, Go, Actors
  <1>1. pc'[a] = r /\ \A b \in Actors : b # a => pc'[b] = pc[b]
    BY <1>0
  <1>2. Waiting' \subseteq Waiting
    BY DEF Rewrites, Frame, Waiting, Pending
  <1>3. a \in Creators' <=> a \in Procs /\ Creates(r)
    BY <1>1 DEF Creators, Creating, Creates, CreateGoals
  <1>4. \A b \in Actors : b # a => (b \in Creators' <=> b \in Creators)
    BY <1>1 DEF Creators, Creating
  <1>5. Creators' \subseteq Creators
    BY <1>0, <1>3, <1>4 DEF Steers, Creators
  <1>6. ASSUME Waiting # {}, Waiting' = Waiting, Creators' = Creators, Choosers # {} PROVE Choosers' # {}
    <2>1. PICK b \in Choosers : TRUE
      BY <1>6
    <2>2. b \in Creators /\ b \in Actors
      BY <1>0, <2>1 DEF Choosers, Creators
    <2>3. CASE b # a
      BY <1>1, <1>6, <2>1, <2>2, <2>3 DEF Choosers, At
    <2>4. CASE b = a
      <3>1. Creates(r) /\ a \in Procs
        BY <1>3, <1>6, <2>2, <2>4
      <3> QED
        BY <1>1, <1>6, <2>1, <2>2, <2>4, <3>1 DEF Choosers, At, Steers
    <2> QED
      BY <2>3, <2>4
  <1> QED
    BY <1>2, <1>5, <1>6, Shrinks

\* Nobody loses what was paid in a step that writes no status.
LEMMA KeptUnwritten == UNCHANGED status => Kept
  BY DEF Kept, Paid

\* A request goes on and no status is written.
LEMMA Going ==
    ASSUME Inv, NEW a \in Actors, NEW r, Onward(a, r), Frame, UNCHANGED status,
           blind' = blind, Steers(a, r)
    PROVE  Inv' /\ Kept
  <1>1. TypeOK /\ Safe /\ Bounded /\ Rewrites(a)
    BY Unwritten DEF Inv
  <1>2. TypeOK'
    BY <1>1, OnwardTypes
  <1>3. Safe'
    BY <1>1, OnwardSafe
  <1>4. Bounded'
    BY <1>1, OnwardBounded
  <1> QED
    BY <1>2, <1>3, <1>4, KeptUnwritten DEF Inv

\* No request moves: time passes, the user pays or a sweep begins.
LEMMA Aside ==
    ASSUME Inv, TypeOK', UNCHANGED <<status, session, pc, blind, crossed>>, lapsed \subseteq lapsed',
           \A o \in Orders : provider'[o] = "settlement" => provider[o] = "settlement" \/ o \in session
    PROVE  Inv' /\ Kept
  <1>0. TypeOK /\ Safe /\ Bounded /\ Rows' = Rows /\ Rows \subseteq Orders
    BY DEF Inv, Rows
  <1>1. Blank' /\ Clean' /\ Steered' /\ Numbered' /\ OpeningOnce'
    BY <1>0 DEF Safe, Blank, Clean, Steered, Numbered, OpeningOnce, Opening
  <1>2. WritesAlone' /\ RefusesUnpaid' /\ ReadBefore'
    BY <1>0 DEF Safe, WritesAlone, Writers, RefusesUnpaid, ReadBefore, At
  <1>3. OpeningUnpaid'
    <2> SUFFICES ASSUME NEW b \in Actors, Opening(b)'
                 PROVE  /\ pc'[b].order \notin session' /\ ~IsSettled(status'[pc'[b].order])
                        /\ provider'[pc'[b].order] # "settlement"
                        /\ \A c \in Actors : pc'[c].order = pc'[b].order => pc'[c].answer # "settlement"
      BY DEF OpeningUnpaid, Unpaid
    <2>1. Opening(b) /\ pc[b].order \in Orders /\ Unpaid(pc[b].order)
      BY <1>0 DEF Opening, Safe, OpeningUnpaid, TypeOK, ActorsOK
    <2> QED
      BY <2>1 DEF Unpaid
  <1>4. Bounded'
    <2>1. Waiting' \subseteq Waiting /\ Creators' = Creators
      BY DEF Waiting, Pending, Creators, Creating
    <2>2. Waiting' = Waiting => Choosers' = Choosers
      BY <2>1 DEF Choosers, At
    <2> QED
      BY <1>0, <2>1, <2>2, Shrinks
  <1> QED
    BY <1>1, <1>2, <1>3, <1>4, KeptUnwritten DEF Inv, Safe
-----------------------------------------------------------------------------
(* The requests.                                                             *)

\* What is known of any state the invariant holds in.
LEMMA Known0 ==
    ASSUME Inv
    PROVE  /\ TypeOK /\ Safe /\ Bounded
           /\ pc \in [Actors -> PcRecords] /\ Procs \subseteq Actors /\ Cron \in Actors
           /\ \A a \in Actors : pc[a] \in PcRecords
           /\ \A a \in Actors : pc[a].at \in BlankSteps \/ pc[a].order \in Rows
           /\ Rows \subseteq Orders /\ session \subseteq Rows /\ lapsed \subseteq Rows
           /\ status \in [Orders -> OrderStatuses \cup {Absent}]
           /\ provider \in [Orders -> ProviderStates]
           /\ NoOrder \notin Orders
           /\ events \in 0..MaxEvents /\ blind \in 0..events /\ crossed \subseteq Rows
  BY DEF Inv, TypeOK, OrdersOK, ActorsOK, HistoryOK, Actors, BlankSteps, Rows, Orders, NoOrder

\* Nothing but the request itself and the counters moves.
LEMMA Framed ==
    ASSUME Inv, UNCHANGED <<session, time, provider, sweep>>, events' \in 0..MaxEvents,
           blind' \in 0..events'
    PROVE  Frame
  BY DEF Inv, TypeOK, OrdersOK, Frame, time

\* A request that will create an order begins.
LEMMA Sending ==
    ASSUME Inv, NEW p \in Procs, NEW x \in PcRecords, SendCreate(p, x),
           x.at \in {"read", "create"}, x.order = NoOrder, x.answer = "none",
           x.goal \in CreateGoals, x.at = "create" => Waiting = {}
    PROVE  Inv' /\ Kept
  <1>0. /\ TypeOK /\ Safe /\ Bounded /\ Procs \subseteq Actors
        /\ events \in 0..MaxEvents /\ blind \in 0..events /\ pc \in [Actors -> PcRecords]
    BY Known0
  <1>1. At(p, "idle") /\ Go(p, x) /\ UNCHANGED <<rows, time, provider, sweep, crossed>>
    BY DEF SendCreate, Send
  <1>2. events' \in 0..MaxEvents /\ blind' \in 0..events' /\ events' = events + 1
    BY <1>0, CheckoutAssumption DEF SendCreate, Send
  <1>3. Onward(p, x) /\ Frame /\ Rewrites(p)
    <2>1. Frame
      BY <1>1, <1>2, Framed DEF rows
    <2>2. Rewrites(p)
      BY <1>0, <1>1, Unwritten DEF rows
    <2>3. Onward(p, x)
      BY <1>1 DEF Onward, BlankSteps, Words, CreateSteps, CancelSteps, TxSteps
    <2> QED
      BY <2>1, <2>2, <2>3
  <1>4. TypeOK' /\ Safe'
    BY <1>0, <1>3, OnwardTypes, OnwardSafe
  <1>5. pc'[p] = x /\ \A b \in Actors : b # p => pc'[b] = pc[b]
    BY <1>0, <1>1 DEF Go
  <1>6. p \notin Creators /\ Creators' = Creators \cup {p}
    BY <1>0, <1>1, <1>5 DEF Creators, Creating, At, CreateGoals
  <1>7. Waiting' = Waiting /\ Choosers \subseteq Choosers'
    <2>1. Waiting' = Waiting
      BY <1>1 DEF Waiting, Pending, rows, time
    <2> QED
      BY <1>0, <1>5, <1>6, <2>1 DEF Choosers, Creators, At
  <1>8. /\ IsFiniteSet(Creators') /\ Cardinality(Creators') = Cardinality(Creators) + 1
        /\ Cardinality(Creators) \in Nat /\ Cardinality(Waiting) \in Nat
    BY <1>0, <1>6, FS_AddElement, FS_CardinalityType, WaitingFinite DEF Bounded
  <1>9. Cardinality(Waiting) + Cardinality(Creators) <= 1 + blind + Spare
    BY <1>0 DEF Bounded
  <1>10. Spare \in {0, 1} /\ Spare' \in {0, 1} /\ Spare <= Spare'
    BY <1>7 DEF Spare
  <1>14. blind \in Nat
    BY <1>0, CheckoutAssumption
  <1>15. Spare' \in Nat
    BY DEF Spare
  <1>11. Cardinality(Waiting) + Cardinality(Creators) + 1 <= 1 + blind' + Spare'
    <2>1. CASE Creators # {}
      <3>1. blind' = blind + 1
        BY <1>6, <2>1 DEF SendCreate, Creators
      <3> QED
        BY <1>14, <1>8, <1>9, <1>10, <3>1
    <2>2. CASE Creators = {}
      <3>1. blind' = blind
        BY <1>0, <2>2 DEF SendCreate, Creators
      <3>2. Cardinality(Creators) = 0 /\ Spare = 0
        BY <2>2, FS_EmptySet DEF Spare, Choosers
      <3>3. CASE Waiting = {}
        <4>1. Cardinality(Waiting) = 0
          BY <3>3, FS_EmptySet
        <4>2. blind' \in Nat /\ Spare' \in Nat
          BY <1>14, <1>15, <3>1
        <4>3. \A m, n \in Nat : 1 <= 1 + m + n
          OBVIOUS
        <4>4. 1 <= 1 + blind' + Spare'
          BY <4>2, <4>3
        <4>5. Cardinality(Waiting) + Cardinality(Creators) + 1 = 1
          BY <3>2, <4>1
        <4> QED
          BY <4>4, <4>5
      <3>4. CASE Waiting # {}
        <4>1. p \in Choosers'
          BY <1>5, <1>6, <3>4 DEF Choosers, At
        <4>2. Spare' = 1
          BY <1>7, <3>4, <4>1 DEF Spare
        <4> QED
          BY <1>14, <1>8, <1>9, <3>1, <3>2, <4>2
      <3> QED
        BY <3>3, <3>4
    <2> QED
      BY <2>1, <2>2
  <1>12. Bounded'
    BY <1>7, <1>8, <1>11 DEF Bounded
  <1>13. UNCHANGED status
    BY <1>1 DEF rows
  <1> QED
    BY <1>4, <1>12, <1>13, KeptUnwritten DEF Inv

\* An order is read inside a transaction.
LEMMA Transacting ==
    ASSUME Inv, NEW a \in Actors, NEW step \in TxSteps, NEW o \in Rows, NEW answer \in Answers,
           Transact(a, step, o, answer), UNCHANGED <<rows, time, provider, sweep, blind>>,
           events' \in 0..MaxEvents, events <= events',
           answer = "settlement" => \/ provider[o] = "settlement"
                                    \/ pc[a].answer = "settlement" /\ pc[a].order = o,
           step = "dropped" => answer = "none",
           step \in {"lapsed", "dropped"} => pc[a].goal \in CreateGoals,
           step = "cancelled" => pc[a].goal \notin {"check", "sweep"},
           pc[a].goal \in CreateGoals => Creating(a) /\ ~At(a, "read") /\ pc[a].order = o
    PROVE  Inv' /\ Kept
  <1> DEFINE s == status[o]
             x == [pc[a] EXCEPT !.at = step, !.first = TRUE, !.order = o, !.saw = s,
                                !.answer = answer]
  <1>0. /\ pc[a] \in PcRecords /\ o \in Orders /\ s \in OrderStatuses \cup {Absent}
        /\ events \in 0..MaxEvents /\ blind \in 0..events
    BY Known0
  <1>1. Go(a, x) /\ Cross(a, o) /\ UNCHANGED status
    BY DEF Transact, rows
  <1> HIDE DEF s
  <1>2. /\ x \in PcRecords /\ x.at = step /\ x.order = o /\ x.answer = answer /\ x.saw = s
        /\ x.goal = pc[a].goal
    BY <1>0 DEF PcRecords, Steps
  <1> HIDE DEF x
  <1>3. Onward(a, x)
    BY <1>0, <1>1, <1>2 DEF Onward, BlankSteps, Words, CreateSteps, CancelSteps, TxSteps, s
  <1>4. Frame
    BY <1>0, Framed DEF rows
  <1>5. Steers(a, x)
    BY <1>1, <1>2 DEF Steers, Creates, Choosers, At, Creating, rows
  <1> QED
    BY <1>1, <1>3, <1>4, <1>5, Going

\* A record to go on with that is about no order, or still about the same one, and
\* expects no answer.
Resting(a, r) ==
    /\ r \in PcRecords /\ r.at \in BlankSteps \cup {"provider", "local"}
    /\ r.answer \notin Words
    /\ r.order = IF r.at \in BlankSteps THEN NoOrder ELSE pc[a].order
    /\ r.at = "idle" => r.goal \notin CreateGoals
    /\ r.at \in CreateSteps => r.goal \in CreateGoals
    /\ r.at \in CancelSteps => r.goal \notin {"check", "sweep"}
    /\ Creates(r) => pc[a].goal \in CreateGoals
    /\ r.at = "create" => At(a, "dropped")

\* The records of a request that has read its order again.
LEMMA IdleRests == ASSUME NEW a PROVE Resting(a, Idle)
  BY DEF Resting, Idle, PcRecords, Steps, TxSteps, Goals, Answers, Words, BlankSteps, CreateSteps,
         CancelSteps, Creates, CreateGoals

\* A create request starts over or ends.
LEMMA ResumeRests ==
    ASSUME NEW a, pc[a].goal \in Goals \ {"check", "sweep"}, NEW found
    PROVE  Resting(a, Resume(a, found))
  <1> DEFINE x == [Idle EXCEPT !.at = "read", !.goal = "snap", !.first = FALSE]
  <1>1. ASSUME pc[a].goal # "cancel" PROVE Resting(a, x)
    BY <1>1 DEF Resting, Idle, PcRecords, Steps, TxSteps, Goals, Answers, Words, BlankSteps,
                CreateSteps, CancelSteps, Creates, CreateGoals
  <1> QED
    BY <1>1, IdleRests DEF Resume

\* A request goes on with the order it is at.
LEMMA StayRests ==
    ASSUME Inv, NEW a \in Actors, pc[a].order \in Rows, pc[a].goal \notin {"check", "sweep"},
           NEW step \in {"provider", "local"}, NEW answer \in {"none", "nothing"}
    PROVE  Resting(a, Stay(a, step, answer))
  <1> DEFINE o == pc[a].order
             g == pc[a].goal
             x == [Idle EXCEPT !.at = step, !.goal = g, !.order = o, !.answer = answer]
  <1>1. o \in Orders /\ g \in Goals /\ Stay(a, step, answer) = x
    BY Known0 DEF PcRecords, Stay
  <1> HIDE DEF o, g
  <1>2. /\ x \in PcRecords /\ x.at = step /\ x.goal = g /\ x.order = o /\ x.answer = answer
    BY <1>1 DEF Idle, PcRecords, Steps, TxSteps, Goals, Answers
  <1> HIDE DEF x
  <1>3. Resting(a, x)
    BY <1>2 DEF Resting, Words, BlankSteps, CreateSteps, CancelSteps, Creates, o, g
  <1> QED
    BY <1>1, <1>3

\* The caller of syncOrderStatusFromMidtrans goes on with the row it gets.
LEMMA SyncedRests ==
    ASSUME Inv, NEW a \in Actors, pc[a].order \in Rows, NEW found
    PROVE  Resting(a, Synced(a, found))
  <1>1. pc[a].goal \in Goals
    BY Known0 DEF PcRecords
  <1> QED
    BY <1>1, IdleRests, ResumeRests, StayRests DEF Synced

\* So does every caller of a transition.
LEMMA AfterRests ==
    ASSUME Inv, NEW a \in Actors, pc[a].at \in TxSteps, pc[a].order \in Rows, NEW found
    PROVE  Resting(a, After(a, found))
  <1>0. pc[a] \in PcRecords /\ Steered
    BY Known0 DEF Safe
  <1>1. CASE At(a, "lapsed")
    <2>1. pc[a].goal \in CreateGoals
      BY <1>0, <1>1 DEF Steered, CreateSteps, At
    <2>2. After(a, found) = [Idle EXCEPT !.at = "read", !.goal = pc[a].goal, !.first = FALSE]
      BY <1>1 DEF After, At
    <2> QED
      BY <2>1, <2>2 DEF Resting, Idle, PcRecords, Steps, TxSteps, Goals, Answers, Words,
                        BlankSteps, CreateSteps, CancelSteps, Creates, CreateGoals
  <1>2. CASE At(a, "dropped")
    <2>1. pc[a].goal \in CreateGoals
      BY <1>0, <1>2 DEF Steered, CreateSteps, At
    <2>2. After(a, found) = [Idle EXCEPT !.at = "create", !.goal = "snap"]
      BY <1>2 DEF After, At
    <2> QED
      BY <1>2, <2>1, <2>2 DEF Resting, Idle, PcRecords, Steps, TxSteps, Goals, Answers, Words,
                              BlankSteps, CreateSteps, CancelSteps, Creates, CreateGoals
  <1>3. CASE At(a, "synced")
    <2>1. After(a, found) = Synced(a, found)
      BY <1>3 DEF After, At
    <2> QED
      BY <2>1, SyncedRests
  <1>4. CASE At(a, "cancelled")
    <2>1. After(a, found) = Resume(a, found)
      BY <1>4 DEF After, At
    <2>2. pc[a].goal \in Goals \ {"check", "sweep"}
      BY <1>0, <1>4 DEF Steered, CancelSteps, At, PcRecords
    <2> QED
      BY <2>1, <2>2, ResumeRests
  <1> QED
    BY <1>1, <1>2, <1>3, <1>4 DEF TxSteps, At

\* An actor goes on with such a record, outside a transaction or at its end.
LEMMA Rests ==
    ASSUME Inv, NEW a \in Actors, NEW r, Resting(a, r), Go(a, r), pc[a].order \in Rows,
           pc[a].at \notin {"idle", "read", "session", "save", "refuse"},
           UNCHANGED <<session, time, provider, sweep, history>>, Rewrites(a),
           r.at = "create" /\ a \in Choosers => Waiting' # Waiting
    PROVE  Inv'
  <1>0. TypeOK /\ Safe /\ Bounded /\ events \in 0..MaxEvents /\ blind \in 0..events
    BY Known0
  <1>1. Onward(a, r)
    BY DEF Onward, Resting, BlankSteps, Words, TxSteps, history
  <1>2. Frame
    BY <1>0, Framed DEF history
  <1>3. Steers(a, r)
    BY DEF Steers, Resting, Creates, Creating, Choosers, At, BlankSteps, CreateGoals
  <1>4. TypeOK' /\ Safe'
    BY <1>0, <1>1, <1>2, OnwardTypes, OnwardSafe
  <1>5. Bounded'
    BY <1>0, <1>1, <1>2, <1>3, OnwardBounded DEF history
  <1> QED
    BY <1>4, <1>5 DEF Inv
-----------------------------------------------------------------------------
(* The transition of an order.                                               *)

\* The status asked for is that of a settlement, of a pending transaction, or Closed.
LEMMA WantedStatus ==
    ASSUME NEW a
    PROVE  /\ Wanted(a) \in OrderStatuses
           /\ IsSettled(Wanted(a)) => pc[a].answer = "settlement"
           /\ pc[a].answer \notin Words => Wanted(a) = Closed
  BY DEF Wanted, Words, MapMidtransStatus, OrderStatuses, Closed, IsSettled, SettledStatuses

\* What the verdict lets pass: no way back to PENDING, and none from paid to unpaid; a
\* pending order is always closed.
LEMMA VerdictPasses ==
    ASSUME NEW s \in OrderStatuses, NEW next \in OrderStatuses
    PROVE  LET v == Verdict(s, next, FALSE)
           IN  /\ v = "applied" /\ IsSettled(s) => IsSettled(next)
               /\ v = "applied" => next # "PENDING"
               /\ s = "PENDING" /\ next = Closed => v = "applied"
  BY DEF Verdict, OrderStatuses, Closed, IsSettled, SettledStatuses, StatusRank, Statuses

\* The order as a transaction leaves it.
LEMMA Committing ==
    ASSUME Inv, NEW a \in Actors, Commit(a)
    PROVE  /\ Rewrites(a) /\ Kept /\ pc[a].order \in Rows
           /\ At(a, "dropped") /\ status[pc[a].order] = "PENDING" => status'[pc[a].order] # "PENDING"
  <1> DEFINE o == pc[a].order
             s == pc[a].saw
             v == Verdict(s, Wanted(a), FALSE)
  <1>0. /\ TypeOK /\ Safe
        /\ status \in [Orders -> OrderStatuses \cup {Absent}]
        /\ pc[a] \in PcRecords /\ pc[a].at \in TxSteps
        /\ o \in Rows /\ o \in Orders
    <2>1. pc[a].at \in TxSteps
      BY DEF Commit
    <2> QED
      BY <2>1, Known0 DEF TxSteps, BlankSteps
  <1>1. /\ s \in OrderStatuses
        /\ status[o] = "PENDING" => s = "PENDING"
        /\ IsSettled(status[o]) /\ o \notin crossed => IsSettled(s)
    BY <1>0 DEF Safe, ReadBefore, PcRecords
  <1>2. /\ Wanted(a) \in OrderStatuses
        /\ IsSettled(Wanted(a)) => pc[a].answer = "settlement"
        /\ pc[a].answer \notin Words => Wanted(a) = Closed
    BY WantedStatus
  <1>3. /\ v = "applied" /\ IsSettled(s) => IsSettled(Wanted(a))
        /\ v = "applied" => Wanted(a) # "PENDING"
        /\ s = "PENDING" /\ Wanted(a) = Closed => v = "applied"
    BY <1>1, <1>2, VerdictPasses
  <1>4. status' = IF v = "applied" THEN [status EXCEPT ![o] = Wanted(a)] ELSE status
    BY DEF Commit
  <1>5. At(a, "dropped") => Wanted(a) = Closed
    BY <1>0, <1>2 DEF Safe, Clean, At
  <1> HIDE DEF v, s
  <1>6. Absent \notin OrderStatuses
    BY DEF Absent, OrderStatuses, Closed
  <1>7. CASE v # "applied"
    <2>1. UNCHANGED status
      BY <1>4, <1>7
    <2>2. ~ (At(a, "dropped") /\ status[o] = "PENDING")
      BY <1>1, <1>3, <1>5, <1>7
    <2> QED
      BY <1>0, <2>1, <2>2, Unwritten, KeptUnwritten
  <1>8. CASE v = "applied"
    <2>1. status' = [status EXCEPT ![o] = Wanted(a)]
      BY <1>4, <1>8
    <2>2. status'[o] = Wanted(a) /\ \A q \in Orders : q # o => status'[q] = status[q]
      BY <1>0, <2>1
    <2>3. status' \in [Orders -> OrderStatuses \cup {Absent}]
      BY <1>0, <1>2, <2>1
    <2>4. Rows' = Rows
      BY <1>0, <1>2, <1>6, <2>2 DEF Rows
    <2>5. \A q \in Orders : status'[q] = "PENDING" => status[q] = "PENDING"
      BY <1>3, <1>8, <2>2
    <2>6. ASSUME NEW q \in Orders, IsSettled(status'[q])
          PROVE  \/ IsSettled(status[q])
                 \/ q = o /\ pc[a].at \in TxSteps /\ pc[a].answer = "settlement"
      BY <1>0, <1>2, <2>2, <2>6
    <2>7. Rewrites(a)
      BY <2>3, <2>4, <2>5, <2>6 DEF Rewrites
    <2>8. Kept
      BY <1>1, <1>3, <1>8, <2>2 DEF Kept, Paid
    <2>9. status'[o] # "PENDING"
      BY <1>3, <1>8, <2>2
    <2> QED
      BY <1>0, <2>7, <2>8, <2>9
  <1> QED
    BY <1>7, <1>8

\* The end of a transaction.
LEMMA CommitKeeps ==
    ASSUME Inv, NEW a \in Actors, Commit(a)
    PROVE  Inv' /\ Kept
  <1> DEFINE o == pc[a].order
             r == After(a, status'[o])
  <1>1. /\ Rewrites(a) /\ Kept /\ o \in Rows
        /\ At(a, "dropped") /\ status[o] = "PENDING" => status'[o] # "PENDING"
    BY Committing
  <1>2. pc[a].at \in TxSteps /\ Go(a, r) /\ UNCHANGED <<session, time, provider, sweep, history>>
    BY DEF Commit
  <1>3. Resting(a, r)
    BY <1>1, <1>2, AfterRests
  <1> HIDE DEF r
  <1>4. ASSUME r.at = "create", a \in Choosers PROVE Waiting' # Waiting
    <2>1. At(a, "dropped") /\ o \in Waiting
      BY <1>3, <1>4 DEF Resting, Choosers, At
    <2>2. o \notin Waiting'
      BY <1>1, <2>1 DEF Waiting, Pending
    <2> QED
      BY <2>1, <2>2
  <1> QED
    BY <1>1, <1>2, <1>3, <1>4, Rests DEF TxSteps
-----------------------------------------------------------------------------
(* A new order.                                                              *)

\* The new order is in nobody's hands.
LEMMA NewRow ==
    ASSUME Inv, NEW o \in Orders, NewOrder(o)
    PROVE  /\ o \notin Rows /\ Rows' = Rows \cup {o} /\ Numbered'
           /\ status'[o] = "PENDING" /\ \A q \in Orders : q # o => status'[q] = status[q]
           /\ status' \in [Orders -> OrderStatuses \cup {Absent}]
           /\ \A a \in Actors : pc[a].order # o
  <1>0. /\ TypeOK /\ Safe /\ status \in [Orders -> OrderStatuses \cup {Absent}]
        /\ \A a \in Actors : pc[a].at \in BlankSteps \/ pc[a].order \in Rows
        /\ NoOrder \notin Orders
    BY Known0
  <1>1. PICK n \in 0..MaxOrders : Rows = 1..n
    BY <1>0 DEF Safe, Numbered
  <1>2. n \in Nat /\ MaxOrders \in Nat
    BY <1>1, CheckoutAssumption
  <1>3. Cardinality(Rows) = n
    BY <1>1, <1>2, FS_Interval
  <1>4. o = n + 1 /\ n < MaxOrders
    BY <1>3 DEF NewOrder
  <1>5. o \notin Rows
    BY <1>1, <1>2, <1>4
  <1>6. /\ status'[o] = "PENDING" /\ \A q \in Orders : q # o => status'[q] = status[q]
        /\ status' \in [Orders -> OrderStatuses \cup {Absent}]
    BY <1>0 DEF NewOrder, OrderStatuses
  <1>7. Rows' = Rows \cup {o}
    BY <1>6 DEF Rows, Absent
  <1>8. Numbered'
    <2>1. n + 1 \in 0..MaxOrders /\ 1..(n + 1) = 1..n \cup {n + 1}
      BY <1>2, <1>4
    <2>2. Rows' = 1..(n + 1)
      BY <1>1, <1>4, <1>7, <2>1
    <2> QED
      BY <2>1, <2>2 DEF Numbered
  <1>9. \A a \in Actors : pc[a].order # o
    BY <1>0, <1>5 DEF Safe, Blank
  <1> QED
    BY <1>5, <1>6, <1>7, <1>8, <1>9

\* Whoever created it either goes idle or goes on to open its session.
Begins(r, o) ==
    /\ r \in PcRecords /\ r.answer = "none"
    /\ \/ r.at = "idle" /\ r.order = NoOrder /\ r.goal \notin CreateGoals
       \/ r.at = "session" /\ r.order = o

\* The request that creates an order keeps what is known of the orders before it.
LEMMA NewSafe ==
    ASSUME Inv, NEW o \in Orders, NewOrder(o), UNCHANGED <<session, time, provider, sweep, crossed>>,
           NEW p \in Actors, NEW r, pc' = [pc EXCEPT ![p] = r], r = pc[p] \/ Begins(r, o),
           events' \in 0..MaxEvents, blind' \in 0..events'
    PROVE  TypeOK' /\ Safe' /\ Kept
  <1>0. /\ TypeOK /\ Safe /\ pc \in [Actors -> PcRecords]
        /\ \A a \in Actors : pc[a] \in PcRecords
        /\ \A a \in Actors : pc[a].at \in BlankSteps \/ pc[a].order \in Rows
    BY Known0
  <1>1. /\ o \notin Rows /\ Rows' = Rows \cup {o} /\ Numbered'
        /\ status'[o] = "PENDING" /\ \A q \in Orders : q # o => status'[q] = status[q]
        /\ status' \in [Orders -> OrderStatuses \cup {Absent}]
        /\ \A a \in Actors : pc[a].order # o
    BY NewRow
  <1>2. pc'[p] = r /\ \A b \in Actors : b # p => pc'[b] = pc[b]
    BY <1>0
  <1>3. r = pc[p] => pc' = pc
    BY <1>0
  <1>4. TypeOK'
    <2>1. OrdersOK'
      BY <1>0, <1>1 DEF TypeOK, OrdersOK, time
    <2>2. ActorsOK'
      <3>1. pc' \in [Actors -> PcRecords]
        BY <1>0, <1>2 DEF Begins
      <3>2. ASSUME NEW b \in Actors
            PROVE  pc'[b].at \in {"idle", "read", "create"} \/ pc'[b].order \in Rows'
        BY <1>0, <1>1, <1>2 DEF Begins, BlankSteps
      <3> QED
        BY <3>1, <3>2 DEF ActorsOK
    <2>3. HistoryOK'
      BY <1>0, <1>1 DEF TypeOK, HistoryOK
    <2> QED
      BY <2>1, <2>2, <2>3 DEF TypeOK
  <1>5. Blank' /\ Clean' /\ Steered'
    BY <1>0, <1>2 DEF Safe, Blank, Clean, Steered, Begins, BlankSteps, CreateSteps, CancelSteps
  <1>6. ~IsSettled("PENDING")
    BY DEF IsSettled, SettledStatuses
  <1>7. OpeningOnce'
    BY <1>0, <1>1, <1>2 DEF Safe, OpeningOnce, Opening, Begins
  <1>8. OpeningUnpaid'
    <2> SUFFICES ASSUME NEW b \in Actors, Opening(b)'
                 PROVE  /\ pc'[b].order \notin session' /\ ~IsSettled(status'[pc'[b].order])
                        /\ provider'[pc'[b].order] # "settlement"
                        /\ \A c \in Actors : pc'[c].order = pc'[b].order => pc'[c].answer # "settlement"
      BY DEF OpeningUnpaid, Unpaid
    <2>1. CASE pc'[b] = pc[b]
      <3>1. Opening(b) /\ pc[b].order \in Rows /\ pc[b].order # o /\ Unpaid(pc[b].order)
        BY <1>0, <1>1, <2>1 DEF Opening, Safe, OpeningUnpaid, BlankSteps
      <3>2. \A c \in Actors : pc'[c].order = pc[b].order => pc'[c].answer # "settlement"
        BY <1>2, <3>1 DEF Unpaid, Begins
      <3> QED
        BY <1>1, <2>1, <3>1, <3>2 DEF Unpaid, Rows
    <2>2. CASE pc'[b] # pc[b]
      <3>1. b = p /\ Begins(r, o) /\ r.order = o
        BY <1>2, <2>2 DEF Opening, Begins
      <3>2. o \notin session /\ provider[o] # "settlement"
        BY <1>0, <1>1 DEF TypeOK, OrdersOK
      <3>3. \A c \in Actors : pc'[c].order = o => pc'[c].answer # "settlement"
        BY <1>1, <1>2, <3>1 DEF Begins
      <3> QED
        BY <1>1, <1>2, <1>6, <3>1, <3>2, <3>3
    <2> QED
      BY <2>1, <2>2
  <1>9. WritesAlone'
    <2>1. \A q \in Orders : Writers(q)' \subseteq Writers(q)
      BY <1>0, <1>2 DEF Writers, Begins, TxSteps
    <2> QED
      BY <1>0, <2>1 DEF Safe, WritesAlone, Writers
  <1>10. RefusesUnpaid' /\ ReadBefore'
    <2>1. ASSUME NEW b \in Actors, pc'[b].at \in TxSteps \cup {"refuse"}
          PROVE  pc'[b] = pc[b] /\ pc[b].order \in Orders /\ pc[b].order # o
      BY <1>0, <1>1, <1>2, <2>1 DEF Begins, TxSteps, BlankSteps, Rows
    <2> QED
      BY <1>0, <1>1, <2>1 DEF Safe, RefusesUnpaid, ReadBefore, At
  <1>11. Kept
    BY <1>1 DEF Kept, Paid, Rows, Absent, IsSettled, SettledStatuses
  <1> QED
    BY <1>1, <1>4, <1>5, <1>7, <1>8, <1>9, <1>10, <1>11 DEF Safe

\* One more order can be offered.
LEMMA NewWaiting ==
    ASSUME Inv, NEW o \in Orders, NewOrder(o), lapsed' = lapsed
    PROVE  /\ Waiting' = Waiting \cup {o} /\ o \notin Waiting
           /\ IsFiniteSet(Waiting') /\ Cardinality(Waiting') = Cardinality(Waiting) + 1
  <1>1. o \notin lapsed /\ o \notin Waiting
    BY NewRow, Known0 DEF Waiting, Pending, Rows, Absent
  <1>2. Waiting' = Waiting \cup {o}
    BY <1>1, NewRow DEF Waiting, Pending
  <1> QED
    BY <1>1, <1>2, WaitingFinite, FS_AddElement

\* createOrder by a request that was to create one.
LEMMA CreateOrderKeeps ==
    ASSUME Inv, NEW p \in Procs, NEW o \in Orders, CreateOrder(p, o)
    PROVE  Inv' /\ Kept
  <1> DEFINE r == IF pc[p].goal = "qris" THEN Idle
                  ELSE [Idle EXCEPT !.at = "session", !.goal = "snap", !.order = o]
  <1>0. /\ TypeOK /\ Safe /\ Bounded /\ p \in Actors /\ pc \in [Actors -> PcRecords]
        /\ Procs \subseteq Actors /\ events \in 0..MaxEvents /\ blind \in 0..events
        /\ \A a \in Actors : pc[a].at \in BlankSteps \/ pc[a].order \in Rows
        /\ NoOrder \notin Orders
    BY Known0
  <1>1. /\ At(p, "create") /\ NewOrder(o) /\ pc' = [pc EXCEPT ![p] = r]
        /\ UNCHANGED <<session, time, provider, sweep, history>>
    BY DEF CreateOrder, Go
  <1>2. Begins(r, o)
    BY DEF Begins, Idle, PcRecords, Steps, TxSteps, Goals, Answers, Words, CreateGoals
  <1> HIDE DEF r
  <1>3. TypeOK' /\ Safe' /\ Kept
    BY <1>0, <1>1, <1>2, NewSafe DEF history
  <1>4. /\ Waiting' = Waiting \cup {o} /\ o \notin Waiting
        /\ IsFiniteSet(Waiting') /\ Cardinality(Waiting') = Cardinality(Waiting) + 1
    BY <1>1, NewWaiting DEF time
  <1>5. pc'[p] = r /\ \A b \in Actors : b # p => pc'[b] = pc[b]
    BY <1>0, <1>1
  <1>6. p \in Creators /\ Creators' = Creators \ {p}
    <2>1. p \in Creators
      BY <1>0, <1>1 DEF Creators, Creating, At, Safe, Steered, CreateSteps, CreateGoals
    <2> QED
      BY <1>0, <1>2, <1>5, <2>1 DEF Creators, Creating, Begins
  <1>7. /\ IsFiniteSet(Creators') /\ Cardinality(Creators') = Cardinality(Creators) - 1
        /\ Cardinality(Creators) \in Nat /\ Cardinality(Waiting) \in Nat
    BY <1>0, <1>6, FS_RemoveElement, FS_CardinalityType, WaitingFinite DEF Bounded
  <1>8. p \notin Choosers
    BY <1>0, <1>1 DEF Choosers, At, Safe, Blank, BlankSteps, Waiting, Pending
  <1>9. Choosers \subseteq Choosers'
    BY <1>0, <1>4, <1>5, <1>6, <1>8 DEF Choosers, Creators, At
  <1>10. Spare \in {0, 1} /\ Spare' \in {0, 1} /\ Spare <= Spare'
    BY <1>4, <1>9 DEF Spare
  <1>11. blind' = blind /\ blind \in Nat
    BY <1>0, <1>1, CheckoutAssumption DEF history
  <1>12. Cardinality(Waiting) + Cardinality(Creators) <= 1 + blind + Spare
    BY <1>0 DEF Bounded
  <1>13. Bounded'
    BY <1>4, <1>7, <1>10, <1>11, <1>12 DEF Bounded
  <1> QED
    BY <1>3, <1>13 DEF Inv

\* transactions/create.
LEMMA CreateTransactionKeeps ==
    ASSUME Inv, NEW o \in Orders, CreateTransaction(o)
    PROVE  Inv' /\ Kept
  <1>0. /\ TypeOK /\ Safe /\ Bounded /\ Cron \in Actors /\ pc \in [Actors -> PcRecords]
        /\ Procs \subseteq Actors /\ events \in 0..MaxEvents /\ blind \in 0..events
    BY Known0
  <1>1. /\ NewOrder(o) /\ UNCHANGED <<session, time, provider, pc, sweep, crossed>>
        /\ events' = events + 1 /\ events < MaxEvents /\ blind' = blind + 1
    BY DEF CreateTransaction
  <1>2. events' \in 0..MaxEvents /\ blind' \in 0..events' /\ blind \in Nat
    BY <1>0, <1>1, CheckoutAssumption
  <1>3. TypeOK' /\ Safe' /\ Kept
    <2>1. pc' = [pc EXCEPT ![Cron] = pc[Cron]]
      BY <1>0, <1>1
    <2> QED
      BY <1>0, <1>1, <1>2, <2>1, NewSafe
  <1>4. /\ Waiting' = Waiting \cup {o}
        /\ IsFiniteSet(Waiting') /\ Cardinality(Waiting') = Cardinality(Waiting) + 1
    BY <1>1, NewWaiting DEF time
  <1>5. Creators' = Creators /\ Choosers \subseteq Choosers'
    BY <1>1, <1>4 DEF Creators, Creating, Choosers, At
  <1>6. Cardinality(Creators) \in Nat /\ Cardinality(Waiting) \in Nat
    BY <1>0, FS_CardinalityType, WaitingFinite DEF Bounded
  <1>7. Spare \in {0, 1} /\ Spare' \in {0, 1} /\ Spare <= Spare'
    BY <1>4, <1>5 DEF Spare
  <1>8. Cardinality(Waiting) + Cardinality(Creators) <= 1 + blind + Spare
    BY <1>0 DEF Bounded
  <1>9. Bounded'
    BY <1>0, <1>1, <1>2, <1>4, <1>5, <1>6, <1>7, <1>8 DEF Bounded
  <1> QED
    BY <1>3, <1>9 DEF Inv
-----------------------------------------------------------------------------
(* The session of an order.                                                  *)

\* What is known of the order whose session is opened, stored or refused.
LEMMA AtSession ==
    ASSUME Inv, NEW p \in Procs, pc[p].at \in {"session", "save", "refuse"}
    PROVE  /\ p \in Actors /\ pc[p].order \in Rows /\ pc[p].order \in Orders
           /\ pc[p] \in PcRecords /\ p \notin Creators
           /\ Opening(p) => Unpaid(pc[p].order)
           /\ \A b \in Actors : Opening(p) /\ Opening(b) /\ pc[b].order = pc[p].order => b = p
           /\ pc[p].order \in crossed \/ ~IsSettled(status[pc[p].order])
  <1>0. /\ TypeOK /\ Safe /\ p \in Actors /\ pc[p] \in PcRecords /\ Rows \subseteq Orders
        /\ pc[p].at \in BlankSteps \/ pc[p].order \in Rows
    BY Known0
  <1>1. pc[p].order \in Rows /\ p \notin Creators
    BY <1>0 DEF BlankSteps, Creators, Creating
  <1>2. Opening(p) => Unpaid(pc[p].order)
    BY <1>0 DEF Safe, OpeningUnpaid
  <1>3. pc[p].order \in crossed \/ ~IsSettled(status[pc[p].order])
    BY <1>0, <1>2 DEF Safe, RefusesUnpaid, Opening, Unpaid, At
  <1> QED
    BY <1>0, <1>1, <1>2, <1>3 DEF Safe, OpeningOnce

\* Such a request is not one that has yet to create its order.
LEMMA SessionBounded ==
    ASSUME Inv, NEW p \in Procs, pc[p].at \in {"session", "save", "refuse"}, NEW r \in PcRecords,
           r.at \in {"idle", "save", "refuse"}, pc' = [pc EXCEPT ![p] = r],
           blind' = blind, Waiting' \subseteq Waiting
    PROVE  Bounded'
  <1>0. TypeOK /\ Bounded /\ p \in Actors /\ p \notin Creators /\ Procs \subseteq Actors
    BY AtSession, Known0
  <1>1. pc'[p] = r /\ \A b \in Actors : b # p => pc'[b] = pc[b]
    BY <1>0, Known0
  <1>2. Creators' = Creators
    BY <1>0, <1>1 DEF Creators, Creating
  <1>3. Waiting' = Waiting => Choosers' = Choosers
    BY <1>0, <1>1, <1>2 DEF Choosers, Creators, At
  <1> QED
    BY <1>0, <1>2, <1>3, Shrinks

\* What the step of such a request leaves as it is.
LEMMA SessionAside ==
    ASSUME Inv, NEW p \in Procs, pc[p].at \in {"session", "save", "refuse"}, NEW r \in PcRecords,
           r.at \in {"idle", "save", "refuse"}, pc' = [pc EXCEPT ![p] = r],
           r.at = "idle" => r.order = NoOrder /\ r.goal \notin CreateGoals,
           r.at = "save" => Opening(p) /\ r.order = pc[p].order, Rows' = Rows
    PROVE  Blank' /\ Clean' /\ Steered' /\ Numbered' /\ OpeningOnce'
  <1>0. Safe /\ p \in Actors /\ pc \in [Actors -> PcRecords]
    BY AtSession, Known0
  <1>1. pc'[p] = r /\ \A b \in Actors : b # p => pc'[b] = pc[b]
    BY <1>0
  <1>2. Blank' /\ Clean' /\ Steered' /\ Numbered'
    BY <1>0, <1>1 DEF Safe, Blank, Clean, Steered, Numbered, BlankSteps, CreateSteps, CancelSteps
  <1>3. OpeningOnce'
    BY <1>0, <1>1 DEF Safe, OpeningOnce, Opening
  <1> QED
    BY <1>2, <1>3

\* The provider opens the session.
LEMMA OpenSessionKeeps ==
    ASSUME Inv, NEW p \in Procs, OpenSession(p)
    PROVE  Inv' /\ Kept
  <1> DEFINE o == pc[p].order
             r == [pc[p] EXCEPT !.at = "save"]
  <1>1. /\ pc[p].at = "session" /\ pc' = [pc EXCEPT ![p] = r]
        /\ provider' = [provider EXCEPT ![o] = "open"]
        /\ UNCHANGED <<rows, time, sweep, history>>
    BY DEF OpenSession, At, Go
  <1>2. /\ p \in Actors /\ o \in Rows /\ o \in Orders /\ pc[p] \in PcRecords /\ Unpaid(o)
        /\ \A b \in Actors : Opening(b) /\ pc[b].order = o => b = p
        /\ Opening(p)
    BY <1>1, AtSession DEF Opening
  <1>3. /\ TypeOK /\ Safe /\ pc \in [Actors -> PcRecords] /\ provider \in [Orders -> ProviderStates]
        /\ \A a \in Actors : pc[a].at \in BlankSteps \/ pc[a].order \in Rows
        /\ Rows \subseteq Orders
    BY Known0
  <1>4. r \in PcRecords /\ r.at = "save" /\ r.order = o /\ r.answer = pc[p].answer
    BY <1>2 DEF PcRecords, Steps
  <1> HIDE DEF r
  <1>5. pc'[p] = r /\ \A b \in Actors : b # p => pc'[b] = pc[b]
    BY <1>1, <1>2, <1>3
  <1>6. /\ Rows' = Rows /\ Waiting' = Waiting /\ UNCHANGED <<status, session, crossed, blind, lapsed>>
    BY <1>1 DEF rows, time, history, Rows, Waiting, Pending
  <1>7. TypeOK'
    <2>1. OrdersOK'
      BY <1>1, <1>2, <1>3, <1>6 DEF TypeOK, OrdersOK, ProviderStates, rows, time
    <2>2. ActorsOK'
      BY <1>2, <1>3, <1>4, <1>5, <1>1, <1>6 DEF TypeOK, ActorsOK
    <2>3. HistoryOK'
      BY <1>1, <1>3, <1>6 DEF TypeOK, HistoryOK, history
    <2> QED
      BY <2>1, <2>2, <2>3 DEF TypeOK
  <1>8. Blank' /\ Clean' /\ Steered' /\ Numbered' /\ OpeningOnce'
    BY <1>1, <1>2, <1>4, <1>6, SessionAside
  <1>9. OpeningUnpaid'
    <2> SUFFICES ASSUME NEW b \in Actors, Opening(b)'
                 PROVE  /\ pc'[b].order \notin session' /\ ~IsSettled(status'[pc'[b].order])
                        /\ provider'[pc'[b].order] # "settlement"
                        /\ \A c \in Actors : pc'[c].order = pc'[b].order => pc'[c].answer # "settlement"
      BY DEF OpeningUnpaid, Unpaid
    <2>1. Opening(b) /\ pc'[b].order = pc[b].order /\ Unpaid(pc[b].order) /\ pc[b].order \in Orders
      BY <1>2, <1>3, <1>4, <1>5 DEF Opening, Safe, OpeningUnpaid, BlankSteps
    <2>2. \A c \in Actors : pc'[c].order = pc[c].order /\ pc'[c].answer = pc[c].answer
      BY <1>4, <1>5
    <2>3. provider'[pc[b].order] # "settlement"
      BY <1>1, <1>3, <2>1 DEF Unpaid
    <2> QED
      BY <1>6, <2>1, <2>2, <2>3 DEF Unpaid
  <1>10. WritesAlone' /\ RefusesUnpaid' /\ ReadBefore'
    <2>1. \A b \in Actors : pc'[b].at \in TxSteps \cup {"refuse"} => pc'[b] = pc[b]
      BY <1>4, <1>5 DEF TxSteps
    <2> QED
      BY <1>3, <1>6, <2>1 DEF Safe, WritesAlone, Writers, RefusesUnpaid, ReadBefore, At
  <1>11. Bounded'
    BY <1>1, <1>4, <1>6, SessionBounded
  <1> QED
    BY <1>6, <1>7, <1>8, <1>9, <1>10, <1>11, KeptUnwritten DEF Inv, Safe

\* The link is stored, whether or not the request learns of it.
LEMMA SaveKeeps ==
    ASSUME Inv, NEW p \in Procs, SaveSession(p) \/ LoseSave(p)
    PROVE  Inv' /\ Kept
  <1> DEFINE o == pc[p].order
             r == IF pc' = [pc EXCEPT ![p] = Idle] THEN Idle ELSE [pc[p] EXCEPT !.at = "refuse"]
  <1>1. /\ pc[p].at = "save" /\ session' = session \cup {o}
        /\ UNCHANGED <<status, time, provider, sweep, blind>>
    BY DEF SaveSession, LoseSave, At, history
  <1>2. /\ p \in Actors /\ o \in Rows /\ o \in Orders /\ pc[p] \in PcRecords /\ Unpaid(o)
        /\ \A b \in Actors : Opening(b) /\ pc[b].order = o => b = p
        /\ Opening(p)
    BY <1>1, AtSession DEF Opening
  <1>3. /\ TypeOK /\ Safe /\ pc \in [Actors -> PcRecords] /\ Rows \subseteq Orders
        /\ \A a \in Actors : pc[a].at \in BlankSteps \/ pc[a].order \in Rows
        /\ events \in 0..MaxEvents /\ blind \in 0..events
    BY Known0
  <1>4. PICK x : /\ x \in PcRecords /\ pc' = [pc EXCEPT ![p] = x]
                 /\ \/ x = Idle /\ events' = events /\ crossed' = crossed
                    \/ /\ x.at = "refuse" /\ x.order = o /\ x.answer = pc[p].answer
                       /\ events < MaxEvents /\ events' = events + 1 /\ Cross(p, o)
    <2>1. CASE SaveSession(p)
      BY <2>1 DEF SaveSession, End, Go, history, Idle, PcRecords, Steps, TxSteps, Goals, Answers, Words
    <2>2. CASE LoseSave(p)
      <3> DEFINE y == [pc[p] EXCEPT !.at = "refuse"]
      <3>1. y \in PcRecords /\ y.at = "refuse" /\ y.order = o /\ y.answer = pc[p].answer
        BY <1>2 DEF PcRecords, Steps
      <3>2. /\ pc' = [pc EXCEPT ![p] = y] /\ events < MaxEvents /\ events' = events + 1
            /\ Cross(p, o)
        BY <2>2 DEF LoseSave, Go
      <3> HIDE DEF y
      <3> QED
        BY <3>1, <3>2
    <2> QED
      BY <2>1, <2>2
  <1>5. /\ pc'[p] = x /\ \A b \in Actors : b # p => pc'[b] = pc[b]
        /\ x.at \in {"idle", "refuse"} /\ (x.at = "idle" => x.order = NoOrder /\ x.goal \notin CreateGoals)
        /\ x.answer # "settlement" \/ x.order = o
        /\ x.at # "idle" => x.order = o
    BY <1>2, <1>3, <1>4 DEF Idle, CreateGoals
  <1>6. /\ Rows' = Rows /\ Waiting' = Waiting /\ crossed \subseteq crossed'
        /\ crossed' \subseteq Rows
    BY <1>1, <1>2, <1>3, <1>4 DEF time, Rows, Waiting, Pending, Cross, TypeOK, HistoryOK
  <1>7. TypeOK'
    <2>1. OrdersOK'
      BY <1>1, <1>2, <1>3, <1>6 DEF TypeOK, OrdersOK, time
    <2>2. ActorsOK'
      BY <1>2, <1>3, <1>4, <1>5, <1>6 DEF TypeOK, ActorsOK
    <2>3. HistoryOK'
      BY <1>1, <1>3, <1>4, <1>6, CheckoutAssumption DEF TypeOK, HistoryOK
    <2> QED
      BY <2>1, <2>2, <2>3 DEF TypeOK
  <1>8. Blank' /\ Clean' /\ Steered' /\ Numbered' /\ OpeningOnce'
    BY <1>1, <1>4, <1>5, <1>6, SessionAside
  <1>9. OpeningUnpaid'
    <2> SUFFICES ASSUME NEW b \in Actors, Opening(b)'
                 PROVE  /\ pc'[b].order \notin session' /\ ~IsSettled(status'[pc'[b].order])
                        /\ provider'[pc'[b].order] # "settlement"
                        /\ \A c \in Actors : pc'[c].order = pc'[b].order => pc'[c].answer # "settlement"
      BY DEF OpeningUnpaid, Unpaid
    <2>1. /\ b # p /\ Opening(b) /\ pc'[b] = pc[b] /\ Unpaid(pc[b].order) /\ pc[b].order # o
          /\ pc[b].order \in Orders /\ pc[b].order # NoOrder
      BY <1>2, <1>3, <1>5, Known0 DEF Opening, Safe, OpeningUnpaid, BlankSteps
    <2>2. \A c \in Actors : pc'[c].order = pc[b].order => pc'[c].answer # "settlement"
      BY <1>5, <2>1 DEF Unpaid
    <2> QED
      BY <1>1, <2>1, <2>2 DEF Unpaid
  <1>10. WritesAlone'
    <2> SUFFICES ASSUME NEW q \in Orders \ crossed',
                        NEW b \in Actors, NEW c \in Actors, b \in Writers(q)', c \in Writers(q)'
                 PROVE  b = c
      BY DEF WritesAlone, Writers
    <2>1. ASSUME NEW d \in Actors, d # p, d \in Writers(q)' PROVE d \in Writers(q)
      BY <1>5, <2>1 DEF Writers
    <2>2. ASSUME p \in Writers(q)' PROVE Writers(q) \ {p} = {}
      BY <1>4, <1>5, <2>2 DEF Writers, Idle, TxSteps, Cross
    <2>3. q \in Orders \ crossed
      BY <1>6
    <2> QED
      BY <1>3, <2>1, <2>2, <2>3 DEF Safe, WritesAlone
  <1>11. RefusesUnpaid'
    BY <1>1, <1>2, <1>3, <1>5, <1>6 DEF Safe, RefusesUnpaid, Unpaid, At
  <1>12. ReadBefore'
    BY <1>1, <1>3, <1>5, <1>6 DEF Safe, ReadBefore, TxSteps
  <1>13. Bounded'
    BY <1>1, <1>4, <1>5, <1>6, SessionBounded
  <1> QED
    BY <1>1, <1>7, <1>8, <1>9, <1>10, <1>11, <1>12, <1>13, KeptUnwritten DEF Inv, Safe

\* The catch block.
LEMMA RefuseKeeps ==
    ASSUME Inv, NEW p \in Procs, RefuseSession(p)
    PROVE  Inv' /\ Kept
  <1> DEFINE o == pc[p].order
  <1>1. /\ pc[p].at \in {"session", "save", "refuse"} /\ pc' = [pc EXCEPT ![p] = Idle]
        /\ status' = [status EXCEPT ![o] = Closed] /\ session' = session \ {o}
        /\ UNCHANGED <<time, provider, sweep, history>>
    BY DEF RefuseSession, End, Go
  <1>2. /\ p \in Actors /\ o \in Rows /\ o \in Orders
        /\ o \in crossed \/ ~IsSettled(status[o])
    BY <1>1, AtSession
  <1>3. /\ TypeOK /\ Safe /\ pc \in [Actors -> PcRecords] /\ Rows \subseteq Orders
        /\ status \in [Orders -> OrderStatuses \cup {Absent}]
        /\ \A a \in Actors : pc[a].at \in BlankSteps \/ pc[a].order \in Rows
    BY Known0
  <1>4. /\ Idle \in PcRecords /\ Idle.at = "idle" /\ Idle.order = NoOrder /\ Idle.answer = "none"
        /\ Idle.goal \notin CreateGoals
    BY DEF CreateGoals, Idle, PcRecords, Steps, TxSteps, Goals, Answers, Words
  <1>5. pc'[p] = Idle /\ \A b \in Actors : b # p => pc'[b] = pc[b]
    BY <1>2, <1>3, <1>1
  <1>6. status'[o] = Closed /\ \A q \in Orders : q # o => status'[q] = status[q]
    BY <1>1, <1>2, <1>3
  <1>7. ~IsSettled(Closed) /\ Closed # "PENDING" /\ Closed # Absent /\ Closed \in OrderStatuses
    BY DEF Closed, IsSettled, SettledStatuses, Absent, OrderStatuses
  <1>8. Rows' = Rows /\ Waiting' \subseteq Waiting /\ crossed' = crossed /\ blind' = blind
    BY <1>1, <1>2, <1>6, <1>7 DEF Rows, Waiting, Pending, time, history
  <1>9. TypeOK'
    <2>1. OrdersOK'
      BY <1>1, <1>2, <1>3, <1>7, <1>8 DEF TypeOK, OrdersOK, time
    <2>2. ActorsOK'
      BY <1>1, <1>3, <1>4, <1>5, <1>8 DEF TypeOK, ActorsOK
    <2>3. HistoryOK'
      BY <1>1, <1>3, <1>8 DEF TypeOK, HistoryOK, history
    <2> QED
      BY <2>1, <2>2, <2>3 DEF TypeOK
  <1>10. Blank' /\ Clean' /\ Steered' /\ Numbered' /\ OpeningOnce'
    BY <1>1, <1>4, <1>8, SessionAside
  <1>11. OpeningUnpaid'
    <2> SUFFICES ASSUME NEW b \in Actors, Opening(b)'
                 PROVE  /\ pc'[b].order \notin session' /\ ~IsSettled(status'[pc'[b].order])
                        /\ provider'[pc'[b].order] # "settlement"
                        /\ \A c \in Actors : pc'[c].order = pc'[b].order => pc'[c].answer # "settlement"
      BY DEF OpeningUnpaid, Unpaid
    <2>1. b # p /\ Opening(b) /\ pc'[b] = pc[b] /\ Unpaid(pc[b].order) /\ pc[b].order \in Orders
      BY <1>3, <1>4, <1>5 DEF Opening, Safe, OpeningUnpaid, BlankSteps
    <2>2. \A c \in Actors : pc'[c].order = pc[b].order => pc'[c].answer # "settlement"
      BY <1>4, <1>5, <2>1 DEF Unpaid
    <2> QED
      BY <1>1, <1>6, <1>7, <2>1, <2>2 DEF Unpaid
  <1>12. WritesAlone'
    <2>1. \A q \in Orders : Writers(q)' \subseteq Writers(q)
      BY <1>4, <1>5 DEF Writers, TxSteps
    <2> QED
      BY <1>3, <1>8, <2>1 DEF Safe, WritesAlone, Writers
  <1>13. RefusesUnpaid' /\ ReadBefore'
    <2>1. ASSUME NEW b \in Actors, pc'[b].at \in TxSteps \cup {"refuse"}
          PROVE  pc'[b] = pc[b] /\ pc[b].order \in Orders
      BY <1>3, <1>4, <1>5, <2>1 DEF TxSteps, BlankSteps
    <2> QED
      BY <1>3, <1>6, <1>7, <1>8, <2>1 DEF Safe, RefusesUnpaid, ReadBefore, At
  <1>14. Bounded'
    BY <1>1, <1>4, <1>8, SessionBounded
  <1>15. Kept
    BY <1>2, <1>6 DEF Kept, Paid
  <1> QED
    BY <1>9, <1>10, <1>11, <1>12, <1>13, <1>14, <1>15 DEF Inv, Safe
-----------------------------------------------------------------------------
(* Every step.                                                               *)

\* A request of the user begins, or reads the orders.
LEMMA RequestKeeps ==
    ASSUME Inv, NEW p \in Procs, Request(p) \/ ReadPending(p) \/ ReplacePending(p) \/ Reuse(p)
    PROVE  Inv' /\ Kept
  <1>0. /\ p \in Actors /\ pc[p] \in PcRecords /\ TypeOK /\ Safe
        /\ pc[p].at \in BlankSteps \/ pc[p].order \in Rows
        /\ Rows \subseteq Orders /\ events \in 0..MaxEvents /\ blind \in 0..events
    BY Known0
  <1>1. ASSUME NEW goal \in Goals, BeginSnap(p, goal) PROVE Inv' /\ Kept
    <2> DEFINE x == [Idle EXCEPT !.at = "read", !.goal = goal]
    <2>1. /\ x \in PcRecords /\ x.at = "read" /\ x.order = NoOrder /\ x.answer = "none"
          /\ x.goal \in CreateGoals /\ SendCreate(p, x)
      BY <1>1 DEF BeginSnap, Idle, PcRecords, Steps, TxSteps, Goals, Answers, Words, CreateGoals
    <2> HIDE DEF x
    <2> QED
      BY <2>1, Sending
  <1>2. ASSUME BeginQris(p) PROVE Inv' /\ Kept
    <2> DEFINE x == [Idle EXCEPT !.at = "create", !.goal = "qris"]
    <2>1. /\ x \in PcRecords /\ x.at = "create" /\ x.order = NoOrder /\ x.answer = "none"
          /\ x.goal \in CreateGoals /\ SendCreate(p, x) /\ Waiting = {}
      BY <1>2 DEF BeginQris, Idle, PcRecords, Steps, TxSteps, Goals, Answers, Words, CreateGoals
    <2> HIDE DEF x
    <2> QED
      BY <2>1, Sending
  <1>3. ASSUME NEW o \in Orders, BeginCancel(p, o) \/ BeginCheck(p, o) PROVE Inv' /\ Kept
    <2>1. PICK x : /\ Send(p, x) /\ x \in PcRecords /\ x.at = "ask" /\ x.order = o
                   /\ x.answer = "none" /\ x.goal \in {"cancel", "check"} /\ blind' = blind
      <3> DEFINE h == o \in session
                 y == [Idle EXCEPT !.at = "ask", !.goal = "cancel", !.order = o, !.had = h]
                 z == [Idle EXCEPT !.at = "ask", !.order = o]
      <3>1. h \in BOOLEAN
        OBVIOUS
      <3>2. (Send(p, y) \/ Send(p, z)) /\ blind' = blind
        BY <1>3 DEF BeginCancel, BeginCheck
      <3> HIDE DEF h
      <3>3. /\ y \in PcRecords /\ y.at = "ask" /\ y.order = o /\ y.answer = "none"
            /\ y.goal = "cancel"
            /\ z \in PcRecords /\ z.at = "ask" /\ z.order = o /\ z.answer = "none"
            /\ z.goal = "check"
        BY <3>1 DEF Idle, PcRecords, Steps, TxSteps, Goals, Answers, Words
      <3> HIDE DEF y, z
      <3> QED
        BY <3>2, <3>3
    <2>2. o \in Rows
      BY <1>3 DEF BeginCancel, BeginCheck, Rows, Absent
    <2>3. Onward(p, x) /\ Steers(p, x)
      BY <2>1, <2>2 DEF Onward, Steers, Creates, Send, BlankSteps, Words, CreateSteps, CancelSteps,
                        TxSteps, CreateGoals
    <2>4. Frame /\ UNCHANGED status
      <3>1. events' \in 0..MaxEvents /\ blind' \in 0..events'
        BY <1>0, <2>1, CheckoutAssumption DEF Send
      <3>2. UNCHANGED <<status, session, time, provider, sweep>>
        BY <2>1 DEF Send, rows
      <3> QED
        BY <3>1, <3>2, Framed
    <2> QED
      BY <1>0, <2>1, <2>3, <2>4, Going
  <1>4. ASSUME ReadPending(p) PROVE Inv' /\ Kept
    <2> DEFINE o == Latest(Waiting)
               h == o \in session
               y == [Idle EXCEPT !.at = "create", !.goal = "snap"]
               z == [pc[p] EXCEPT !.at = "choose", !.order = o, !.had = h]
               x == IF o = NoOrder THEN y ELSE z
    <2>0. h \in BOOLEAN
      OBVIOUS
    <2>1. At(p, "read") /\ Go(p, x) /\ UNCHANGED <<rows, time, provider, sweep, history>>
      BY <1>4 DEF ReadPending
    <2>2. /\ Waiting \subseteq Orders
          /\ Waiting = {} => o = NoOrder
          /\ Waiting # {} => o \in Waiting
      BY LatestIn DEF Waiting, Pending
    <2>3. o # NoOrder => o \in Waiting /\ o \in Rows /\ o \in Orders
      BY <2>2 DEF Waiting, Pending, Rows, Absent
    <2>4. pc[p].goal \in CreateGoals /\ pc[p].answer \notin Words
      BY <1>0, <2>1 DEF Safe, Steered, Clean, CreateSteps, At
    <2>5. Creating(p)
      BY <2>1, <2>4 DEF Creating, CreateGoals, At
    <2> HIDE DEF h, o
    <2>6. /\ y \in PcRecords /\ y.at = "create" /\ y.order = NoOrder /\ y.answer = "none"
          /\ y.goal = "snap"
      BY DEF Idle, PcRecords, Steps, TxSteps, Goals, Answers, Words
    <2>7. o # NoOrder => /\ z \in PcRecords /\ z.at = "choose" /\ z.order = o
                         /\ z.answer = pc[p].answer /\ z.goal = pc[p].goal
      BY <1>0, <2>0, <2>3 DEF PcRecords, Steps
    <2> HIDE DEF y, z
    <2>8. Onward(p, x)
      BY <2>1, <2>3, <2>4, <2>6, <2>7 DEF Onward, BlankSteps, Words, CreateSteps, CancelSteps,
                                          TxSteps, CreateGoals, history
    <2>9. Steers(p, x)
      BY <2>2, <2>3, <2>5, <2>6, <2>7, <1>0 DEF Steers, o
    <2>10. Frame /\ UNCHANGED <<status, blind>>
      BY <1>0, <2>1, Framed DEF rows, history
    <2> QED
      BY <1>0, <2>8, <2>9, <2>10, Going
  <1>5. ASSUME ReplacePending(p) PROVE Inv' /\ Kept
    <2> DEFINE o == pc[p].order
               h == o \in session
               y == [Idle EXCEPT !.at = "ask", !.goal = "replace", !.order = o, !.had = h]
               z == Resume(p, status[o])
               x == IF status[o] = "PENDING" THEN y ELSE z
    <2>0. h \in BOOLEAN /\ o \in Rows /\ o \in Orders
      BY <1>0, <1>5 DEF ReplacePending, At, BlankSteps
    <2>1. /\ At(p, "choose") /\ pc[p].goal = "replace" /\ Go(p, x)
          /\ UNCHANGED <<rows, time, provider, sweep, history>>
      BY <1>5 DEF ReplacePending
    <2>2. Resting(p, z)
      BY <2>1, ResumeRests DEF Goals
    <2>3. Creating(p)
      BY <2>1 DEF Creating, At
    <2> HIDE DEF h, z
    <2>4. /\ y \in PcRecords /\ y.at = "ask" /\ y.order = o /\ y.answer = "none"
          /\ y.goal = "replace"
      BY <2>0 DEF Idle, PcRecords, Steps, TxSteps, Goals, Answers, Words
    <2> HIDE DEF y
    <2>5. Onward(p, x)
      BY <2>0, <2>1, <2>2, <2>4 DEF Onward, Resting, BlankSteps, Words, CreateSteps, CancelSteps,
                                    TxSteps, history
    <2>6. Steers(p, x)
      BY <2>1, <2>2, <2>3, <2>4 DEF Steers, Resting, Choosers, At, BlankSteps, Creates, CreateGoals
    <2>7. Frame /\ UNCHANGED <<status, blind>>
      BY <1>0, <2>1, Framed DEF rows, history
    <2> QED
      BY <1>0, <2>5, <2>6, <2>7, Going
  <1>6. ASSUME Reuse(p) PROVE Inv' /\ Kept
    <2>1. /\ At(p, "choose") /\ Go(p, Idle) /\ UNCHANGED <<rows, time, provider, sweep, history>>
      BY <1>6 DEF Reuse, Keeping, End
    <2>2. pc[p].order \in Rows /\ UNCHANGED status
      BY <1>0, <2>1 DEF At, BlankSteps, rows
    <2>3. Inv'
      BY <1>0, <2>1, <2>2, IdleRests, Unwritten, Rests DEF At, rows, Idle
    <2> QED
      BY <2>2, <2>3, KeptUnwritten
  <1> QED
    BY <1>1, <1>2, <1>3, <1>4, <1>5, <1>6 DEF Request

\* A transaction on an order begins.
LEMMA TransactKeeps ==
    ASSUME Inv, NEW p \in Procs,
           \/ ExpireLapsed(p) \/ DropUnusable(p) \/ ApplyCancel(p)
           \/ \E o \in Orders : Notify(p, o)
    PROVE  Inv' /\ Kept
  <1>0. /\ p \in Actors /\ pc[p] \in PcRecords /\ TypeOK /\ Safe
        /\ pc[p].at \in BlankSteps \/ pc[p].order \in Rows
        /\ Rows \subseteq Orders /\ events \in 0..MaxEvents /\ blind \in 0..events
    BY Known0
  <1>1. ASSUME ExpireLapsed(p) PROVE Inv' /\ Kept
    <2>1. /\ At(p, "choose") /\ Transact(p, "lapsed", pc[p].order, "none")
          /\ UNCHANGED <<rows, time, provider, sweep, events, blind>>
      BY <1>1 DEF ExpireLapsed
    <2>2. pc[p].goal \in CreateGoals /\ pc[p].order \in Rows
      BY <1>0, <2>1 DEF Safe, Steered, CreateSteps, At, BlankSteps
    <2>3. Creating(p) /\ ~At(p, "read")
      BY <2>1, <2>2 DEF Creating, CreateGoals, At
    <2> QED
      BY <1>0, <2>1, <2>2, <2>3, Transacting DEF TxSteps, Answers
  <1>2. ASSUME DropUnusable(p) PROVE Inv' /\ Kept
    <2>1. /\ At(p, "choose") /\ Transact(p, "dropped", pc[p].order, "none")
          /\ UNCHANGED <<rows, time, provider, sweep, events, blind>>
      BY <1>2 DEF DropUnusable, Keeping
    <2>2. pc[p].goal \in CreateGoals /\ pc[p].order \in Rows
      BY <1>0, <2>1 DEF Safe, Steered, CreateSteps, At, BlankSteps
    <2>3. Creating(p) /\ ~At(p, "read")
      BY <2>1, <2>2 DEF Creating, CreateGoals, At
    <2> QED
      BY <1>0, <2>1, <2>2, <2>3, Transacting DEF TxSteps, Answers
  <1>3. ASSUME ApplyCancel(p) PROVE Inv' /\ Kept
    <2>1. /\ At(p, "local") /\ Transact(p, "cancelled", pc[p].order, pc[p].answer)
          /\ UNCHANGED <<rows, time, provider, sweep, events, blind>>
      BY <1>3 DEF ApplyCancel
    <2>2. pc[p].goal \notin {"check", "sweep"} /\ pc[p].order \in Rows /\ pc[p].answer \in Answers
      BY <1>0, <2>1 DEF Safe, Steered, CancelSteps, At, BlankSteps, PcRecords
    <2>3. pc[p].goal \in CreateGoals => Creating(p)
      BY <2>1 DEF Creating, CreateGoals, At
    <2>4. ~At(p, "read")
      BY <2>1 DEF At
    <2> QED
      BY <1>0, <2>1, <2>2, <2>3, <2>4, Transacting DEF TxSteps
  <1>4. ASSUME NEW o \in Orders, Notify(p, o) PROVE Inv' /\ Kept
    <2>1. /\ At(p, "idle") /\ provider[o] \in Words /\ Transact(p, "synced", o, provider[o])
          /\ events' = events + 1 /\ events < MaxEvents
          /\ UNCHANGED <<rows, time, provider, sweep, blind>>
      BY <1>4 DEF Notify
    <2>2. o \in Rows /\ provider[o] \in Answers
      BY <1>0, <2>1 DEF TypeOK, OrdersOK, Answers, Words
    <2>3. pc[p].goal \notin CreateGoals
      BY <1>0, <2>1 DEF Safe, Steered, At
    <2>4. events' \in 0..MaxEvents /\ events <= events'
      BY <1>0, <2>1, CheckoutAssumption
    <2> QED
      BY <1>0, <2>1, <2>2, <2>3, <2>4, Transacting DEF TxSteps
  <1> QED
    BY <1>1, <1>2, <1>3, <1>4

\* The row is read and the provider asked, and the answer is applied or not.
LEMMA SyncKeeps ==
    ASSUME Inv, NEW a \in Actors, (\E answer \in Answers : Ask(a, answer)) \/ Apply(a)
    PROVE  Inv' /\ Kept
  <1>0. /\ pc[a] \in PcRecords /\ TypeOK /\ Safe
        /\ pc[a].at \in BlankSteps \/ pc[a].order \in Rows
        /\ status \in [Orders -> OrderStatuses \cup {Absent}]
        /\ Rows \subseteq Orders /\ events \in 0..MaxEvents /\ blind \in 0..events
    BY Known0
  <1>1. ASSUME NEW answer \in Answers, Ask(a, answer) PROVE Inv' /\ Kept
    <2> DEFINE o == pc[a].order
               seen == IF answer \in Words THEN pc[a].saw ELSE status[o]
               x == [pc[a] EXCEPT !.at = "apply", !.answer = answer, !.saw = seen]
    <2>1. /\ At(a, "ask") /\ Go(a, x) /\ UNCHANGED <<rows, time, provider, sweep, history>>
          /\ answer = "settlement" => provider[o] = "settlement"
      BY <1>1 DEF Ask, Words
    <2>2. o \in Rows /\ seen \in OrderStatuses \cup {Absent}
      BY <1>0, <2>1 DEF At, BlankSteps, PcRecords
    <2> HIDE DEF seen
    <2>3. /\ x \in PcRecords /\ x.at = "apply" /\ x.order = o /\ x.answer = answer
          /\ x.goal = pc[a].goal
      BY <1>0, <2>2 DEF PcRecords, Steps
    <2> HIDE DEF x
    <2>4. Onward(a, x)
      BY <1>0, <2>1, <2>2, <2>3 DEF Onward, BlankSteps, CreateSteps, CancelSteps, TxSteps, history
    <2>5. Steers(a, x)
      BY <2>1, <2>3 DEF Steers, Creates, Creating, CreateGoals, Choosers, At
    <2>6. Frame /\ UNCHANGED <<status, blind>>
      BY <1>0, <2>1, Framed DEF rows, history
    <2> QED
      BY <2>4, <2>5, <2>6, Going
  <1>2. ASSUME Apply(a) PROVE Inv' /\ Kept
    <2>1. At(a, "apply") /\ UNCHANGED <<rows, time, provider, sweep, events, blind>>
      BY <1>2 DEF Apply
    <2>2. pc[a].order \in Rows /\ pc[a].answer \in Answers
      BY <1>0, <2>1 DEF At, BlankSteps, PcRecords
    <2>3. CASE pc[a].answer \in Words \/ Overdue(a)
      <3>1. Transact(a, "synced", pc[a].order, pc[a].answer)
        BY <1>2, <2>3 DEF Apply
      <3>2. pc[a].goal \in CreateGoals => Creating(a) /\ ~At(a, "read")
        BY <2>1 DEF Creating, CreateGoals, At
      <3> QED
        BY <1>0, <2>1, <2>2, <3>1, <3>2, Transacting DEF TxSteps
    <2>4. CASE ~(pc[a].answer \in Words \/ Overdue(a))
      <3> DEFINE r == Synced(a, pc[a].saw)
      <3>1. Go(a, r) /\ UNCHANGED crossed
        BY <1>2, <2>4 DEF Apply
      <3>2. Resting(a, r)
        BY <2>2, SyncedRests
      <3> HIDE DEF r
      <3>3. UNCHANGED <<session, time, provider, sweep, history>> /\ UNCHANGED status
        BY <2>1, <3>1 DEF rows, history
      <3>4. Rewrites(a)
        BY <1>0, <3>3, Unwritten
      <3>5. r.at # "create"
        BY <2>1, <3>2 DEF Resting, At
      <3>6. pc[a].at \notin {"idle", "read", "session", "save", "refuse"}
        BY <2>1 DEF At
      <3>7. Inv'
        BY <2>2, <3>1, <3>2, <3>3, <3>4, <3>5, <3>6, Rests
      <3> QED
        BY <3>3, <3>7, KeptUnwritten
    <2> QED
      BY <2>3, <2>4
  <1> QED
    BY <1>1, <1>2

\* The provider is asked to cancel.
LEMMA CancelKeeps ==
    ASSUME Inv, NEW p \in Procs, NEW cancels \in BOOLEAN, NEW answer \in Answers,
           CancelAtProvider(p, cancels, answer)
    PROVE  Inv' /\ Kept
  <1> DEFINE o == pc[p].order
             g == pc[p].goal
             x == [Idle EXCEPT !.at = "local", !.goal = g, !.order = o, !.answer = answer]
  <1>0. /\ p \in Actors /\ pc[p] \in PcRecords /\ TypeOK /\ Safe
        /\ pc[p].at \in BlankSteps \/ o \in Rows
        /\ provider \in [Orders -> ProviderStates]
        /\ Rows \subseteq Orders /\ events \in 0..MaxEvents /\ blind \in 0..events
    BY Known0
  <1>1. /\ At(p, "provider") /\ Go(p, x) /\ UNCHANGED <<rows, time, sweep, history>>
        /\ provider' = IF cancels THEN [provider EXCEPT ![o] = "expire"] ELSE provider
        /\ cancels => provider[o] = "pending"
        /\ answer \in {"nothing"} \cup ({provider'[o]} \cap Words)
    BY DEF CancelAtProvider, Stay
  <1>2. o \in Rows /\ o \in Orders /\ g \in Goals \ {"check", "sweep"}
    BY <1>0, <1>1 DEF At, BlankSteps, PcRecords, Safe, Steered, CancelSteps
  <1>3. /\ provider' \in [Orders -> ProviderStates]
        /\ \A q \in Orders : /\ provider'[q] # "none" => provider[q] # "none"
                             /\ provider'[q] = "settlement" => provider[q] = "settlement"
    BY <1>0, <1>1, <1>2 DEF ProviderStates, Words
  <1>4. Frame /\ UNCHANGED <<status, blind>>
    BY <1>0, <1>1, <1>3 DEF Frame, rows, time, history, TypeOK, OrdersOK
  <1>5. answer = "settlement" => provider[o] = "settlement"
    BY <1>1, <1>2, <1>3
  <1>6. Creating(p) <=> g \in CreateGoals
    BY <1>1 DEF Creating, CreateGoals, At
  <1> HIDE DEF o, g
  <1>7. /\ x \in PcRecords /\ x.at = "local" /\ x.goal = g /\ x.order = o /\ x.answer = answer
    BY <1>2 DEF Idle, PcRecords, Steps, TxSteps, Goals
  <1> HIDE DEF x
  <1>8. Onward(p, x)
    BY <1>1, <1>2, <1>5, <1>7 DEF Onward, BlankSteps, CreateSteps, CancelSteps, TxSteps, history
  <1>9. Steers(p, x)
    BY <1>1, <1>6, <1>7 DEF Steers, Creates, Choosers, At, o
  <1> QED
    BY <1>0, <1>4, <1>8, <1>9, Going

\* The sweep goes on to its next order, and a request that breaks goes idle.
LEMMA VisitKeeps ==
    ASSUME Inv, NEW o \in Orders, Visit(o)
    PROVE  Inv' /\ Kept
  <1> DEFINE x == [Idle EXCEPT !.at = "ask", !.goal = "sweep", !.order = o]
  <1>0. /\ Cron \in Actors /\ TypeOK /\ Safe /\ events \in 0..MaxEvents /\ blind \in 0..events
    BY Known0
  <1>1. /\ o \in sweep /\ sweep' = sweep \ {o} /\ Go(Cron, x)
        /\ UNCHANGED <<rows, time, provider, history>>
    BY DEF Visit
  <1>2. o \in Rows
    BY <1>0, <1>1 DEF TypeOK, OrdersOK
  <1>3. /\ x \in PcRecords /\ x.at = "ask" /\ x.goal = "sweep" /\ x.order = o /\ x.answer = "none"
    BY DEF Idle, PcRecords, Steps, TxSteps, Goals, Answers, Words
  <1> HIDE DEF x
  <1>4. Onward(Cron, x) /\ Steers(Cron, x)
    BY <1>1, <1>2, <1>3 DEF Onward, Steers, Creates, BlankSteps, CreateSteps, CancelSteps, TxSteps,
                            CreateGoals, Words, history
  <1>5. Frame /\ UNCHANGED <<status, blind>>
    BY <1>0, <1>1 DEF Frame, rows, time, history, TypeOK, OrdersOK
  <1> QED
    BY <1>0, <1>4, <1>5, Going

\* A request that breaks off leaves every order as it is.
LEMMA BreakKeeps ==
    ASSUME Inv, NEW a \in Actors, Break(a)
    PROVE  Inv' /\ Kept
  <1>0. TypeOK /\ Safe /\ events \in 0..MaxEvents /\ blind \in 0..events
    BY Known0
  <1>1. /\ Go(a, Idle) /\ sweep' \in {{}, sweep} /\ UNCHANGED <<rows, time, provider, history>>
    BY DEF Break, End
  <1>2. /\ Idle \in PcRecords /\ Idle.at = "idle" /\ Idle.order = NoOrder /\ Idle.answer = "none"
        /\ Idle.goal = "check"
    BY DEF Idle, PcRecords, Steps, TxSteps, Goals, Answers, Words
  <1>3. Onward(a, Idle) /\ Steers(a, Idle)
    BY <1>1, <1>2 DEF Onward, Steers, Creates, BlankSteps, CreateSteps, CancelSteps, TxSteps,
                      CreateGoals, Words, history
  <1>4. Frame /\ UNCHANGED <<status, blind>>
    BY <1>0, <1>1 DEF Frame, rows, time, history, TypeOK, OrdersOK
  <1> QED
    BY <1>3, <1>4, Going

\* Time, the provider and the beginning of a sweep move no request.
LEMMA AsideKeeps ==
    ASSUME Inv, \/ BeginSweep \/ Finished \/ UNCHANGED vars
                \/ \E o \in Orders : Provider(o) \/ Time(o)
    PROVE  Inv' /\ Kept
  <1>0. TypeOK
    BY DEF Inv
  <1>1. CASE BeginSweep
    <2>1. UNCHANGED <<rows, time, provider, pc, history>> /\ sweep' \subseteq Rows
      BY <1>1 DEF BeginSweep, Oldest, Recent, Pending, Rows, Absent
    <2>2. TypeOK'
      BY <1>0, <2>1 DEF TypeOK, OrdersOK, ActorsOK, HistoryOK, rows, time, history, Rows
    <2> QED
      BY <2>1, <2>2, Aside DEF rows, time, history
  <1>2. CASE Finished \/ UNCHANGED vars
    <2>1. UNCHANGED <<rows, time, provider, pc, sweep, history>>
      BY <1>2 DEF Finished, vars
    <2>2. TypeOK'
      BY <1>0, <2>1 DEF TypeOK, OrdersOK, ActorsOK, HistoryOK, rows, time, history, Rows
    <2> QED
      BY <2>1, <2>2, Aside DEF rows, time, history
  <1>3. ASSUME NEW o \in Orders, Provider(o) PROVE Inv' /\ Kept
    <2>1. PICK word \in Words :
             /\ provider' = [provider EXCEPT ![o] = word]
             /\ UNCHANGED <<rows, time, pc, sweep, history>>
             /\ provider[o] # "none" /\ (word = "settlement" => o \in session)
      BY <1>3 DEF Provider, ChooseMethod, Pay, ProviderExpires, Becomes, Words
    <2>2. TypeOK'
      BY <1>0, <2>1 DEF TypeOK, OrdersOK, ActorsOK, HistoryOK, rows, time, history, Rows, ProviderStates
    <2>3. \A q \in Orders : provider'[q] = "settlement" => provider[q] = "settlement" \/ q \in session
      BY <1>0, <2>1 DEF TypeOK, OrdersOK
    <2> QED
      BY <2>1, <2>2, <2>3, Aside DEF rows, time, history
  <1>4. ASSUME NEW o \in Orders, Time(o) PROVE Inv' /\ Kept
    <2>1. /\ UNCHANGED <<rows, provider, pc, sweep, history>>
          /\ \/ lapsed' = lapsed \cup {o} /\ aged' = aged /\ o \in Rows
             \/ lapsed' = lapsed /\ aged' = aged \cup {o} /\ o \in lapsed
      BY <1>4 DEF Time, Lapse, Age, Waiting, Pending, Rows, Absent
    <2>2. TypeOK'
      BY <1>0, <2>1 DEF TypeOK, OrdersOK, ActorsOK, HistoryOK, rows, history, Rows
    <2> QED
      BY <2>1, <2>2, Aside DEF rows, history
  <1> QED
    BY <1>1, <1>2, <1>3, <1>4

\* Every step keeps the invariant, and what was paid.
LEMMA InvStep == Inv /\ [Next]_vars => Inv' /\ Kept
  <1> SUFFICES ASSUME Inv, [Next]_vars PROVE Inv' /\ Kept
    OBVIOUS
  <1>0. Procs \subseteq Actors /\ Cron \in Actors
    BY DEF Actors
  <1>1. ASSUME NEW p \in Procs, Request(p) PROVE Inv' /\ Kept
    BY <1>1, RequestKeeps
  <1>2. ASSUME NEW a \in Actors, Sync(a) PROVE Inv' /\ Kept
    BY <1>2, SyncKeeps, CommitKeeps DEF Sync
  <1>3. ASSUME NEW p \in Procs, Step(p) PROVE Inv' /\ Kept
    BY <1>0, <1>2, <1>3, RequestKeeps, TransactKeeps, CreateOrderKeeps, OpenSessionKeeps, SaveKeeps,
       RefuseKeeps, CancelKeeps DEF Step
  <1>4. ASSUME NEW p \in Procs, NEW o \in Orders, Notify(p, o) PROVE Inv' /\ Kept
    BY <1>4, TransactKeeps
  <1>5. ASSUME Reconcile PROVE Inv' /\ Kept
    BY <1>0, <1>2, <1>5, VisitKeeps, AsideKeeps DEF Reconcile
  <1> QED
    BY <1>1, <1>3, <1>4, <1>5, BreakKeeps, CreateTransactionKeeps, AsideKeeps DEF Next

\* The user has no order yet.
LEMMA InvInit == Init => Inv
  <1> SUFFICES ASSUME Init PROVE Inv
    OBVIOUS
  <1>0. /\ Idle \in PcRecords /\ Idle.at = "idle" /\ Idle.order = NoOrder /\ Idle.goal = "check"
    BY DEF Idle, PcRecords, Steps, TxSteps, Goals, Answers, Words
  <1>1. Rows = {} /\ \A a \in Actors : pc[a] = Idle
    BY DEF Init, Rows
  <1>2. TypeOK
    <2>1. OrdersOK
      BY <1>1 DEF Init, OrdersOK, ProviderStates
    <2>2. ActorsOK
      BY <1>0 DEF Init, ActorsOK
    <2>3. HistoryOK
      BY CheckoutAssumption DEF Init, HistoryOK
    <2> QED
      BY <2>1, <2>2, <2>3 DEF TypeOK
  <1>3. Safe
    <2>1. Numbered
      <3>1. 0 \in 0..MaxOrders /\ 1..0 = {}
        BY CheckoutAssumption
      <3> QED
        BY <1>1, <3>1 DEF Numbered
    <2>2. Blank /\ Clean /\ Steered /\ OpeningOnce /\ OpeningUnpaid /\ WritesAlone
      BY <1>0, <1>1 DEF Blank, Clean, Steered, OpeningOnce, OpeningUnpaid, Opening, WritesAlone,
                        Writers, BlankSteps, CreateSteps, CancelSteps, TxSteps, CreateGoals
    <2>3. RefusesUnpaid /\ ReadBefore
      BY <1>0, <1>1 DEF RefusesUnpaid, ReadBefore, At, TxSteps
    <2> QED
      BY <2>1, <2>2, <2>3 DEF Safe
  <1>4. Bounded
    <2>1. Waiting = {} /\ Creators = {} /\ blind = 0
      BY <1>0, <1>1 DEF Waiting, Pending, Rows, Absent, Creators, Creating, Actors, Init
    <2>2. IsFiniteSet({}) /\ Cardinality({}) = 0
      BY FS_EmptySet
    <2>3. Spare = 0
      BY <2>1 DEF Spare
    <2> QED
      BY <2>1, <2>2, <2>3 DEF Bounded
  <1> QED
    BY <1>2, <1>3, <1>4 DEF Inv

\* The invariant holds in every reachable state.
LEMMA InvCorrect == Spec => []Inv
  BY InvInit, InvStep, PTL DEF Spec
-----------------------------------------------------------------------------
(* The theorems.                                                             *)

\* Every reachable state is well-typed.
THEOREM TypeCorrect == Spec => []TypeOK
  <1>1. Inv => TypeOK
    BY DEF Inv
  <1> QED
    BY <1>1, InvCorrect, PTL

\* There is one pending order to offer at most, and one more for each creation that
\* could not see another: the count is kept by what is still to come.
THEOREM OneOpenOrderCorrect == Spec => []OneOpenOrder
  <1>1. Inv => OneOpenOrder
    <2> SUFFICES ASSUME Inv PROVE OneOpenOrder
      OBVIOUS
    <2>1. TypeOK /\ Bounded
      BY DEF Inv
    <2>2. Cardinality(Waiting) \in Nat /\ Cardinality(Creators) \in Nat /\ blind \in Nat
      BY <2>1, WaitingFinite, FS_CardinalityType DEF Bounded, TypeOK, HistoryOK
    <2>3. Spare = 1 => Cardinality(Creators) # 0
      BY <2>1, FS_EmptySet DEF Spare, Choosers, Bounded
    <2>4. Spare \in {0, 1}
      BY DEF Spare
    <2> QED
      BY <2>1, <2>2, <2>3, <2>4 DEF OneOpenOrder, Bounded
  <1> QED
    BY <1>1, InvCorrect, PTL

\* A paid order stays paid, where no two writers of its status overlapped: each
\* transaction that finds it paid has read it as paid.
THEOREM PaidStaysPaidCorrect == Spec => PaidStaysPaid
  <1>1. Inv /\ [Next]_vars => [\A o \in Paid \ crossed : IsSettled(status'[o])]_vars
    BY InvStep DEF Kept
  <1> QED
    BY <1>1, InvCorrect, PTL DEF Spec, PaidStaysPaid
=============================================================================
