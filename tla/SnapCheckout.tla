---------------------------- MODULE SnapCheckout ----------------------------
(***************************************************************************)
(* The premium checkout of one user: create-snap, create-qris,             *)
(* cancel-payment and check-payment (user-payments.controller.ts), the     *)
(* Snap session kept beside the order (createOrReuseSnapOrder,             *)
(* cancelSnapOrder, syncOrderStatusFromMidtrans in payments.service.ts)    *)
(* and the reconcile cron (payments.reconcile.service.ts), against a       *)
(* payment provider of which the backend only ever sees answers.           *)
(*                                                                         *)
(* A request is a process; between two of its steps anything may happen.   *)
(* applyOrderTransition takes two: the order is read, then its row is      *)
(* locked and written.  What it books is the subject of PaymentOrders.     *)
(***************************************************************************)
EXTENDS PaymentStatus, FiniteSets

CONSTANTS Procs,        \* the user's requests, and notifications about the
                        \* user's orders, that can be handled at once
          Cron,         \* the reconcile cron
          MaxOrders,    \* bound: orders the user ever creates
          MaxEvents,    \* bound: requests, notifications and lost answers of
                        \* the database there ever are
          Take          \* orders one reconcile sweep looks at

ASSUME CheckoutAssumption ==
    /\ Cron \notin Procs
    /\ MaxOrders \in Nat \ {0}
    /\ MaxEvents \in Nat
    /\ Take \in Nat \ {0}

Orders == 1..MaxOrders    \* in the order of createdAt
NoOrder == 0
Actors == Procs \cup {Cron}

VARIABLES status,      \* order -> PaymentOrder.status, "ABSENT" before the row
          session,     \* orders whose row holds a usable Snap session, the
                       \* payment link the user can open
          lapsed,      \* orders whose 15 minutes (expiresAt) are over
          aged,        \* of these, the orders too old for a sweep (windowMinutes)
          provider,    \* order -> its transaction at the payment provider
          pc,          \* actor -> the request it is in
          sweep,       \* orders the running reconcile sweep has yet to visit
          events,      \* for MaxEvents
          blind,       \* history: creations that could not see a pending order
          crossed      \* history: orders two writers of whose status overlapped

rows == <<status, session>>
time == <<lapsed, aged>>
history == <<events, blind, crossed>>
vars == <<rows, time, provider, pc, sweep, history>>

Absent == "ABSENT"

\* Nothing here tells EXPIRE, CANCEL and FAILURE apart: Closed stands for all of
\* them, and "expire" for a transaction that expired or was cancelled.
Closed == "EXPIRE"
OrderStatuses == {"PENDING", "SETTLEMENT", Closed}

\* "none": unknown to the provider, "open": a session without a transaction.
Words == {"pending", "settlement", "expire"}
ProviderStates == {"none", "open"} \cup Words

\* What a call to the provider came back with: a transaction status, an answer
\* without one, or no answer to go by (an HTTP error, or it was not asked).
Answers == Words \cup {"nothing", "none"}

Goals == {"snap", "replace", "qris", "cancel", "check", "sweep"}
TxSteps == {"lapsed", "dropped", "synced", "cancelled"}  \* inside applyOrderTransition
Steps == {"idle", "read", "choose", "create", "session", "save", "refuse",
          "ask", "apply", "provider", "local"} \cup TxSteps
Idle == [at |-> "idle", goal |-> "check", order |-> NoOrder, first |-> TRUE,
         had |-> FALSE, saw |-> Absent, answer |-> "none"]

Init ==
    /\ status = [o \in Orders |-> Absent]
    /\ session = {}
    /\ lapsed = {}
    /\ aged = {}
    /\ provider = [o \in Orders |-> "none"]
    /\ pc = [a \in Actors |-> Idle]
    /\ sweep = {}
    /\ events = 0
    /\ blind = 0
    /\ crossed = {}

Rows == {o \in Orders : status[o] # Absent}
Paid == {o \in Orders : IsSettled(status[o])}            \* getLatestSuccessfulTestPayment
Pending == {o \in Orders : status[o] = "PENDING"}
Waiting == Pending \ lapsed                              \* getLatestPendingTestPayment

Latest(S) == IF S = {} THEN NoOrder ELSE CHOOSE o \in S : \A n \in S : n <= o

At(a, step) == pc[a].at = step
Go(a, changes) == pc' = [pc EXCEPT ![a] = changes]
End(a) == Go(a, Idle)
-----------------------------------------------------------------------------
(* applyOrderTransition.                                                     *)

\* Who is about to write the status of an order.
Writers(o) == {a \in Actors : pc[a].order = o /\ pc[a].at \in TxSteps \cup {"refuse"}}

Cross(a, o) == crossed' = IF Writers(o) \ {a} = {} THEN crossed ELSE crossed \cup {o}

\* The order is read, before the lock on its row is asked for.
Transact(a, step, o, answer) ==
    /\ Go(a, [pc[a] EXCEPT !.at = step, !.first = TRUE, !.order = o, !.saw = status[o],
                           !.answer = answer])
    /\ Cross(a, o)

\* The status that is asked for.
Wanted(a) == IF pc[a].answer \in Words THEN MapMidtransStatus(pc[a].answer, TRUE) ELSE Closed

\* Where a create request goes on once its order is no longer pending.
Resume(p, found) ==
    IF pc[p].goal = "cancel" \/ IsSettled(found) THEN Idle
    ELSE [Idle EXCEPT !.at = "read", !.goal = "snap", !.first = FALSE]

Stay(a, step, answer) ==
    [Idle EXCEPT !.at = step, !.goal = pc[a].goal, !.order = pc[a].order, !.answer = answer]

\* Where the caller of syncOrderStatusFromMidtrans goes on with the row it gets.
Synced(a, found) ==
    IF pc[a].goal \in {"check", "sweep"} THEN Idle
    ELSE IF found # "PENDING" THEN Resume(a, found)
    ELSE IF pc[a].had THEN Stay(a, "provider", "none")
    ELSE Stay(a, "local", "nothing")

\* Where the caller of applyOrderTransition goes on with the row it reads then.
After(a, found) ==
    CASE At(a, "lapsed")    -> [Idle EXCEPT !.at = "read", !.goal = pc[a].goal, !.first = FALSE]
      [] At(a, "dropped")   -> [Idle EXCEPT !.at = "create", !.goal = "snap"]
      [] At(a, "synced")    -> Synced(a, found)
      [] At(a, "cancelled") -> Resume(a, found)

\* The row is locked and written, on the verdict over the status read before.
Commit(a) ==
    /\ pc[a].at \in TxSteps
    /\ LET o == pc[a].order
       IN  /\ status' = IF Verdict(pc[a].saw, Wanted(a), FALSE) = "applied"
                        THEN [status EXCEPT ![o] = Wanted(a)] ELSE status
           /\ Go(a, After(a, status'[o]))
    /\ UNCHANGED <<session, time, provider, sweep, history>>
-----------------------------------------------------------------------------
(* The requests of the user.                                                 *)

\* A request that has yet to create its order.
Creating(a) ==
    /\ pc[a].goal \in {"snap", "replace", "qris"}
    /\ pc[a].at \notin {"idle", "session", "save", "refuse"}

Send(p, record) ==
    /\ At(p, "idle")
    /\ events < MaxEvents
    /\ events' = events + 1
    /\ Go(p, record)
    /\ UNCHANGED <<rows, time, provider, sweep, crossed>>

SendCreate(p, record) ==
    /\ Send(p, record)
    /\ blind' = IF \E q \in Procs \ {p} : Creating(q) THEN blind + 1 ELSE blind

\* create-snap: a user who has paid gets the paid order back.
BeginSnap(p, goal) ==
    /\ goal \in {"snap", "replace"}
    /\ Paid = {}
    /\ SendCreate(p, [Idle EXCEPT !.at = "read", !.goal = goal])

\* create-qris: only a pending order is looked for.
BeginQris(p) ==
    /\ Waiting = {}
    /\ SendCreate(p, [Idle EXCEPT !.at = "create", !.goal = "qris"])

\* cancel-payment: cancelSnapOrder returns unless the order is pending.
BeginCancel(p, o) ==
    /\ status[o] = "PENDING"
    /\ Send(p, [Idle EXCEPT !.at = "ask", !.goal = "cancel", !.order = o,
                            !.had = o \in session])
    /\ UNCHANGED blind

BeginCheck(p, o) ==
    /\ status[o] # Absent /\ ~IsSettled(status[o])
    /\ Send(p, [Idle EXCEPT !.at = "ask", !.order = o])
    /\ UNCHANGED blind
-----------------------------------------------------------------------------
(* createOrReuseSnapOrder.                                                   *)

\* Faulty variant: nothing to reuse is not told apart.
ReadPendingUnchecked(p) ==
    /\ At(p, "read")
    /\ LET o == Latest(Waiting)
       IN  Go(p, [pc[p] EXCEPT !.at = "choose", !.order = o, !.had = o \in session])
    /\ UNCHANGED <<rows, time, provider, sweep, history>>

ReadPending(p) ==
    /\ At(p, "read")
    /\ LET o == Latest(Waiting)
       IN  Go(p, IF o = NoOrder THEN [Idle EXCEPT !.at = "create", !.goal = "snap"]
                 ELSE [pc[p] EXCEPT !.at = "choose", !.order = o, !.had = o \in session])
    /\ UNCHANGED <<rows, time, provider, sweep, history>>

RanOut(p) == pc[p].first /\ pc[p].order \in lapsed

\* The order ran out after it was read: expired here, and read again.
ExpireLapsed(p) ==
    /\ At(p, "choose") /\ RanOut(p)
    /\ Transact(p, "lapsed", pc[p].order, "none")
    /\ UNCHANGED <<rows, time, provider, sweep, events, blind>>

\* The user wants another method: cancelSnapOrder reads the order first.
ReplacePending(p) ==
    /\ At(p, "choose") /\ ~RanOut(p) /\ pc[p].goal = "replace"
    /\ LET o == pc[p].order
       IN  Go(p, IF status[o] = "PENDING"
                 THEN [Idle EXCEPT !.at = "ask", !.goal = "replace", !.order = o,
                                   !.had = o \in session]
                 ELSE Resume(p, status[o]))
    /\ UNCHANGED <<rows, time, provider, sweep, history>>

Reusable(p) == pc[p].had /\ pc[p].order \notin lapsed

Keeping(p) == At(p, "choose") /\ ~RanOut(p) /\ pc[p].goal = "snap"

Reuse(p) ==
    /\ Keeping(p) /\ Reusable(p)
    /\ End(p)
    /\ UNCHANGED <<rows, time, provider, sweep, history>>

\* Faulty variant: an order without a session is left as it is.
DropUnusableKept(p) ==
    /\ Keeping(p) /\ ~Reusable(p)
    /\ Go(p, [Idle EXCEPT !.at = "create", !.goal = "snap"])
    /\ UNCHANGED <<rows, time, provider, sweep, history>>

\* The pending order as it was read has no session to go back to.
DropUnusable(p) ==
    /\ Keeping(p) /\ ~Reusable(p)
    /\ Transact(p, "dropped", pc[p].order, "none")
    /\ UNCHANGED <<rows, time, provider, sweep, events, blind>>

\* createOrder: the row is PENDING, without a session.
NewOrder(o) ==
    /\ Cardinality(Rows) < MaxOrders
    /\ o = Cardinality(Rows) + 1
    /\ status' = [status EXCEPT ![o] = "PENDING"]

\* create-qris stops here, its order never has a session.
CreateOrder(p, o) ==
    /\ At(p, "create")
    /\ NewOrder(o)
    /\ Go(p, IF pc[p].goal = "qris" THEN Idle
             ELSE [Idle EXCEPT !.at = "session", !.goal = "snap", !.order = o])
    /\ UNCHANGED <<session, time, provider, sweep, history>>

\* transactions/create looks for no order at all.
CreateTransaction(o) ==
    /\ events < MaxEvents
    /\ events' = events + 1
    /\ blind' = blind + 1
    /\ NewOrder(o)
    /\ UNCHANGED <<session, time, provider, pc, sweep, crossed>>

\* Faulty variant: the link is stored before the session is complete.
OpenSessionStored(p) ==
    /\ At(p, "session")
    /\ provider' = [provider EXCEPT ![pc[p].order] = "open"]
    /\ session' = session \cup {pc[p].order}
    /\ Go(p, [pc[p] EXCEPT !.at = "save"])
    /\ UNCHANGED <<status, time, sweep, history>>

\* createMidtransSnapTransaction: the provider opens the session, ...
OpenSession(p) ==
    /\ At(p, "session")
    /\ provider' = [provider EXCEPT ![pc[p].order] = "open"]
    /\ Go(p, [pc[p] EXCEPT !.at = "save"])
    /\ UNCHANGED <<rows, time, sweep, history>>

\* ... and its link is stored, whatever became of the order meanwhile.
SaveSession(p) ==
    /\ At(p, "save")
    /\ session' = session \cup {pc[p].order}
    /\ End(p)
    /\ UNCHANGED <<status, time, provider, sweep, history>>

\* The link is stored, but the answer of the database is lost.
LoseSave(p) ==
    /\ At(p, "save")
    /\ events < MaxEvents
    /\ events' = events + 1
    /\ session' = session \cup {pc[p].order}
    /\ Go(p, [pc[p] EXCEPT !.at = "refuse"])
    /\ Cross(p, pc[p].order)
    /\ UNCHANGED <<status, time, provider, sweep, blind>>

\* The catch block, for whatever failed: FAILURE is written without looking at
\* the status.
RefuseSession(p) ==
    /\ pc[p].at \in {"session", "save", "refuse"}
    /\ status' = [status EXCEPT ![pc[p].order] = Closed]
    /\ session' = session \ {pc[p].order}
    /\ End(p)
    /\ UNCHANGED <<time, provider, sweep, history>>
-----------------------------------------------------------------------------
(* syncOrderStatusFromMidtrans and cancelSnapOrder.                          *)

\* The row is read, and the provider asked when there is a session to ask about.
Ask(a, answer) ==
    /\ At(a, "ask")
    /\ LET o == pc[a].order
           asked == o \in session /\ ~IsSettled(status[o])   \* else the row is returned
       IN  /\ \/ answer = "none"
              \/ asked /\ answer = IF provider[o] \in Words THEN provider[o] ELSE "nothing"
           /\ Go(a, [pc[a] EXCEPT !.at = "apply", !.answer = answer,
                    !.saw = IF answer \in Words THEN @ ELSE status[o]])
    /\ UNCHANGED <<rows, time, provider, sweep, history>>

\* The status the answer stands for is applied, or none: the caller then goes on
\* with the row as it was read before the call.
Overdue(a) == pc[a].answer = "nothing" /\ pc[a].saw = "PENDING" /\ pc[a].order \in lapsed

Apply(a) ==
    /\ At(a, "apply")
    /\ IF pc[a].answer \in Words \/ Overdue(a)
       THEN Transact(a, "synced", pc[a].order, pc[a].answer)
       ELSE Go(a, Synced(a, pc[a].saw)) /\ UNCHANGED crossed
    /\ UNCHANGED <<rows, time, provider, sweep, events, blind>>

\* The provider cancels a pending transaction, unless it fails; its answer may
\* be lost.  It refuses any other, and what its refusal says is left open.
CancelAtProvider(p, cancels, answer) ==
    /\ At(p, "provider")
    /\ LET o == pc[p].order
       IN  /\ cancels => provider[o] = "pending"
           /\ provider' = IF cancels THEN [provider EXCEPT ![o] = "expire"] ELSE provider
           /\ answer \in {"nothing"} \cup ({provider'[o]} \cap Words)
    /\ Go(p, Stay(p, "local", answer))
    /\ UNCHANGED <<rows, time, sweep, history>>

\* Both callers allow the local fallback: no answer, or no session to begin
\* with, means CANCEL.
ApplyCancel(p) ==
    /\ At(p, "local")
    /\ Transact(p, "cancelled", pc[p].order, pc[p].answer)
    /\ UNCHANGED <<rows, time, provider, sweep, events, blind>>
-----------------------------------------------------------------------------
(* reconcilePending.                                                         *)

Oldest(S) == {o \in S : Cardinality({n \in S : n < o}) < Take}
Recent == Pending \ aged

\* Faulty variant: only orders that can still be offered are looked at.
BeginSweepWaiting ==
    /\ At(Cron, "idle") /\ sweep = {} /\ Waiting # {}
    /\ sweep' = Oldest(Waiting)
    /\ UNCHANGED <<rows, time, provider, pc, history>>

BeginSweep ==
    /\ At(Cron, "idle") /\ sweep = {} /\ Recent # {}
    /\ sweep' = Oldest(Recent)
    /\ UNCHANGED <<rows, time, provider, pc, history>>

Visit(o) ==
    /\ At(Cron, "idle")
    /\ o \in sweep /\ \A n \in sweep : o <= n
    /\ sweep' = sweep \ {o}
    /\ Go(Cron, [Idle EXCEPT !.at = "ask", !.goal = "sweep", !.order = o])
    /\ UNCHANGED <<rows, time, provider, history>>

\* A call that throws, a transaction that is rolled back, or a restart: the
\* request ends where it stands, and a sweep does not go on to its other orders.
Break(a) ==
    /\ ~At(a, "idle")
    /\ End(a)
    /\ sweep' = IF a = Cron THEN {} ELSE sweep
    /\ UNCHANGED <<rows, time, provider, history>>
-----------------------------------------------------------------------------
(* The user at the payment page, the provider and time.                      *)

Becomes(o, state) ==
    /\ provider' = [provider EXCEPT ![o] = state]
    /\ UNCHANGED <<rows, time, pc, sweep, history>>

ChooseMethod(o) == o \in session /\ provider[o] = "open" /\ Becomes(o, "pending")
Pay(o) == o \in session /\ provider[o] \in {"open", "pending"} /\ Becomes(o, "settlement")
ProviderExpires(o) == provider[o] \in {"open", "pending"} /\ Becomes(o, "expire")

\* A notification has got through the webhook pipeline to its worker.
Notify(p, o) ==
    /\ At(p, "idle")
    /\ provider[o] \in Words
    /\ events < MaxEvents
    /\ events' = events + 1
    /\ Transact(p, "synced", o, provider[o])
    /\ UNCHANGED <<rows, time, provider, sweep, blind>>

Lapse(o) ==
    /\ o \in Waiting /\ \A n \in Waiting : o <= n
    /\ lapsed' = lapsed \cup {o}
    /\ UNCHANGED <<rows, aged, provider, pc, sweep, history>>

\* windowMinutes is 120, an order's session lasts 15.
Age(o) ==
    /\ o \in lapsed /\ o \in Recent /\ \A n \in Recent : o <= n
    /\ aged' = aged \cup {o}
    /\ UNCHANGED <<rows, lapsed, provider, pc, sweep, history>>

Provider(o) == ChooseMethod(o) \/ Pay(o) \/ ProviderExpires(o)
Time(o) == Lapse(o) \/ Age(o)

Request(p) ==
    \/ \E goal \in Goals : BeginSnap(p, goal)
    \/ BeginQris(p)
    \/ \E o \in Orders : BeginCancel(p, o) \/ BeginCheck(p, o)

Sync(a) == (\E answer \in Answers : Ask(a, answer)) \/ Apply(a) \/ Commit(a)

Step(p) ==
    \/ ReadPending(p) \/ ExpireLapsed(p) \/ ReplacePending(p)
    \/ Reuse(p) \/ DropUnusable(p)
    \/ (\E o \in Orders : CreateOrder(p, o))
    \/ OpenSession(p) \/ SaveSession(p) \/ LoseSave(p) \/ RefuseSession(p)
    \/ Sync(p)
    \/ (\E answer \in Answers, cancels \in BOOLEAN : CancelAtProvider(p, cancels, answer))
    \/ ApplyCancel(p)

Reconcile == BeginSweep \/ (\E o \in Orders : Visit(o)) \/ Sync(Cron)

\* Nothing more may begin, the bound on orders holds the rest back.
Finished ==
    /\ events = MaxEvents
    /\ \A p \in Procs : At(p, "idle") \/ At(p, "create")
    /\ UNCHANGED vars

Next ==
    \/ \E p \in Procs : Request(p) \/ Step(p) \/ \E o \in Orders : Notify(p, o)
    \/ Reconcile
    \/ \E a \in Actors : Break(a)
    \/ \E o \in Orders : CreateTransaction(o) \/ Provider(o) \/ Time(o)
    \/ Finished

Spec == Init /\ [][Next]_vars

\* The cron keeps firing and going on, and no order is where every sweep is cut
\* off: neither before the order is asked about nor before the answer is applied,
\* nor does the provider leave every question about an order it knows unanswered.
\* Nothing is assumed of the webhooks.
Known(o) == o \in session /\ ~IsSettled(status[o]) /\ provider[o] \in Words
AtOrder(o) == pc[Cron].order = o
Asked(o) == AtOrder(o) /\ \E answer \in IF Known(o) THEN Words ELSE Answers : Ask(Cron, answer)
Applied(o) == AtOrder(o) /\ (Known(o) => pc[Cron].answer \in Words) /\ Apply(Cron)
Committed(o) == AtOrder(o) /\ Commit(Cron)

FairSpec ==
    /\ Spec
    /\ WF_vars(Reconcile)
    /\ \A o \in Orders : SF_vars(Asked(o)) /\ SF_vars(Applied(o)) /\ SF_vars(Committed(o))
-----------------------------------------------------------------------------
PcRecords == [at: Steps, goal: Goals, order: Orders \cup {NoOrder}, first: BOOLEAN,
              had: BOOLEAN, saw: OrderStatuses \cup {Absent}, answer: Answers]

OrdersOK ==
    /\ status \in [Orders -> OrderStatuses \cup {Absent}]
    /\ session \subseteq Rows
    /\ lapsed \subseteq Rows
    /\ aged \subseteq lapsed
    /\ provider \in [Orders -> ProviderStates]
    /\ \A o \in Orders : provider[o] # "none" => o \in Rows
    /\ sweep \subseteq Rows

ActorsOK ==
    /\ pc \in [Actors -> PcRecords]
    /\ \A a \in Actors : pc[a].at \in {"idle", "read", "create"} \/ pc[a].order \in Rows

HistoryOK ==
    /\ events \in 0..MaxEvents
    /\ blind \in 0..events
    /\ crossed \subseteq Rows

TypeOK == OrdersOK /\ ActorsOK /\ HistoryOK

\* There is at most one pending order the dashboard can offer, through any
\* sequence of reuse, replacement, cancellation, refusal by the provider and
\* expiry, and one more for each creation that could not see another: the ones of
\* transactions/create, and requests that began while another request was still
\* about to create its order (createOrReuseSnapOrder, createQris).
OneOpenOrder == Cardinality(Waiting) <= 1 + blind

\* A paid order stays paid although the catch block of a failed session writes
\* FAILURE blindly and answers of the provider are applied late: nobody can have
\* paid an order before its session is stored.  Unless two writes of its status
\* overlap: two transactions that both read it before either locked it, or one
\* and a catch block whose session was stored after all.
PaidStaysPaid == [][\A o \in Paid \ crossed : IsSettled(status'[o])]_vars

\* Without a single webhook, the reconcile cron notices that a pending order was
\* paid ("Reconcile otomatis tetap berjalan lewat cron", the payment runbook),
\* although sweeps are cut off and the provider fails: once the order is among
\* the oldest a sweep takes, and before it is too old for a sweep.
PaymentIsNoticed ==
    \A o \in Orders :
        provider[o] = "settlement" /\ o \in Oldest(Recent) ~> o \notin Recent
=============================================================================
