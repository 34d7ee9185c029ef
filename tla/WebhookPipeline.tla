--------------------------- MODULE WebhookPipeline ---------------------------
(***************************************************************************)
(* The way of a Midtrans notification through the backend                  *)
(* (payments.controller.ts webhook, payments-ops.service.ts,               *)
(* payments.processor.ts): the inbox row, the BullMQ job, the worker that  *)
(* applies the status to the order, the bookkeeping around it, the alerts  *)
(* and the manual replay.                                                  *)
(*                                                                         *)
(* A notification is identified by its event key, so every delivery of the *)
(* same one is the same member of Notes.  The order transition is the one  *)
(* of PaymentOrders, reduced to what a worker sees of it: a status read    *)
(* first and written later, and the business effect booked with it.        *)
(***************************************************************************)
EXTENDS PaymentStatus, Sequences, FiniteSets

CONSTANTS Notes,          \* valid notifications, one per event key
          Forged,         \* notifications refused for signature or fields
          Orders,         \* order ids the notifications name
          OrderOf,        \* notification -> order id
          Asks,           \* notification -> the status it maps to
          Attempts,       \* PAYMENT_QUEUE_ATTEMPTS
          Concurrency,    \* PAYMENT_QUEUE_CONCURRENCY
          Faults,         \* what may go wrong: "enqueue", "transition",
                          \* "bookkeeping", "worker"
          MaxDeliveries,  \* bound: deliveries of one notification
          MaxReplays      \* bound: manual replays of one notification

ASSUME PipelineAssumption ==
    /\ Notes \cap Forged = {}
    /\ OrderOf \in [Notes -> Orders]
    /\ Asks \in [Notes -> RequestedStatuses]
    /\ Attempts \in Nat \ {0}
    /\ Concurrency \in Nat \ {0}
    /\ MaxDeliveries \in Nat
    /\ MaxReplays \in Nat

VARIABLES row,        \* notification -> its WebhookInbox row
          delivered,  \* notification -> deliveries (1 + duplicateCount)
          posting,    \* jobs whose request has yet to call queue.add
          job,        \* job id -> the job as BullMQ and its worker hold it
          status,     \* order -> PaymentOrder.status, "ABSENT" without a row
          booked,     \* orders whose business effect has been booked
          alert       \* alert key -> PaymentOpsAlert.status, "none" before it

vars == <<row, delivered, posting, job, status, booked, alert>>

Absent == "ABSENT"
NoRow == [state |-> Absent, attempts |-> 0]

\* <<n, 0>> is the job of the delivery itself, <<n, k>> that of replay k.
Jobs == Notes \X (0..MaxReplays)
AlertKeys == Notes \cup Orders   \* per webhook and per order

Resting == {"none", "waiting", "done", "dead"}
Running == {"picked", "started", "read", "ran", "completed", "broken", "failing"}
Live(j) == job[j].at \in Running \cup {"waiting"}

\* `todo' is the sequence of alert updates the worker is about to make.
NoJob == [at |-> "none", failures |-> 0, stalls |-> 0,
          seen |-> Absent, result |-> "none", todo |-> <<>>]

Flag(n) == <<[key |-> n, to |-> "open"], [key |-> OrderOf[n], to |-> "open"]>>
Clear(n) == <<[key |-> n, to |-> "resolved"], [key |-> OrderOf[n], to |-> "resolved"]>>

\* An order has its row before the provider hears of it, or never gets one: the
\* notification is about an order of somebody else.
Init ==
    /\ row = [n \in Notes \cup Forged |-> NoRow]
    /\ delivered = [n \in Notes \cup Forged |-> 0]
    /\ posting = {}
    /\ job = [j \in Jobs |-> NoJob]
    /\ status \in [Orders -> {"PENDING", Absent}]
    /\ booked = {}
    /\ alert = [k \in AlertKeys |-> "none"]
-----------------------------------------------------------------------------
(* The webhook request and the admin's replay.                               *)

\* Every delivery is counted; the insert and its unique event key decide
\* which one is the first.
Arrive(n) ==
    /\ delivered[n] < MaxDeliveries
    /\ delivered' = [delivered EXCEPT ![n] = @ + 1]

Deliver(n) ==
    /\ Arrive(n)
    /\ row[n].state = Absent
    /\ row' = [row EXCEPT ![n].state = "RECEIVED"]
    /\ posting' = posting \cup {<<n, 0>>}
    /\ UNCHANGED <<job, status, booked, alert>>

\* P2002 on the event key: counted, answered "duplicate webhook ignored".
DeliverDuplicate(n) ==
    /\ Arrive(n)
    /\ row[n].state # Absent
    /\ UNCHANGED <<row, posting, job, status, booked, alert>>

\* Missing fields or a wrong signature: stored as INVALID, never enqueued.
Reject(n) ==
    /\ Arrive(n)
    /\ row' = [row EXCEPT ![n].state = "INVALID"]
    /\ UNCHANGED <<posting, job, status, booked, alert>>

\* replayWebhook: only an INVALID row is refused, one in progress is not.
Replay(n, k) ==
    /\ row[n].state \notin {Absent, "INVALID"}
    /\ <<n, k>> \notin posting
    /\ job[<<n, k>>].at = "none"
    /\ k = 1 \/ job[<<n, k-1>>].at # "none" \/ <<n, k-1>> \in posting
    /\ row' = [row EXCEPT ![n].state = "RECEIVED"]
    /\ posting' = posting \cup {<<n, k>>}
    /\ UNCHANGED <<delivered, job, status, booked, alert>>

\* queue.add, after the row was committed.
Enqueue(j) ==
    /\ j \in posting
    /\ posting' = posting \ {j}
    /\ job' = [job EXCEPT ![j] = [NoJob EXCEPT !.at = "waiting"]]
    /\ UNCHANGED <<row, delivered, status, booked, alert>>

\* Redis refuses, or the process dies between the two: the request fails.
LoseEnqueue(j) ==
    /\ "enqueue" \in Faults
    /\ j \in posting
    /\ posting' = posting \ {j}
    /\ UNCHANGED <<row, delivered, job, status, booked, alert>>
-----------------------------------------------------------------------------
(* PaymentsProcessor.process.                                                *)

Pick(j) ==
    /\ job[j].at = "waiting"
    /\ Cardinality({i \in Jobs : job[i].at \in Running}) < Concurrency
    /\ job' = [job EXCEPT ![j].at = "picked"]
    /\ UNCHANGED <<row, delivered, posting, status, booked, alert>>

MarkStarted(j) ==
    /\ job[j].at = "picked"
    /\ row' = [row EXCEPT ![j[1]] = [state |-> "PROCESSING", attempts |-> @.attempts + 1]]
    /\ job' = [job EXCEPT ![j].at = "started",
                          ![j].todo = <<[key |-> j[1], to |-> "resolved"]>>]
    /\ UNCHANGED <<delivered, posting, status, booked, alert>>

\* openOrUpdateAlert or resolveAlert on the next key: opening always opens,
\* resolving leaves an alert alone that never existed or is resolved.
SyncAlert(j) ==
    /\ job[j].todo # <<>>
    /\ LET step == Head(job[j].todo)
       IN  alert' = [alert EXCEPT ![step.key] =
                        IF step.to = "open" \/ @ # "none" THEN step.to ELSE @]
    /\ job' = [job EXCEPT ![j].todo = Tail(@)]
    /\ UNCHANGED <<row, delivered, posting, status, booked>>

\* applyOrderTransition's first SELECT.
ReadOrder(j) ==
    /\ job[j].at = "started" /\ job[j].todo = <<>>
    /\ LET seen == status[OrderOf[j[1]]]
       IN  job' = [job EXCEPT ![j].seen = seen,
                      ![j].at = IF seen = Absent THEN "ran" ELSE "read",
                      ![j].result = IF seen = Absent THEN "order_not_found" ELSE @]
    /\ UNCHANGED <<row, delivered, posting, status, booked, alert>>

\* The verdict is taken on the status read before the row lock.
Applied(j) == Verdict(job[j].seen, Asks[j[1]], FALSE) = "applied"

\* Faulty variant: the business effect is booked after the status is committed.
TransitionThenBook(j) ==
    /\ job[j].at = "read"
    /\ status' = IF Applied(j) THEN [status EXCEPT ![OrderOf[j[1]]] = Asks[j[1]]] ELSE status
    /\ booked' \in {booked, booked \cup {OrderOf[j[1]]}}

\* What the transaction leaves behind when it commits.
Transition(j) ==
    /\ job[j].at = "read"
    /\ IF Applied(j)
       THEN /\ status' = [status EXCEPT ![OrderOf[j[1]]] = Asks[j[1]]]
            /\ booked' = IF IsSuccess(job[j].seen, Asks[j[1]])
                         THEN booked \cup {OrderOf[j[1]]} ELSE booked
       ELSE UNCHANGED <<status, booked>>

CommitTransition(j) ==
    /\ Transition(j)
    /\ job' = [job EXCEPT ![j].at = "ran",
                          ![j].result = IF Applied(j) THEN "applied" ELSE "ignored"]
    /\ UNCHANGED <<row, delivered, posting, alert>>

\* The transaction is rolled back, or it commits and its answer is lost.
BreakTransition(j) ==
    /\ "transition" \in Faults
    /\ Transition(j) \/ (job[j].at = "read" /\ UNCHANGED <<status, booked>>)
    /\ job' = [job EXCEPT ![j].at = "broken"]
    /\ UNCHANGED <<row, delivered, posting, alert>>

\* classifyCompletion.
Classify(result) ==
    CASE result = "applied" -> "PROCESSED"
      [] result = "ignored" -> "IGNORED"
      [] OTHER              -> "FAILED"

MarkCompleted(j) ==
    /\ job[j].at = "ran"
    /\ LET final == Classify(job[j].result)
       IN  /\ row' = [row EXCEPT ![j[1]].state = final]
           /\ job' = [job EXCEPT ![j].at = "completed",
                         ![j].todo = IF final = "FAILED" THEN Flag(j[1]) ELSE Clear(j[1])]
    /\ UNCHANGED <<delivered, posting, status, booked, alert>>

FinishJob(j) ==
    /\ job[j].at = "completed" /\ job[j].todo = <<>>
    /\ job' = [job EXCEPT ![j] = [NoJob EXCEPT !.at = "done"]]
    /\ UNCHANGED <<row, delivered, posting, status, booked, alert>>

\* Faulty variant: the catch block only raises the alerts.
MarkFailedByAlert(j) ==
    /\ job[j].at = "broken"
    /\ job' = [job EXCEPT ![j].at = "failing", ![j].todo = Flag(j[1])]
    /\ UNCHANGED <<row, delivered, posting, status, booked, alert>>

\* The catch block.
MarkFailed(j) ==
    /\ job[j].at = "broken"
    /\ row' = [row EXCEPT ![j[1]].state = "FAILED"]
    /\ job' = [job EXCEPT ![j].at = "failing", ![j].todo = Flag(j[1])]
    /\ UNCHANGED <<delivered, posting, status, booked, alert>>

\* Faulty variants: one attempt too many, and attempts that are not counted.
GiveBackOnceMore(j) ==
    /\ job' = [job EXCEPT ![j] =
          [NoJob EXCEPT !.at = IF job[j].failures <= Attempts THEN "waiting" ELSE "dead",
                        !.failures = job[j].failures + 1,
                        !.stalls = job[j].stalls]]
    /\ UNCHANGED <<row, delivered, posting, status, booked, alert>>

GiveBackUncounted(j) ==
    /\ job' = [job EXCEPT ![j] = [NoJob EXCEPT !.at = "waiting"]]
    /\ UNCHANGED <<row, delivered, posting, status, booked, alert>>

\* The handler throws: BullMQ retries it until its attempts are used up.
GiveBack(j) ==
    /\ job' = [job EXCEPT ![j] =
          [NoJob EXCEPT !.at = IF job[j].failures + 1 < Attempts THEN "waiting" ELSE "dead",
                        !.failures = job[j].failures + 1,
                        !.stalls = job[j].stalls]]
    /\ UNCHANGED <<row, delivered, posting, status, booked, alert>>

ThrowAgain(j) ==
    /\ job[j].at = "failing" /\ job[j].todo = <<>>
    /\ GiveBack(j)

\* A database error in the bookkeeping: inside the try it leads to the catch
\* block, inside the catch block it leaves the handler.
BreakBookkeeping(j) ==
    /\ "bookkeeping" \in Faults
    /\ \/ /\ job[j].at \in {"picked", "ran"} \/ (job[j].at \in {"started", "completed"} /\ job[j].todo # <<>>)
          /\ job' = [job EXCEPT ![j].at = "broken", ![j].todo = <<>>]
          /\ UNCHANGED <<row, delivered, posting, status, booked, alert>>
       \/ /\ job[j].at = "broken" \/ (job[j].at = "failing" /\ job[j].todo # <<>>)
          /\ GiveBack(j)

\* The worker process dies.  BullMQ finds the job stalled: once it is put
\* back, the second time it is failed without the handler being asked.
Crash(j) ==
    /\ "worker" \in Faults
    /\ job[j].at \in Running
    /\ job' = [job EXCEPT ![j] =
          [NoJob EXCEPT !.at = IF job[j].stalls > 0 THEN "dead" ELSE "waiting",
                        !.failures = job[j].failures,
                        !.stalls = 1]]
    /\ UNCHANGED <<row, delivered, posting, status, booked, alert>>

Work(j) ==
    \/ Pick(j) \/ MarkStarted(j) \/ SyncAlert(j)
    \/ ReadOrder(j) \/ CommitTransition(j)
    \/ MarkCompleted(j) \/ FinishJob(j)
    \/ MarkFailed(j) \/ ThrowAgain(j)

Break(j) == BreakTransition(j) \/ BreakBookkeeping(j) \/ Crash(j)

Request ==
    \/ \E n \in Notes : Deliver(n) \/ DeliverDuplicate(n)
    \/ \E n \in Forged : Reject(n)
    \/ \E n \in Notes, k \in 1..MaxReplays : Replay(n, k)
    \/ \E j \in Jobs : Enqueue(j) \/ LoseEnqueue(j)

\* Every delivery is made, everything queued has been worked off.
Quiet ==
    /\ \A n \in Notes \cup Forged : delivered[n] = MaxDeliveries
    /\ posting = {}
    /\ \A j \in Jobs : ~Live(j)
    /\ UNCHANGED vars

Next == Request \/ (\E j \in Jobs : Work(j) \/ Break(j)) \/ Quiet

Spec == Init /\ [][Next]_vars

\* The request goes on to queue.add; the queue is first in first out, so a
\* waiting job is picked although the workers are busy again and again.
Fairness == \A j \in Jobs : WF_vars(Enqueue(j)) /\ SF_vars(Work(j))
FairSpec == Spec /\ Fairness
-----------------------------------------------------------------------------
RowStates == {Absent, "RECEIVED", "PROCESSING", "PROCESSED", "IGNORED", "FAILED", "INVALID"}
AlertStates == {"none", "open", "acknowledged", "resolved"}
AlertSteps == [key: AlertKeys, to: {"open", "resolved"}]
Results == {"none", "applied", "ignored", "order_not_found"}

JobRecords == [at: Resting \cup Running, failures: 0..Attempts, stalls: {0, 1},
               seen: Statuses \cup {Absent}, result: Results, todo: Seq(AlertSteps)]

TypeOK ==
    /\ row \in [Notes \cup Forged -> [state: RowStates, attempts: Nat]]
    /\ delivered \in [Notes \cup Forged -> 0..MaxDeliveries]
    /\ posting \subseteq Jobs
    /\ job \in [Jobs -> JobRecords]
    /\ status \in [Orders -> Statuses \cup {Absent}]
    /\ booked \subseteq Orders
    /\ alert \in [AlertKeys -> AlertStates]

\* No payment is written off: when the inbox says that the notification of a
\* settlement is dealt with, as processed or as ignored, the order's business
\* effect has been booked, whatever was retried, replayed, duplicated,
\* reordered or cut off by a crash (classifyCompletion, applyOrderTransition).
PaidIsBooked ==
    \A n \in Notes :
        IsSettled(Asks[n]) /\ row[n].state \in {"PROCESSED", "IGNORED"}
            => OrderOf[n] \in booked

\* Every job comes to an end, however often its handler throws or its worker
\* dies: retries and stalls are both bounded (getQueueOptions).
JobsEnd == \A j \in Jobs : Live(j) ~> ~Live(j)

\* Every notification that was recorded is dealt with: its row reaches a final
\* state and no job is left that would change it.
Concluded(n) ==
    /\ row[n].state \in {"PROCESSED", "IGNORED", "FAILED"}
    /\ \A j \in Jobs : j[1] = n => ~Live(j) /\ j \notin posting

EveryNoteConcluded == \A n \in Notes : delivered[n] > 0 ~> Concluded(n)
=============================================================================
