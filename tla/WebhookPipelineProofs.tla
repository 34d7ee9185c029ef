------------------------ MODULE WebhookPipelineProofs ------------------------
(***************************************************************************)
(* Proofs about WebhookPipeline, alone and together with the monitor and   *)
(* the admins of PaymentAlerts: its types, and that no payment is written  *)
(* off, for every number of notifications, orders, retries, replays and    *)
(* workers and every combination of faults.                                *)
(***************************************************************************)
EXTENDS PaymentAlerts, TLAPS

\* A job that still runs has attempts left.
AttemptsLeft == \A j \in Jobs : Live(j) => job[j].failures < Attempts

TypeInv == TypeOK /\ AttemptsLeft

\* What every step that touches one job has to show of it.
Fine(r) == r \in JobRecords /\ (r.at \in Running \cup {"waiting"} => r.failures < Attempts)

\* The parts of a job id.
LEMMA JobParts == ASSUME NEW j \in Jobs PROVE j[1] \in Notes /\ OrderOf[j[1]] \in Orders
  BY PipelineAssumption DEF Jobs

\* The alert updates a worker queues up are well-formed.
LEMMA StepsTyped ==
  ASSUME NEW n \in Notes
  PROVE  /\ Flag(n) \in Seq(AlertSteps) /\ Clear(n) \in Seq(AlertSteps)
         /\ <<[key |-> n, to |-> "resolved"]>> \in Seq(AlertSteps)
         /\ <<>> \in Seq(AlertSteps)
<1>1. OrderOf[n] \in Orders
  BY PipelineAssumption
<1>2. \A to \in {"open", "resolved"} :
        [key |-> n, to |-> to] \in AlertSteps /\ [key |-> OrderOf[n], to |-> to] \in AlertSteps
  BY <1>1 DEF AlertSteps, AlertKeys
<1> QED
  BY <1>2 DEF Flag, Clear

\* The record a job starts from.
LEMMA NoJobTyped == NoJob \in JobRecords
  BY PipelineAssumption DEF NoJob, JobRecords, Resting, Results, Absent

\* A step that replaces one job by a fine one keeps all jobs fine.
LEMMA OneJob ==
  ASSUME TypeInv, NEW j \in Jobs, NEW r, Fine(r), job' = [job EXCEPT ![j] = r]
  PROVE  job' \in [Jobs -> JobRecords] /\ AttemptsLeft'
  BY DEF TypeInv, TypeOK, AttemptsLeft, Live, Fine

\* What TypeInv says of a single job.
LEMMA JobFine == ASSUME TypeInv, NEW j \in Jobs PROVE Fine(job[j])
  BY DEF TypeInv, TypeOK, AttemptsLeft, Live, Fine
-----------------------------------------------------------------------------
(* Each step of a job replaces that one job by a fine record.                *)

\* What a step of job j does to the jobs, whichever step it is.
Replaces(j) == \E r : Fine(r) /\ job' = [job EXCEPT ![j] = r]

\* A failed attempt goes back to the queue or ends the job.
LEMMA GiveBackReplaces ==
  ASSUME TypeInv, NEW j \in Jobs, job[j].at \in Running, GiveBack(j)
  PROVE  Replaces(j)
<1> DEFINE at == IF job[j].failures + 1 < Attempts THEN "waiting" ELSE "dead"
           r == [NoJob EXCEPT !.at = at, !.failures = job[j].failures + 1,
                              !.stalls = job[j].stalls]
<1>1. Fine(job[j]) /\ job[j].failures < Attempts
  BY JobFine DEF Fine
<1>2. Fine(r)
  <2>1. /\ job[j].failures + 1 \in 0..Attempts /\ job[j].stalls \in {0, 1}
        /\ at = "waiting" => job[j].failures + 1 < Attempts
    BY <1>1, PipelineAssumption DEF Fine, JobRecords
  <2>2. at \in {"waiting", "dead"}
    OBVIOUS
  <2> HIDE DEF at
  <2>3. r \in JobRecords
    BY <2>1, <2>2, NoJobTyped DEF JobRecords, Resting
  <2>4. r.at = at /\ r.failures = job[j].failures + 1
    BY DEF NoJob
  <2> QED
    BY <2>1, <2>2, <2>3, <2>4 DEF Fine, Running
<1>3. job' = [job EXCEPT ![j] = r]
  BY DEF GiveBack
<1> QED
  BY <1>2, <1>3 DEF Replaces

\* So does each step of the worker,
LEMMA WorkReplaces == ASSUME TypeInv, NEW j \in Jobs, Work(j) PROVE Replaces(j)
<1> USE DEF Replaces
<1>0. /\ Fine(job[j]) /\ j[1] \in Notes /\ OrderOf[j[1]] \in Orders
      /\ job \in [Jobs -> JobRecords]
  BY JobFine, JobParts DEF TypeInv, TypeOK
<1>1. CASE Pick(j)
  <2> DEFINE r == [job[j] EXCEPT !.at = "picked"]
  <2>1. Fine(r) /\ job' = [job EXCEPT ![j] = r]
    BY <1>0, <1>1 DEF Pick, Fine, JobRecords, Running, Resting
  <2> QED BY <2>1
<1>2. CASE MarkStarted(j)
  <2> DEFINE steps == <<[key |-> j[1], to |-> "resolved"]>>
             r == [job[j] EXCEPT !.at = "started", !.todo = steps]
  <2>1. steps \in Seq(AlertSteps)
    BY <1>0, StepsTyped
  <2> HIDE DEF steps
  <2>2. Fine(r)
    BY <1>0, <1>2, <2>1 DEF MarkStarted, Fine, JobRecords, Running, Resting
  <2>3. job' = [job EXCEPT ![j] = r]
    BY <1>0, <1>2 DEF MarkStarted, JobRecords, steps
  <2> QED BY <2>2, <2>3
<1>3. CASE SyncAlert(j)
  <2> DEFINE r == [job[j] EXCEPT !.todo = Tail(@)]
  <2>1. Tail(job[j].todo) \in Seq(AlertSteps)
    BY <1>0, <1>3 DEF SyncAlert, Fine, JobRecords
  <2>2. Fine(r) /\ job' = [job EXCEPT ![j] = r]
    BY <1>0, <1>3, <2>1 DEF SyncAlert, Fine, JobRecords
  <2> QED BY <2>2
<1>4. CASE ReadOrder(j)
  <2> DEFINE s == status[OrderOf[j[1]]]
             at == IF s = Absent THEN "ran" ELSE "read"
             result == IF s = Absent THEN "order_not_found" ELSE job[j].result
             r == [job[j] EXCEPT !.seen = s, !.at = at, !.result = result]
  <2>1. s \in Statuses \cup {Absent} /\ at \in {"ran", "read"} /\ result \in Results
    BY <1>0 DEF TypeInv, TypeOK, Fine, JobRecords, Results
  <2>2. job' = [job EXCEPT ![j] = r]
    BY <1>0, <1>4 DEF ReadOrder, JobRecords
  <2>a. job[j].failures < Attempts
    BY <1>0, <1>4 DEF ReadOrder, Fine, Running
  <2> HIDE DEF s, at, result
  <2>3. Fine(r)
    BY <1>0, <2>a, <2>1 DEF Fine, JobRecords, Running, Resting
  <2> QED BY <2>2, <2>3
<1>5. CASE CommitTransition(j)
  <2> DEFINE result == IF Applied(j) THEN "applied" ELSE "ignored"
             r == [job[j] EXCEPT !.at = "ran", !.result = result]
  <2>1. result \in Results
    BY DEF Results
  <2>2. job' = [job EXCEPT ![j] = r]
    BY <1>0, <1>5 DEF CommitTransition, JobRecords
  <2>a. job[j].failures < Attempts
    BY <1>0, <1>5 DEF CommitTransition, Transition, Fine, Running
  <2> HIDE DEF result
  <2>3. Fine(r)
    BY <1>0, <2>a, <2>1 DEF Fine, JobRecords, Running, Resting
  <2> QED BY <2>2, <2>3
<1>6. CASE MarkCompleted(j)
  <2> DEFINE steps == IF Classify(job[j].result) = "FAILED" THEN Flag(j[1]) ELSE Clear(j[1])
             r == [job[j] EXCEPT !.at = "completed", !.todo = steps]
  <2>1. steps \in Seq(AlertSteps)
    BY <1>0, StepsTyped
  <2>2. job' = [job EXCEPT ![j] = r]
    BY <1>0, <1>6 DEF MarkCompleted, JobRecords
  <2>a. job[j].failures < Attempts
    BY <1>0, <1>6 DEF MarkCompleted, Fine, Running
  <2> HIDE DEF steps
  <2>3. Fine(r)
    BY <1>0, <2>a, <2>1 DEF Fine, JobRecords, Running, Resting
  <2> QED BY <2>2, <2>3
<1>7. CASE FinishJob(j)
  <2> DEFINE r == [NoJob EXCEPT !.at = "done"]
  <2>1. Fine(r) /\ job' = [job EXCEPT ![j] = r]
    BY <1>7, NoJobTyped DEF FinishJob, Fine, JobRecords, Running, Resting
  <2> QED BY <2>1
<1>8. CASE MarkFailed(j)
  <2> DEFINE steps == Flag(j[1])
             r == [job[j] EXCEPT !.at = "failing", !.todo = steps]
  <2>1. steps \in Seq(AlertSteps)
    BY <1>0, StepsTyped
  <2>2. job' = [job EXCEPT ![j] = r]
    BY <1>0, <1>8 DEF MarkFailed, JobRecords
  <2>a. job[j].failures < Attempts
    BY <1>0, <1>8 DEF MarkFailed, Fine, Running
  <2> HIDE DEF steps
  <2>3. Fine(r)
    BY <1>0, <2>a, <2>1 DEF Fine, JobRecords, Running, Resting
  <2> QED BY <2>2, <2>3
<1>9. CASE ThrowAgain(j)
  BY <1>9, GiveBackReplaces DEF ThrowAgain, Running
<1> QED
  BY <1>1, <1>2, <1>3, <1>4, <1>5, <1>6, <1>7, <1>8, <1>9 DEF Work

\* and each fault.
LEMMA BreakReplaces == ASSUME TypeInv, NEW j \in Jobs, Break(j) PROVE Replaces(j)
<1> USE DEF Replaces
<1>0. /\ Fine(job[j]) /\ job \in [Jobs -> JobRecords]
  BY JobFine DEF TypeInv, TypeOK
<1>1. CASE BreakTransition(j)
  <2> DEFINE r == [job[j] EXCEPT !.at = "broken"]
  <2>1. Fine(r) /\ job' = [job EXCEPT ![j] = r]
    BY <1>0, <1>1 DEF BreakTransition, Transition, Fine, JobRecords, Running, Resting
  <2> QED BY <2>1
<1>2. CASE BreakBookkeeping(j)
  <2>1. CASE GiveBack(j) /\ job[j].at \in {"broken", "failing"}
    BY <2>1, GiveBackReplaces DEF Running
  <2>2. CASE /\ job[j].at \in {"picked", "ran", "started", "completed"}
             /\ job' = [job EXCEPT ![j].at = "broken", ![j].todo = <<>>]
    <3> DEFINE r == [job[j] EXCEPT !.at = "broken", !.todo = <<>>]
    <3>1. <<>> \in Seq(AlertSteps)
      OBVIOUS
    <3>2. Fine(r) /\ job' = [job EXCEPT ![j] = r]
      BY <1>0, <2>2, <3>1 DEF Fine, JobRecords, Running, Resting
    <3> QED BY <3>2
  <2> QED BY <1>2, <2>1, <2>2 DEF BreakBookkeeping
<1>3. CASE Crash(j)
  <2> DEFINE at == IF job[j].stalls > 0 THEN "dead" ELSE "waiting"
             r == [NoJob EXCEPT !.at = at, !.failures = job[j].failures, !.stalls = 1]
  <2>1. job' = [job EXCEPT ![j] = r]
    BY <1>3 DEF Crash
  <2>2. /\ job[j].failures < Attempts /\ job[j].failures \in 0..Attempts
        /\ at \in {"dead", "waiting"}
    BY <1>0, <1>3 DEF Crash, Fine, JobRecords
  <2> HIDE DEF at
  <2>3. r \in JobRecords /\ r.failures = job[j].failures
    BY <2>2, NoJobTyped DEF JobRecords, Resting, NoJob
  <2> QED BY <2>1, <2>2, <2>3 DEF Fine
<1> QED
  BY <1>1, <1>2, <1>3 DEF Break
-----------------------------------------------------------------------------
\* The typing invariant holds initially
LEMMA TypeInit == Init => TypeInv
<1> SUFFICES ASSUME Init PROVE TypeInv
  OBVIOUS
<1>1. TypeOK
  BY NoJobTyped, PipelineAssumption
     DEF Init, TypeOK, NoRow, RowStates, AlertStates, Statuses, Absent
<1>2. AttemptsLeft
  BY <1>1, PipelineAssumption DEF Init, AttemptsLeft, Live, NoJob, Running
<1> QED BY <1>1, <1>2 DEF TypeInv

\* Requests touch the inbox and the queue only.
LEMMA RequestTyped == TypeInv /\ Request => TypeInv'
<1> SUFFICES ASSUME TypeInv, Request PROVE TypeInv'
  OBVIOUS
<1> USE DEF TypeInv, TypeOK, AttemptsLeft
<1>1. ASSUME NEW n \in Notes \cup Forged, Arrive(n)
      PROVE  delivered' \in [Notes \cup Forged -> 0..MaxDeliveries]
  BY <1>1, PipelineAssumption DEF Arrive
<1>2. ASSUME NEW n \in Notes, NEW k \in 0..MaxReplays PROVE <<n, k>> \in Jobs
  BY DEF Jobs
<1>3. ASSUME NEW n \in Notes, DeliverDuplicate(n) PROVE TypeInv'
  BY <1>1, <1>3 DEF DeliverDuplicate, Arrive, RowStates, Live
<1>8. ASSUME NEW n \in Notes, Deliver(n) PROVE TypeInv'
  <2>1. <<n, 0>> \in Jobs
    BY <1>2, PipelineAssumption
  <2>2. posting' \subseteq Jobs
    BY <2>1, <1>8 DEF Deliver
  <2>3. row' \in [Notes \cup Forged -> [state: RowStates, attempts: Nat]]
    BY <1>8 DEF Deliver, RowStates
  <2>4. delivered' \in [Notes \cup Forged -> 0..MaxDeliveries]
    BY <1>1, <1>8 DEF Deliver
  <2> QED
    BY <1>8, <2>2, <2>3, <2>4 DEF Deliver, Live
<1>4. ASSUME NEW n \in Forged, Reject(n) PROVE TypeInv'
  BY <1>1, <1>4 DEF Reject, Arrive, RowStates, Live
<1>5. ASSUME NEW n \in Notes, NEW k \in 1..MaxReplays, Replay(n, k) PROVE TypeInv'
  BY <1>2, <1>5, PipelineAssumption DEF Replay, RowStates, Live
<1>6. ASSUME NEW j \in Jobs, Enqueue(j) PROVE TypeInv'
  <2> DEFINE r == [NoJob EXCEPT !.at = "waiting"]
  <2>1. r \in JobRecords
    BY NoJobTyped DEF JobRecords, Resting
  <2>2. r.failures = 0
    BY DEF NoJob
  <2>3. Fine(r)
    BY <2>1, <2>2, PipelineAssumption DEF Fine
  <2>4. job' = [job EXCEPT ![j] = r]
    BY <1>6 DEF Enqueue
  <2> HIDE DEF r
  <2>5. job' \in [Jobs -> JobRecords] /\ AttemptsLeft'
    BY <2>3, <2>4, OneJob
  <2> QED
    BY <1>6, <2>5 DEF Enqueue
<1>7. ASSUME NEW j \in Jobs, LoseEnqueue(j) PROVE TypeInv'
  BY <1>7 DEF LoseEnqueue, Live
<1> QED
  BY <1>3, <1>4, <1>5, <1>6, <1>7, <1>8 DEF Request

\* What the steps of a job do to everything but the jobs.
LEMMA JobStepTyped ==
  ASSUME TypeInv, NEW j \in Jobs, Work(j) \/ Break(j)
  PROVE  TypeInv'
<1>1. PICK r : Fine(r) /\ job' = [job EXCEPT ![j] = r]
  BY WorkReplaces, BreakReplaces DEF Replaces
<1>2. job' \in [Jobs -> JobRecords] /\ AttemptsLeft'
  BY <1>1, OneJob
<1>3. /\ j[1] \in Notes /\ OrderOf[j[1]] \in Orders /\ Asks[j[1]] \in Statuses
      /\ j[1] \in Notes \cup Forged
  BY JobParts, PipelineAssumption DEF RequestedStatuses, MapMidtransStatus, Statuses, ProviderWords
<1>4. delivered' = delivered /\ posting' = posting
  BY DEF Work, Break, Pick, MarkStarted, SyncAlert, ReadOrder, CommitTransition, MarkCompleted,
         FinishJob, MarkFailed, ThrowAgain, GiveBack, BreakTransition, BreakBookkeeping, Crash
<1>5. row' \in [Notes \cup Forged -> [state: RowStates, attempts: Nat]]
  <2>1. \/ row' = row
        \/ row' = [row EXCEPT ![j[1]] = [state |-> "PROCESSING", attempts |-> @.attempts + 1]]
        \/ \E s \in {"PROCESSED", "IGNORED", "FAILED"} : row' = [row EXCEPT ![j[1]].state = s]
    BY DEF Work, Break, Pick, MarkStarted, SyncAlert, ReadOrder, CommitTransition, MarkCompleted,
         FinishJob, MarkFailed, ThrowAgain, GiveBack, BreakTransition, BreakBookkeeping, Crash,
         Classify
  <2> QED
    BY <1>3, <2>1 DEF TypeInv, TypeOK, RowStates
<1>6. /\ status' \in [Orders -> Statuses \cup {Absent}]
      /\ booked' \subseteq Orders
  <2>1. UNCHANGED <<status, booked>> \/ Transition(j)
    BY DEF Work, Break, Pick, MarkStarted, SyncAlert, ReadOrder, CommitTransition, MarkCompleted,
         FinishJob, MarkFailed, ThrowAgain, GiveBack, BreakTransition, BreakBookkeeping, Crash
  <2> QED
    BY <1>3, <2>1 DEF TypeInv, TypeOK, Transition
<1>7. alert' \in [AlertKeys -> AlertStates]
  <2>1. CASE SyncAlert(j)
    <3>1. Head(job[j].todo) \in AlertSteps
      BY <2>1 DEF SyncAlert, TypeInv, TypeOK, JobRecords
    <3> QED
      BY <2>1, <3>1 DEF SyncAlert, AlertSteps, AlertStates, TypeInv, TypeOK
  <2>2. CASE alert' = alert
    BY <2>2 DEF TypeInv, TypeOK
  <2> QED
    BY <2>1, <2>2
    DEF Work, Break, Pick, MarkStarted, ReadOrder, CommitTransition, MarkCompleted,
         FinishJob, MarkFailed, ThrowAgain, GiveBack, BreakTransition, BreakBookkeeping, Crash
<1> QED
  BY <1>2, <1>4, <1>5, <1>6, <1>7 DEF TypeInv, TypeOK

\* and every step keeps it.
LEMMA TypeStep == TypeInv /\ [Next]_vars => TypeInv'
<1> SUFFICES ASSUME TypeInv, [Next]_vars PROVE TypeInv'
  OBVIOUS
<1>1. CASE Quiet \/ UNCHANGED vars
  BY <1>1 DEF Quiet, vars, TypeInv, TypeOK, AttemptsLeft, Live
<1> QED
  BY <1>1, RequestTyped, JobStepTyped DEF Next

\* Every reachable state is well-typed, whatever fails and however often.
THEOREM PipelineTypeCorrect == Spec => []TypeOK
<1>1. Spec => []TypeInv
  BY TypeInit, TypeStep, PTL DEF Spec
<1>2. TypeInv => TypeOK
  BY DEF TypeInv
<1> QED BY <1>1, <1>2, PTL
-----------------------------------------------------------------------------
(* PaidIsBooked.  A row is closed by what its worker was told, the worker    *)
(* was told by a verdict on the status it had read, and that status may be   *)
(* overwritten meanwhile: the invariant follows the fact "the effect is      *)
(* booked", which is never undone, along that way.                           *)

\* A settled order has had its effect booked, at the time of reading too.
SeenIsBooked ==
    /\ \A o \in Orders : IsSettled(status[o]) => o \in booked
    /\ \A j \in Jobs : IsSettled(job[j].seen) => OrderOf[j[1]] \in booked

\* So has one whose settlement a worker believes to be dealt with.
ResultIsBooked ==
    \A j \in Jobs :
        IsSettled(Asks[j[1]]) /\ job[j].result \in {"applied", "ignored"}
            => OrderOf[j[1]] \in booked

Booking == TypeInv /\ SeenIsBooked /\ ResultIsBooked /\ PaidIsBooked

\* The booking invariant holds initially.
LEMMA BookingInit == Init => Booking
<1> SUFFICES ASSUME Init PROVE Booking
  OBVIOUS
<1>1. SeenIsBooked
  BY DEF Init, SeenIsBooked, IsSettled, SettledStatuses, NoJob, Absent
<1>2. ResultIsBooked
  BY DEF Init, ResultIsBooked, NoJob
<1>3. PaidIsBooked
  BY DEF Init, PaidIsBooked, NoRow, Absent
<1> QED BY <1>1, <1>2, <1>3, TypeInit DEF Booking

\* An ignored settlement found the order settled: the only verdict against it
\* is that the order has that status already.
LEMMA IgnoredWasSettled ==
  ASSUME NEW current, NEW next \in RequestedStatuses, IsSettled(next),
         Verdict(current, next, FALSE) # "applied"
  PROVE  IsSettled(current)
  BY DEF Verdict

\* Committing or losing the answer of a transition.
LEMMA TransitionBooks ==
  ASSUME Booking, NEW j \in Jobs, Transition(j)
  PROVE  /\ booked \subseteq booked'
         /\ \A o \in Orders : IsSettled(status'[o]) => o \in booked'
         /\ IsSettled(Asks[j[1]]) => OrderOf[j[1]] \in booked'
<1>0. /\ j[1] \in Notes /\ OrderOf[j[1]] \in Orders /\ Asks[j[1]] \in RequestedStatuses
      /\ status \in [Orders -> Statuses \cup {Absent}]
      /\ IsSettled(job[j].seen) => OrderOf[j[1]] \in booked
      /\ \A o \in Orders : IsSettled(status[o]) => o \in booked
  BY JobParts, PipelineAssumption DEF Booking, SeenIsBooked, TypeInv, TypeOK
<1>1. CASE Applied(j)
  <2>1. IsSettled(Asks[j[1]]) => OrderOf[j[1]] \in booked'
    BY <1>0, <1>1 DEF Transition, IsSuccess
  <2>2. booked \subseteq booked'
    BY <1>1 DEF Transition
  <2>3. status' = [status EXCEPT ![OrderOf[j[1]]] = Asks[j[1]]]
    BY <1>1 DEF Transition
  <2>4. ASSUME NEW o \in Orders, IsSettled(status'[o]) PROVE o \in booked'
    <3>1. CASE o = OrderOf[j[1]]
      BY <3>1, <2>1, <2>3, <2>4, <1>0
    <3>2. CASE o # OrderOf[j[1]]
      BY <3>2, <2>2, <2>3, <2>4, <1>0
    <3> QED BY <3>1, <3>2
  <2> QED BY <2>1, <2>2, <2>4
<1>2. CASE ~Applied(j)
  <2>1. UNCHANGED <<status, booked>>
    BY <1>2 DEF Transition
  <2>2. IsSettled(Asks[j[1]]) => IsSettled(job[j].seen)
    BY <1>0, <1>2, IgnoredWasSettled DEF Applied
  <2> QED BY <1>0, <2>1, <2>2
<1> QED BY <1>1, <1>2

\* What a step may do to the job records that Booking speaks of.
Keeps(i) == job'[i].seen = job[i].seen /\ job'[i].result = job[i].result
Forgets(i) == ~IsSettled(job'[i].seen) /\ job'[i].result = "none"

\* A step that leaves orders alone and only keeps or forgets what jobs have seen.
LEMMA BookingKept ==
  ASSUME Booking, TypeInv', UNCHANGED <<status, booked>>,
         \A i \in Jobs : Keeps(i) \/ Forgets(i),
         \A n \in Notes : row'[n].state \in {"PROCESSED", "IGNORED"}
                             => row[n].state \in {"PROCESSED", "IGNORED"}
  PROVE  Booking'
<1>1. SeenIsBooked'
  BY DEF Booking, SeenIsBooked, Keeps, Forgets
<1>2. ResultIsBooked'
  BY DEF Booking, ResultIsBooked, Keeps, Forgets
<1>3. PaidIsBooked'
  BY DEF Booking, PaidIsBooked
<1> QED BY <1>1, <1>2, <1>3 DEF Booking

\* A job that is reset has forgotten what it read and what it was told.
LEMMA ResetForgets ==
  ASSUME NEW j \in Jobs, job \in [Jobs -> JobRecords], NEW r,
         r.seen = Absent, r.result = "none", job' = [job EXCEPT ![j] = r]
  PROVE  \A i \in Jobs : Keeps(i) \/ Forgets(i)
  BY DEF Keeps, Forgets, IsSettled, SettledStatuses, Absent

\* Moving a job on, or giving it alert updates or a result, changes no other
\* job and no other field.
LEMMA FieldsKept ==
  ASSUME job \in [Jobs -> JobRecords], NEW j \in Jobs, NEW at, NEW steps, NEW result
  PROVE  /\ job' = [job EXCEPT ![j].at = at] => \A i \in Jobs : Keeps(i)
         /\ job' = [job EXCEPT ![j].todo = steps] => \A i \in Jobs : Keeps(i)
         /\ job' = [job EXCEPT ![j].at = at, ![j].todo = steps] => \A i \in Jobs : Keeps(i)
         /\ job' = [job EXCEPT ![j].at = at, ![j].result = result]
              => /\ \A i \in Jobs : job'[i].seen = job[i].seen
                 /\ \A i \in Jobs : i = j \/ job'[i].result = job[i].result
<1>1. job[j] \in JobRecords
  OBVIOUS
<1>2. job' = [job EXCEPT ![j].at = at] => \A i \in Jobs : Keeps(i)
  BY <1>1 DEF Keeps, JobRecords
<1>3. job' = [job EXCEPT ![j].todo = steps] => \A i \in Jobs : Keeps(i)
  BY <1>1 DEF Keeps, JobRecords
<1>4. ASSUME job' = [job EXCEPT ![j].at = at, ![j].todo = steps], NEW i \in Jobs
      PROVE  Keeps(i)
  <2>1. CASE i = j
    BY <1>1, <1>4, <2>1 DEF Keeps, JobRecords
  <2>2. CASE i # j
    BY <1>4, <2>2 DEF Keeps
  <2> QED BY <2>1, <2>2
<1>5. ASSUME job' = [job EXCEPT ![j].at = at, ![j].result = result], NEW i \in Jobs
      PROVE  job'[i].seen = job[i].seen /\ (i = j \/ job'[i].result = job[i].result)
  <2>1. CASE i = j
    BY <1>1, <1>5, <2>1 DEF JobRecords
  <2>2. CASE i # j
    BY <1>5, <2>2
  <2> QED BY <2>1, <2>2
<1> QED BY <1>2, <1>3, <1>4, <1>5

\* Deliveries and replays keep it.
LEMMA RequestBooks == Booking /\ Request => Booking'
<1> SUFFICES ASSUME Booking, Request PROVE Booking'
  OBVIOUS
<1>0. /\ TypeInv' /\ job \in [Jobs -> JobRecords]
      /\ row \in [Notes \cup Forged -> [state: RowStates, attempts: Nat]]
  BY RequestTyped DEF Booking, TypeInv, TypeOK
<1>1. UNCHANGED <<status, booked>>
  BY DEF Request, Deliver, DeliverDuplicate, Reject, Replay, Enqueue, LoseEnqueue
<1>2. \A i \in Jobs : Keeps(i) \/ Forgets(i)
  <2>1. CASE \E j \in Jobs : Enqueue(j)
    <3>1. PICK j \in Jobs : Enqueue(j)
      BY <2>1
    <3> DEFINE r == [NoJob EXCEPT !.at = "waiting"]
    <3>2. r.seen = Absent /\ r.result = "none"
      BY DEF NoJob
    <3>3. job' = [job EXCEPT ![j] = r]
      BY <3>1 DEF Enqueue
    <3> HIDE DEF r
    <3> QED BY <1>0, <3>2, <3>3, ResetForgets
  <2>2. CASE UNCHANGED job
    BY <2>2 DEF Keeps
  <2> QED
    BY <2>1, <2>2 DEF Request, Deliver, DeliverDuplicate, Reject, Replay, LoseEnqueue
<1>3. ASSUME NEW n \in Notes, row'[n].state \in {"PROCESSED", "IGNORED"}
      PROVE  row[n].state \in {"PROCESSED", "IGNORED"}
  <2>1. CASE UNCHANGED row
    BY <1>3, <2>1
  <2>2. ASSUME NEW m \in Notes \cup Forged, NEW s, s \notin {"PROCESSED", "IGNORED"},
               row' = [row EXCEPT ![m].state = s]
        PROVE  row[n].state \in {"PROCESSED", "IGNORED"}
    BY <1>0, <1>3, <2>2
  <2>3. UNCHANGED row \/ \E m \in Notes \cup Forged, s \in {"RECEIVED", "INVALID"} :
                             row' = [row EXCEPT ![m].state = s]
    BY DEF Request, Deliver, DeliverDuplicate, Reject, Replay, Enqueue, LoseEnqueue
  <2> QED BY <2>1, <2>2, <2>3
<1> QED BY <1>0, <1>1, <1>2, <1>3, BookingKept

\* The steps of a job that leave order, verdict and final row alone.
Quietly(j) ==
    \/ Pick(j) \/ MarkStarted(j) \/ SyncAlert(j) \/ FinishJob(j) \/ MarkFailed(j)
    \/ ThrowAgain(j) \/ BreakBookkeeping(j) \/ Crash(j)

\* So do the worker's steps that neither read the order nor close the row,
LEMMA QuietlyBooks == ASSUME Booking, NEW j \in Jobs, Quietly(j) PROVE Booking'
<1>0. /\ TypeInv' /\ job \in [Jobs -> JobRecords] /\ j[1] \in Notes
      /\ row \in [Notes \cup Forged -> [state: RowStates, attempts: Nat]]
  BY JobStepTyped, JobParts DEF Booking, TypeInv, TypeOK, Quietly, Work, Break
<1>1. UNCHANGED <<status, booked>>
  BY DEF Quietly, Pick, MarkStarted, SyncAlert, FinishJob, MarkFailed, ThrowAgain, GiveBack,
         BreakBookkeeping, Crash
<1>2. \A i \in Jobs : Keeps(i) \/ Forgets(i)
  <2>1. CASE Pick(j) \/ MarkStarted(j) \/ SyncAlert(j) \/ MarkFailed(j)
    <3>2. CASE Pick(j)
      BY <1>0, <3>2, FieldsKept DEF Pick
    <3>3. CASE MarkStarted(j)
      BY <1>0, <3>3, FieldsKept DEF MarkStarted
    <3>4. CASE SyncAlert(j)
      BY <1>0, <3>4 DEF SyncAlert, Keeps, JobRecords
    <3>5. CASE MarkFailed(j)
      BY <1>0, <3>5, FieldsKept DEF MarkFailed
    <3> QED BY <2>1, <3>2, <3>3, <3>4, <3>5
  <2>2. CASE FinishJob(j)
    <3> DEFINE r == [NoJob EXCEPT !.at = "done"]
    <3>1. r.seen = Absent /\ r.result = "none" /\ job' = [job EXCEPT ![j] = r]
      BY <2>2 DEF FinishJob, NoJob
    <3> HIDE DEF r
    <3> QED BY <1>0, <3>1, ResetForgets
  <2>3. CASE GiveBack(j)
    <3> DEFINE r == [NoJob EXCEPT
                       !.at = IF job[j].failures + 1 < Attempts THEN "waiting" ELSE "dead",
                       !.failures = job[j].failures + 1, !.stalls = job[j].stalls]
    <3>1. job' = [job EXCEPT ![j] = r]
      BY <2>3 DEF GiveBack
    <3>2. r.seen = Absent /\ r.result = "none"
      BY DEF NoJob
    <3> HIDE DEF r
    <3> QED BY <1>0, <3>1, <3>2, ResetForgets
  <2>4. CASE Crash(j)
    <3> DEFINE r == [NoJob EXCEPT !.at = IF job[j].stalls > 0 THEN "dead" ELSE "waiting",
                                  !.failures = job[j].failures, !.stalls = 1]
    <3>1. job' = [job EXCEPT ![j] = r]
      BY <2>4 DEF Crash
    <3>2. r.seen = Absent /\ r.result = "none"
      BY DEF NoJob
    <3> HIDE DEF r
    <3> QED BY <1>0, <3>1, <3>2, ResetForgets
  <2>5. CASE job' = [job EXCEPT ![j].at = "broken", ![j].todo = <<>>]
    BY <1>0, <2>5 DEF Keeps, JobRecords
  <2> QED
    BY <2>1, <2>2, <2>3, <2>4, <2>5 DEF Quietly, ThrowAgain, BreakBookkeeping
<1>3. ASSUME NEW n \in Notes, row'[n].state \in {"PROCESSED", "IGNORED"}
      PROVE  row[n].state \in {"PROCESSED", "IGNORED"}
  BY <1>0, <1>3
     DEF Quietly, Pick, MarkStarted, SyncAlert, FinishJob, MarkFailed, ThrowAgain, GiveBack,
         BreakBookkeeping, Crash
<1> QED BY <1>0, <1>1, <1>2, <1>3, BookingKept

\* the reading of the order,
LEMMA ReadBooks == ASSUME Booking, NEW j \in Jobs, ReadOrder(j) PROVE Booking'
<1>0. /\ TypeInv' /\ job \in [Jobs -> JobRecords]
      /\ j[1] \in Notes /\ OrderOf[j[1]] \in Orders
  BY JobStepTyped, JobParts DEF Booking, TypeInv, TypeOK, Work
<1>1. /\ UNCHANGED <<row, status, booked>>
      /\ job'[j].seen = status[OrderOf[j[1]]]
      /\ job'[j].result \in {job[j].result, "order_not_found"}
      /\ \A i \in Jobs \ {j} : job'[i] = job[i]
  BY <1>0 DEF ReadOrder, JobRecords
<1>2. SeenIsBooked'
  BY <1>0, <1>1 DEF Booking, SeenIsBooked
<1>3. ResultIsBooked'
  BY <1>0, <1>1 DEF Booking, ResultIsBooked
<1> QED BY <1>0, <1>1, <1>2, <1>3 DEF Booking, PaidIsBooked

\* the transition, committed or rolled back,
LEMMA TransitionKeepsBooking ==
  ASSUME Booking, NEW j \in Jobs, CommitTransition(j) \/ BreakTransition(j)
  PROVE  Booking'
<1>0. /\ TypeInv' /\ job \in [Jobs -> JobRecords] /\ UNCHANGED row
      /\ j[1] \in Notes /\ OrderOf[j[1]] \in Orders
  BY JobStepTyped, JobParts
     DEF Booking, TypeInv, TypeOK, Work, Break, CommitTransition, BreakTransition
<1>1. CASE Transition(j)
  <2>1. /\ \A i \in Jobs : job'[i].seen = job[i].seen
        /\ \A i \in Jobs : i = j \/ job'[i].result = job[i].result
    <3>2. CASE CommitTransition(j)
      BY <1>0, <3>2, FieldsKept DEF CommitTransition
    <3>3. CASE BreakTransition(j)
      BY <1>0, <3>3, FieldsKept DEF BreakTransition, Keeps
    <3> QED BY <3>2, <3>3
  <2>2. SeenIsBooked'
    BY <1>1, <2>1, TransitionBooks DEF Booking, SeenIsBooked
  <2>3. ResultIsBooked'
    BY <1>1, <2>1, TransitionBooks DEF Booking, ResultIsBooked
  <2>4. PaidIsBooked'
    BY <1>0, <1>1, TransitionBooks DEF Booking, PaidIsBooked
  <2> QED BY <1>0, <2>2, <2>3, <2>4 DEF Booking
<1>2. CASE BreakTransition(j) /\ UNCHANGED <<status, booked>>
  <2>1. \A i \in Jobs : Keeps(i)
    BY <1>0, <1>2 DEF BreakTransition, Keeps, JobRecords
  <2> QED BY <1>0, <1>2, <2>1, BookingKept
<1> QED BY <1>1, <1>2 DEF CommitTransition, BreakTransition

\* and the closing of the row.
LEMMA CompletedBooks == ASSUME Booking, NEW j \in Jobs, MarkCompleted(j) PROVE Booking'
<1>0. /\ TypeInv' /\ job \in [Jobs -> JobRecords] /\ j[1] \in Notes
      /\ row \in [Notes \cup Forged -> [state: RowStates, attempts: Nat]]
      /\ UNCHANGED <<status, booked>>
  BY JobStepTyped, JobParts DEF Booking, TypeInv, TypeOK, Work, MarkCompleted
<1>1. \A i \in Jobs : Keeps(i)
  BY <1>0 DEF MarkCompleted, Keeps, JobRecords
<1>2. SeenIsBooked' /\ ResultIsBooked'
  BY <1>0, <1>1 DEF Booking, SeenIsBooked, ResultIsBooked, Keeps
<1>3. ASSUME NEW n \in Notes, IsSettled(Asks[n]), row'[n].state \in {"PROCESSED", "IGNORED"}
      PROVE  OrderOf[n] \in booked
  <2>1. CASE n = j[1]
    <3>1. job[j].result \in {"applied", "ignored"}
      BY <1>0, <1>3, <2>1 DEF MarkCompleted, Classify
    <3> QED BY <1>3, <2>1, <3>1 DEF Booking, ResultIsBooked
  <2>2. CASE n # j[1]
    BY <1>0, <1>3, <2>2 DEF MarkCompleted, Booking, PaidIsBooked
  <2> QED BY <2>1, <2>2
<1>4. PaidIsBooked'
  BY <1>0, <1>3 DEF PaidIsBooked
<1> QED BY <1>0, <1>2, <1>4 DEF Booking

\* Hence every step keeps it.
LEMMA BookingStep == Booking /\ [Next]_vars => Booking'
<1> SUFFICES ASSUME Booking, [Next]_vars PROVE Booking'
  OBVIOUS
<1>1. CASE Quiet \/ UNCHANGED vars
  <2>1. TypeInv'
    BY TypeStep DEF Booking
  <2>2. UNCHANGED <<row, job, status, booked>>
    BY <1>1 DEF Quiet, vars
  <2> QED
    BY <2>1, <2>2, BookingKept DEF Keeps
<1>2. CASE Request
  BY <1>2, RequestBooks
<1>3. CASE \E j \in Jobs : Work(j) \/ Break(j)
  BY <1>3, QuietlyBooks, ReadBooks, TransitionKeepsBooking, CompletedBooks
     DEF Work, Break, Quietly
<1> QED BY <1>1, <1>2, <1>3 DEF Next

\* No payment is written off: a closed inbox row of a settlement means that the
\* order's effect is booked, for any mixture of retries, replays, duplicates,
\* lost answers and crashes, and any number of workers.
THEOREM PaidIsBookedCorrect == Spec => []PaidIsBooked
<1>1. Spec => []Booking
  BY BookingInit, BookingStep, PTL DEF Spec
<1>2. Booking => PaidIsBooked
  BY DEF Booking
<1> QED BY <1>1, <1>2, PTL
-----------------------------------------------------------------------------
(* What JobsEnd and EveryNoteConcluded rest on, apart from fairness: a job   *)
(* can only take so many steps, and no notification is let go of while its   *)
(* row says that it is to be worked on.                                      *)

Ended == {"done", "dead"}

\* How far a handler has come.
Rank(at) ==
    CASE at = "none"    -> 0 [] at = "waiting"   -> 1 [] at = "picked" -> 2
      [] at = "started" -> 3 [] at = "read"      -> 4 [] at = "ran"    -> 5
      [] at = "completed" -> 6 [] at = "broken"  -> 7 [] OTHER -> 8

\* s is a later record of the job than r: a job that has ended stays as it is,
\* and of one that goes on failures, stalls, place in the handler and alerts
\* still to be updated have advanced, in this order of importance.
Advanced(r, s) ==
    /\ r.at \notin Ended
    /\ \/ s.at \in Ended
       \/ r.failures < s.failures
       \/ /\ r.failures = s.failures
          /\ \/ r.stalls < s.stalls
             \/ /\ r.stalls = s.stalls
                /\ \/ Rank(r.at) < Rank(s.at)
                   \/ Rank(r.at) = Rank(s.at) /\ Len(s.todo) < Len(r.todo)

\* Every step of the pipeline leaves a job alone or advances it.
JobsRunOut == [][\A j \in Jobs : job'[j] = job[j] \/ Advanced(job[j], job'[j])]_vars

\* Jobs exist for recorded notifications only, and one that is about to be
\* queued has not run yet.
Recorded ==
    /\ \A j \in Jobs : j \in posting \/ job[j].at # "none" => row[j[1]].state # Absent
    /\ \A j \in Jobs : job[j].at = "none" => job[j] = NoJob
    /\ \A j \in posting : job[j].at = "none"
    /\ \A j \in Jobs : job[j].at \in Resting => job[j].todo = <<>>

\* A step that replaces one job and touches its notification's row only.
LEMMA RecordedReplace ==
  ASSUME TypeInv, Recorded, NEW j \in Jobs,
         \E r : /\ job' = [job EXCEPT ![j] = r] /\ r.at # "none"
                /\ r.at \in Resting => r.todo = <<>>,
         posting' = posting, j \notin posting, row[j[1]].state # Absent,
         \A n \in Notes : row[n].state # Absent => row'[n].state # Absent
  PROVE  Recorded'
<1>0. PICK r : /\ job' = [job EXCEPT ![j] = r] /\ r.at # "none"
               /\ r.at \in Resting => r.todo = <<>>
  OBVIOUS
<1>1. /\ job'[j] = r /\ \A i \in Jobs \ {j} : job'[i] = job[i]
      /\ posting \subseteq Jobs
  BY <1>0 DEF TypeInv, TypeOK
<1>2. ASSUME NEW i \in Jobs, i # j
      PROVE  /\ i \in posting' \/ job'[i].at # "none" => row'[i[1]].state # Absent
             /\ job'[i].at = "none" => job'[i] = NoJob
             /\ i \in posting' => job'[i].at = "none"
             /\ job'[i].at \in Resting => job'[i].todo = <<>>
  BY <1>1, <1>2, JobParts DEF Recorded
<1>3. row'[j[1]].state # Absent
  BY JobParts
<1> QED
  BY <1>0, <1>1, <1>2, <1>3 DEF Recorded

\* What a worker and its faults do to a job.
LEMMA WorkAdvances ==
  ASSUME TypeInv, Recorded, NEW j \in Jobs, Work(j) \/ Break(j)
  PROVE  \E r : /\ job' = [job EXCEPT ![j] = r]
                /\ Advanced(job[j], r)
                /\ r.at # "none" /\ (r.at \in Resting => r.todo = <<>>)
<1> DEFINE c == job[j]
           Goal == \E r : /\ job' = [job EXCEPT ![j] = r]
                          /\ Advanced(job[j], r)
                          /\ r.at # "none" /\ (r.at \in Resting => r.todo = <<>>)
<1>0. /\ Fine(job[j]) /\ job \in [Jobs -> JobRecords]
      /\ job[j].failures \in Nat /\ job[j].stalls \in {0, 1}
      /\ job[j].todo \in Seq(AlertSteps)
      /\ job[j].at \in Resting => job[j].todo = <<>>
  BY JobFine, PipelineAssumption DEF TypeInv, TypeOK, Fine, JobRecords, Recorded
<1>1. ASSUME NEW r, job' = [job EXCEPT ![j] = r], r.at \notin Resting, c.at \notin Ended,
             r.failures = c.failures, r.stalls = c.stalls, Rank(c.at) < Rank(r.at)
      PROVE  Goal
  BY <1>1 DEF Advanced, Resting
<1>2. CASE Pick(j)
  <2> DEFINE r == [job[j] EXCEPT !.at = "picked"]
  <2>1. job' = [job EXCEPT ![j] = r]
    BY <1>0, <1>2 DEF Pick, JobRecords
  <2>2. r.at = "picked" /\ r.failures = c.failures /\ r.stalls = c.stalls
    BY <1>0 DEF JobRecords
  <2>3. r.at \notin Resting /\ c.at \notin Ended /\ Rank(c.at) < Rank(r.at)
    BY <1>2, <2>2 DEF Pick, Rank, Resting, Ended
  <2> HIDE DEF r
  <2> QED
    BY <1>1, <2>1, <2>2, <2>3
<1>3. CASE MarkStarted(j)
  <2> DEFINE steps == <<[key |-> j[1], to |-> "resolved"]>>
             r == [job[j] EXCEPT !.at = "started", !.todo = steps]
  <2>1. job' = [job EXCEPT ![j] = r]
    BY <1>0, <1>3 DEF MarkStarted, JobRecords
  <2>2. r.at = "started" /\ r.failures = c.failures /\ r.stalls = c.stalls
    BY <1>0 DEF JobRecords
  <2>3. r.at \notin Resting /\ c.at \notin Ended /\ Rank(c.at) < Rank(r.at)
    BY <1>3, <2>2 DEF MarkStarted, Rank, Resting, Ended
  <2> HIDE DEF r
  <2> QED
    BY <1>1, <2>1, <2>2, <2>3
<1>4. CASE SyncAlert(j)
  <2> DEFINE r == [job[j] EXCEPT !.todo = Tail(@)]
  <2>1. job' = [job EXCEPT ![j] = r] /\ job[j].todo # <<>> /\ job[j].at \notin Resting
    BY <1>0, <1>4 DEF SyncAlert
  <2>2. r.at = job[j].at /\ r.failures = job[j].failures /\ r.stalls = job[j].stalls
        /\ r.todo = Tail(job[j].todo)
    BY <1>0 DEF JobRecords
  <2>3. Len(Tail(job[j].todo)) < Len(job[j].todo)
    BY <1>0, <2>1
  <2> HIDE DEF r
  <2> QED
    BY <2>1, <2>2, <2>3 DEF Advanced, Ended, Resting
<1>5. CASE ReadOrder(j)
  <2> DEFINE s == status[OrderOf[j[1]]]
             at == IF s = Absent THEN "ran" ELSE "read"
             result == IF s = Absent THEN "order_not_found" ELSE job[j].result
             r == [job[j] EXCEPT !.seen = s, !.at = at, !.result = result]
  <2>1. job' = [job EXCEPT ![j] = r]
    BY <1>0, <1>5 DEF ReadOrder, JobRecords
  <2>2. r.at = at /\ r.failures = c.failures /\ r.stalls = c.stalls
    BY <1>0 DEF JobRecords
  <2> HIDE DEF s, result
  <2>3. r.at \notin Resting /\ c.at \notin Ended /\ Rank(c.at) < Rank(r.at)
    BY <1>5, <2>2 DEF ReadOrder, Rank, Resting, Ended
  <2> HIDE DEF r
  <2> QED
    BY <1>1, <2>1, <2>2, <2>3
<1>6. CASE CommitTransition(j)
  <2> DEFINE result == IF Applied(j) THEN "applied" ELSE "ignored"
             r == [job[j] EXCEPT !.at = "ran", !.result = result]
  <2>1. job' = [job EXCEPT ![j] = r]
    BY <1>0, <1>6 DEF CommitTransition, JobRecords
  <2>2. r.at = "ran" /\ r.failures = c.failures /\ r.stalls = c.stalls
    BY <1>0 DEF JobRecords
  <2>3. r.at \notin Resting /\ c.at \notin Ended /\ Rank(c.at) < Rank(r.at)
    BY <1>6, <2>2 DEF CommitTransition, Transition, Rank, Resting, Ended
  <2> HIDE DEF r
  <2> QED
    BY <1>1, <2>1, <2>2, <2>3
<1>7. CASE MarkCompleted(j)
  <2> DEFINE steps == IF Classify(job[j].result) = "FAILED" THEN Flag(j[1]) ELSE Clear(j[1])
             r == [job[j] EXCEPT !.at = "completed", !.todo = steps]
  <2>1. job' = [job EXCEPT ![j] = r]
    BY <1>0, <1>7 DEF MarkCompleted, JobRecords
  <2>2. r.at = "completed" /\ r.failures = c.failures /\ r.stalls = c.stalls
    BY <1>0 DEF JobRecords
  <2>3. r.at \notin Resting /\ c.at \notin Ended /\ Rank(c.at) < Rank(r.at)
    BY <1>7, <2>2 DEF MarkCompleted, Rank, Resting, Ended
  <2> HIDE DEF r
  <2> QED
    BY <1>1, <2>1, <2>2, <2>3
<1>8. CASE MarkFailed(j)
  <2> DEFINE steps == Flag(j[1])
             r == [job[j] EXCEPT !.at = "failing", !.todo = steps]
  <2>1. job' = [job EXCEPT ![j] = r]
    BY <1>0, <1>8 DEF MarkFailed, JobRecords
  <2>2. r.at = "failing" /\ r.failures = c.failures /\ r.stalls = c.stalls
    BY <1>0 DEF JobRecords
  <2>3. r.at \notin Resting /\ c.at \notin Ended /\ Rank(c.at) < Rank(r.at)
    BY <1>8, <2>2 DEF MarkFailed, Rank, Resting, Ended
  <2> HIDE DEF r
  <2> QED
    BY <1>1, <2>1, <2>2, <2>3
<1>9. CASE FinishJob(j)
  <2> DEFINE r == [NoJob EXCEPT !.at = "done"]
  <2>1. job' = [job EXCEPT ![j] = r] /\ job[j].at \notin Ended
    BY <1>9 DEF FinishJob, Ended
  <2>2. r.at = "done" /\ r.todo = <<>>
    BY DEF NoJob
  <2> HIDE DEF r
  <2> QED
    BY <2>1, <2>2 DEF Advanced, Ended
<1>10. ASSUME GiveBack(j), job[j].at \notin Ended PROVE Goal
  <2> DEFINE r == [NoJob EXCEPT !.at = IF c.failures + 1 < Attempts THEN "waiting" ELSE "dead",
                                !.failures = c.failures + 1, !.stalls = c.stalls]
  <2>1. job' = [job EXCEPT ![j] = r]
    BY <1>10 DEF GiveBack
  <2>2. r.failures = c.failures + 1 /\ r.todo = <<>> /\ r.at \in {"waiting", "dead"}
    BY DEF NoJob
  <2> HIDE DEF r
  <2>3. c.failures < r.failures
    BY <1>0, <2>2
  <2> QED
    BY <1>10, <2>1, <2>2, <2>3 DEF Advanced
<1>11. CASE ThrowAgain(j)
  BY <1>10, <1>11 DEF ThrowAgain, Ended
<1>12. CASE BreakTransition(j)
  <2> DEFINE r == [job[j] EXCEPT !.at = "broken"]
  <2>1. job' = [job EXCEPT ![j] = r]
    BY <1>0, <1>12 DEF BreakTransition, JobRecords
  <2>2. r.at = "broken" /\ r.failures = c.failures /\ r.stalls = c.stalls
    BY <1>0 DEF JobRecords
  <2>3. r.at \notin Resting /\ c.at \notin Ended /\ Rank(c.at) < Rank(r.at)
    BY <1>12, <2>2 DEF BreakTransition, Transition, Rank, Resting, Ended
  <2> HIDE DEF r
  <2> QED
    BY <1>1, <2>1, <2>2, <2>3
<1>13. CASE BreakBookkeeping(j)
  <2>1. CASE GiveBack(j) /\ job[j].at \in {"broken", "failing"}
    BY <1>10, <2>1 DEF Ended
  <2>2. CASE /\ job[j].at \in {"picked", "ran", "started", "completed"}
             /\ job' = [job EXCEPT ![j].at = "broken", ![j].todo = <<>>]
    <3> DEFINE r == [job[j] EXCEPT !.at = "broken", !.todo = <<>>]
    <3>1. job' = [job EXCEPT ![j] = r]
      BY <1>0, <2>2 DEF JobRecords
    <3>2. r.at = "broken" /\ r.failures = c.failures /\ r.stalls = c.stalls
      BY <1>0 DEF JobRecords
    <3>3. r.at \notin Resting /\ c.at \notin Ended /\ Rank(c.at) < Rank(r.at)
      BY <2>2, <3>2 DEF Rank, Resting, Ended
    <3> HIDE DEF r
    <3> QED
      BY <1>1, <3>1, <3>2, <3>3
  <2> QED
    BY <1>13, <2>1, <2>2 DEF BreakBookkeeping
<1>14. CASE Crash(j)
  <2> DEFINE r == [NoJob EXCEPT !.at = IF c.stalls > 0 THEN "dead" ELSE "waiting",
                                !.failures = c.failures, !.stalls = 1]
  <2>1. job' = [job EXCEPT ![j] = r] /\ c.at \notin Ended
    BY <1>14 DEF Crash, Running, Ended
  <2>2. /\ r.at = (IF c.stalls > 0 THEN "dead" ELSE "waiting")
        /\ r.failures = c.failures /\ r.stalls = 1 /\ r.todo = <<>>
    BY DEF NoJob
  <2> HIDE DEF r
  <2>3. r.at \in Ended \/ c.stalls < r.stalls
    BY <1>0, <2>2 DEF Ended
  <2> QED
    BY <2>1, <2>2, <2>3 DEF Advanced
<1> QED
  BY <1>2, <1>3, <1>4, <1>5, <1>6, <1>7, <1>8, <1>9, <1>11, <1>12, <1>13, <1>14
     DEF Work, Break

\* A worker closes, reopens or leaves alone the row of its own notification,
\* and the row is there.
LEMMA WorkRows ==
  ASSUME TypeInv, Recorded, NEW j \in Jobs, Work(j) \/ Break(j)
  PROVE  /\ posting' = posting /\ j \notin posting /\ row[j[1]].state # Absent
         /\ \A n \in Notes \ {j[1]} : row'[n] = row[n]
         /\ \/ row' = row
            \/ row'[j[1]].state \in {"PROCESSING", "PROCESSED", "IGNORED", "FAILED"}
<1>0. /\ j[1] \in Notes
      /\ row \in [Notes \cup Forged -> [state: RowStates, attempts: Nat]]
  BY JobParts DEF TypeInv, TypeOK
<1>1. job[j].at # "none"
  <2>1. job[j].at = "none" => job[j].todo = <<>>
    BY DEF Recorded, Resting
  <2> QED
    BY <2>1
       DEF Work, Break, Pick, MarkStarted, SyncAlert, ReadOrder, CommitTransition, Transition,
           MarkCompleted, FinishJob, MarkFailed, ThrowAgain, BreakTransition, BreakBookkeeping,
           Crash, Running
<1>2. j \notin posting /\ row[j[1]].state # Absent
  BY <1>1 DEF Recorded
<1>3. posting' = posting
  BY DEF Work, Break, Pick, MarkStarted, SyncAlert, ReadOrder, CommitTransition, MarkCompleted,
         FinishJob, MarkFailed, ThrowAgain, GiveBack, BreakTransition, BreakBookkeeping, Crash
<1>4. \/ row' = row
      \/ row' = [row EXCEPT ![j[1]] = [state |-> "PROCESSING", attempts |-> @.attempts + 1]]
      \/ \E s \in {"PROCESSED", "IGNORED", "FAILED"} : row' = [row EXCEPT ![j[1]].state = s]
  BY DEF Work, Break, Pick, MarkStarted, SyncAlert, ReadOrder, CommitTransition, MarkCompleted,
         FinishJob, MarkFailed, ThrowAgain, GiveBack, BreakTransition, BreakBookkeeping, Crash,
         Classify
<1>5. /\ \A n \in Notes \ {j[1]} : row'[n] = row[n]
      /\ row' = row \/ row'[j[1]].state \in {"PROCESSING", "PROCESSED", "IGNORED", "FAILED"}
  BY <1>0, <1>4
<1> QED
  BY <1>2, <1>3, <1>5

\* The facts about recorded jobs hold initially,
LEMMA RecordedInit == Init => Recorded
  BY JobParts DEF Init, Recorded, NoJob, NoRow

\* and every step keeps them.
LEMMA RecordedStep == ASSUME TypeInv, Recorded, [Next]_vars PROVE Recorded'
<1>0. /\ posting \subseteq Jobs /\ job \in [Jobs -> JobRecords]
      /\ row \in [Notes \cup Forged -> [state: RowStates, attempts: Nat]]
      /\ \A j \in Jobs : j[1] \in Notes
  BY JobParts DEF TypeInv, TypeOK
<1>1. ASSUME NEW j \in Jobs, Work(j) \/ Break(j) PROVE Recorded'
  <2>1. \E r : /\ job' = [job EXCEPT ![j] = r] /\ r.at # "none"
               /\ r.at \in Resting => r.todo = <<>>
    BY <1>1, WorkAdvances
  <2>2. /\ posting' = posting /\ j \notin posting /\ row[j[1]].state # Absent
        /\ \A n \in Notes \ {j[1]} : row'[n] = row[n]
        /\ row' = row \/ row'[j[1]].state \in {"PROCESSING", "PROCESSED", "IGNORED", "FAILED"}
    BY <1>1, WorkRows
  <2>3. \A n \in Notes : row[n].state # Absent => row'[n].state # Absent
    BY <2>2 DEF Absent
  <2> QED
    BY <2>1, <2>2, <2>3, RecordedReplace
<1>2. ASSUME NEW n \in Notes, Deliver(n) PROVE Recorded'
  <2>1. /\ <<n, 0>> \in Jobs /\ <<n, 0>>[1] = n /\ posting' = posting \cup {<<n, 0>>}
        /\ job' = job /\ row'[n].state = "RECEIVED"
        /\ \A m \in Notes \ {n} : row'[m] = row[m]
    BY <1>0, <1>2, PipelineAssumption DEF Deliver, Jobs
  <2>2. job[<<n, 0>>].at = "none"
    BY <1>2, <2>1 DEF Deliver, Recorded
  <2> QED
    BY <1>0, <2>1, <2>2 DEF Recorded, Absent
<1>3. ASSUME NEW n \in Notes, NEW k \in 1..MaxReplays, Replay(n, k) PROVE Recorded'
  <2>1. /\ <<n, k>> \in Jobs /\ <<n, k>>[1] = n /\ posting' = posting \cup {<<n, k>>}
        /\ job' = job /\ row'[n].state = "RECEIVED" /\ job[<<n, k>>].at = "none"
        /\ \A m \in Notes \ {n} : row'[m] = row[m]
    BY <1>0, <1>3, PipelineAssumption DEF Replay, Jobs
  <2> QED
    BY <1>0, <2>1 DEF Recorded, Absent
<1>4. ASSUME NEW j \in Jobs, Enqueue(j) PROVE Recorded'
  <2> DEFINE r == [NoJob EXCEPT !.at = "waiting"]
  <2>1. j \in posting /\ job' = [job EXCEPT ![j] = r] /\ posting' = posting \ {j} /\ row' = row
    BY <1>4 DEF Enqueue
  <2>2. r.todo = <<>> /\ r.at = "waiting"
    BY DEF NoJob
  <2> HIDE DEF r
  <2>3. job'[j] = r /\ \A i \in Jobs \ {j} : job'[i] = job[i]
    BY <1>0, <2>1
  <2> QED
    BY <1>0, <2>1, <2>2, <2>3 DEF Recorded
<1>5. ASSUME NEW n \in Notes, DeliverDuplicate(n) PROVE Recorded'
  BY <1>5 DEF DeliverDuplicate, Recorded
<1>6. ASSUME NEW n \in Forged, Reject(n) PROVE Recorded'
  <2>1. \A m \in Notes : row'[m] = row[m]
    BY <1>0, <1>6, PipelineAssumption DEF Reject
  <2> QED
    BY <1>0, <1>6, <2>1 DEF Reject, Recorded
<1>7. ASSUME NEW j \in Jobs, LoseEnqueue(j) PROVE Recorded'
  BY <1>0, <1>7 DEF LoseEnqueue, Recorded
<1>8. CASE Quiet \/ UNCHANGED vars
  BY <1>8 DEF Quiet, vars, Recorded
<1> QED
  BY <1>1, <1>2, <1>3, <1>4, <1>5, <1>6, <1>7, <1>8 DEF Next, Request

\* A job can only take so many steps, whatever fails, dies, is redelivered or
\* replayed: each step advances it in a well-founded order.
THEOREM JobsRunOutCorrect == Spec => JobsRunOut
<1>1. TypeInv /\ Recorded /\ [Next]_vars
        => [\A j \in Jobs : job'[j] = job[j] \/ Advanced(job[j], job'[j])]_vars
  <2> SUFFICES ASSUME TypeInv, Recorded, [Next]_vars, NEW j \in Jobs
               PROVE  job'[j] = job[j] \/ Advanced(job[j], job'[j])
    OBVIOUS
  <2>0. job \in [Jobs -> JobRecords] /\ posting \subseteq Jobs
    BY DEF TypeInv, TypeOK
  <2>1. ASSUME NEW i \in Jobs, Work(i) \/ Break(i)
        PROVE  job'[j] = job[j] \/ Advanced(job[j], job'[j])
    <3>1. PICK r : job' = [job EXCEPT ![i] = r] /\ Advanced(job[i], r)
      BY <2>1, WorkAdvances
    <3> QED
      BY <2>0, <3>1
  <2>2. ASSUME NEW i \in Jobs, Enqueue(i)
        PROVE  job'[j] = job[j] \/ Advanced(job[j], job'[j])
    <3> DEFINE r == [NoJob EXCEPT !.at = "waiting"]
    <3>1. job[i].at = "none" /\ job' = [job EXCEPT ![i] = r]
      BY <2>2 DEF Enqueue, Recorded
    <3>2. r.at = "waiting" /\ r.failures = 0 /\ r.stalls = 0
      BY DEF NoJob
    <3> HIDE DEF r
    <3>3. job[i].failures = 0 /\ job[i].stalls = 0
      BY <2>2, <3>1 DEF Enqueue, Recorded, NoJob
    <3> QED
      BY <2>0, <3>1, <3>2, <3>3 DEF Advanced, Ended, Rank
  <2>3. CASE job' = job
    BY <2>3
  <2> QED
    BY <2>1, <2>2, <2>3
       DEF Next, Request, Deliver, DeliverDuplicate, Reject, Replay, LoseEnqueue, Quiet, vars
<1> QED
  BY <1>1, TypeInit, TypeStep, RecordedInit, RecordedStep, PTL DEF Spec, JobsRunOut
-----------------------------------------------------------------------------
(* No notification is let go of.                                             *)

Queued == {"waiting", "picked"}
Worked == {"started", "read", "ran", "broken"}

\* A notification that counts as received has a job that will start on it,
\* one that counts as being processed has a job that works on it and will
\* close its row.
NothingForgotten ==
    \A n \in Notes :
        /\ row[n].state = "RECEIVED" =>
              \E j \in Jobs : j[1] = n /\ (j \in posting \/ job[j].at \in Queued)
        /\ row[n].state = "PROCESSING" =>
              \E j \in Jobs : j[1] = n /\ job[j].at \in Worked

\* It is kept by the steps of a worker whose bookkeeping succeeds,
LEMMA WorkForgetsNothing ==
  ASSUME TypeInv, Recorded, NothingForgotten, NEW j \in Jobs, Work(j) \/ BreakTransition(j)
  PROVE  NothingForgotten'
<1>0. /\ job \in [Jobs -> JobRecords] /\ j[1] \in Notes
      /\ row \in [Notes \cup Forged -> [state: RowStates, attempts: Nat]]
  BY JobParts DEF TypeInv, TypeOK
<1>1. /\ posting' = posting
      /\ \A n \in Notes \ {j[1]} : row'[n] = row[n]
  BY WorkRows DEF Break
<1>2. \A i \in Jobs \ {j} : job'[i] = job[i]
  <2>1. PICK r : job' = [job EXCEPT ![j] = r]
    BY WorkReplaces, BreakReplaces DEF Replaces, Break
  <2> QED
    BY <1>0, <2>1
<1>3. \/ row'[j[1]].state \in {"PROCESSED", "IGNORED", "FAILED"}
      \/ row'[j[1]].state = "PROCESSING" /\ job'[j].at \in Worked
      \/ /\ row' = row
         /\ job[j].at \in Queued => job'[j].at \in Queued
         /\ job[j].at \in Worked => job'[j].at \in Worked
  <2>1. CASE Pick(j)
    BY <1>0, <2>1 DEF Pick, Queued, Worked, JobRecords
  <2>2. CASE MarkStarted(j)
    BY <1>0, <2>2 DEF MarkStarted, Worked, JobRecords
  <2>3. CASE SyncAlert(j)
    BY <1>0, <2>3 DEF SyncAlert, JobRecords
  <2>4. CASE ReadOrder(j)
    BY <1>0, <2>4 DEF ReadOrder, Queued, Worked, JobRecords
  <2>5. CASE CommitTransition(j)
    BY <1>0, <2>5 DEF CommitTransition, Transition, Queued, Worked, JobRecords
  <2>6. CASE MarkCompleted(j)
    BY <1>0, <2>6 DEF MarkCompleted, Classify
  <2>7. CASE FinishJob(j)
    BY <2>7 DEF FinishJob, Queued, Worked
  <2>8. CASE MarkFailed(j)
    BY <1>0, <2>8 DEF MarkFailed
  <2>9. CASE ThrowAgain(j)
    BY <2>9 DEF ThrowAgain, GiveBack, Queued, Worked
  <2>10. CASE BreakTransition(j)
    BY <1>0, <2>10 DEF BreakTransition, Transition, Queued, Worked, JobRecords
  <2> QED
    BY <2>1, <2>2, <2>3, <2>4, <2>5, <2>6, <2>7, <2>8, <2>9, <2>10 DEF Work
<1>4. ASSUME NEW n \in Notes, row'[n].state = "RECEIVED"
      PROVE  \E i \in Jobs : i[1] = n /\ (i \in posting' \/ job'[i].at \in Queued)
  <2>1. row[n].state = "RECEIVED"
    BY <1>1, <1>3, <1>4
  <2>2. PICK i \in Jobs : i[1] = n /\ (i \in posting \/ job[i].at \in Queued)
    BY <2>1 DEF NothingForgotten
  <2> QED
    BY <1>1, <1>2, <1>3, <1>4, <2>2
<1>5. ASSUME NEW n \in Notes, row'[n].state = "PROCESSING"
      PROVE  \E i \in Jobs : i[1] = n /\ job'[i].at \in Worked
  <2>1. CASE n = j[1] /\ job'[j].at \in Worked
    BY <2>1
  <2>2. CASE row[n].state = "PROCESSING" /\ ~(n = j[1] /\ job'[j].at \in Worked)
    <3>1. PICK i \in Jobs : i[1] = n /\ job[i].at \in Worked
      BY <2>2 DEF NothingForgotten
    <3> QED
      BY <1>2, <1>3, <1>5, <2>2, <3>1
  <2> QED
    BY <1>1, <1>3, <1>5, <2>1, <2>2
<1> QED
  BY <1>4, <1>5 DEF NothingForgotten

\* and by the requests, unless an enqueue is lost.
LEMMA RequestForgetsNothing ==
  ASSUME TypeInv, Recorded, NothingForgotten, Request, "enqueue" \notin Faults
  PROVE  NothingForgotten'
<1>0. /\ posting \subseteq Jobs /\ job \in [Jobs -> JobRecords]
      /\ row \in [Notes \cup Forged -> [state: RowStates, attempts: Nat]]
  BY DEF TypeInv, TypeOK
<1>1. ASSUME NEW n \in Notes, NEW j \in Jobs, j[1] = n, posting' = posting \cup {j},
             job' = job, row' = [row EXCEPT ![n].state = "RECEIVED"]
      PROVE  NothingForgotten'
  <2>1. row'[n].state = "RECEIVED" /\ \A m \in Notes \ {n} : row'[m] = row[m]
    BY <1>0, <1>1
  <2> QED
    BY <1>1, <2>1 DEF NothingForgotten
<1>2. ASSUME NEW n \in Notes, Deliver(n) PROVE NothingForgotten'
  <2>1. <<n, 0>> \in Jobs /\ <<n, 0>>[1] = n
    BY PipelineAssumption DEF Jobs
  <2> QED
    BY <1>1, <1>2, <2>1 DEF Deliver
<1>3. ASSUME NEW n \in Notes, NEW k \in 1..MaxReplays, Replay(n, k) PROVE NothingForgotten'
  <2>1. <<n, k>> \in Jobs /\ <<n, k>>[1] = n
    BY PipelineAssumption DEF Jobs
  <2> QED
    BY <1>1, <1>3, <2>1 DEF Replay
<1>4. ASSUME NEW j \in Jobs, Enqueue(j) PROVE NothingForgotten'
  <2>1. /\ job[j].at = "none" /\ job'[j].at = "waiting" /\ row' = row
        /\ posting' = posting \ {j} /\ \A i \in Jobs \ {j} : job'[i] = job[i]
    BY <1>0, <1>4 DEF Enqueue, Recorded, NoJob
  <2>2. ASSUME NEW i \in Jobs, i \in posting \/ job[i].at \in Queued
        PROVE  i \in posting' \/ job'[i].at \in Queued
    BY <2>1, <2>2 DEF Queued
  <2>3. ASSUME NEW i \in Jobs, job[i].at \in Worked
        PROVE  job'[i].at \in Worked
    BY <2>1, <2>3 DEF Worked
  <2> QED
    BY <2>1, <2>2, <2>3 DEF NothingForgotten
<1>5. ASSUME NEW n \in Notes, DeliverDuplicate(n) PROVE NothingForgotten'
  BY <1>5 DEF DeliverDuplicate, NothingForgotten
<1>6. ASSUME NEW n \in Forged, Reject(n) PROVE NothingForgotten'
  <2>1. \A m \in Notes : row'[m] = row[m]
    BY <1>0, <1>6, PipelineAssumption DEF Reject
  <2> QED
    BY <1>6, <2>1 DEF Reject, NothingForgotten
<1> QED
  BY <1>2, <1>3, <1>4, <1>5, <1>6 DEF Request, LoseEnqueue

\* As long as no enqueue is lost, the bookkeeping does not fail and no worker
\* dies, no recorded notification is let go of, however often the order
\* transition fails: what is not closed is queued or being worked on.
THEOREM NothingForgottenCorrect ==
  ASSUME Faults \cap {"enqueue", "bookkeeping", "worker"} = {}
  PROVE  Spec => []NothingForgotten
<1>1. Init => NothingForgotten
  BY DEF Init, NothingForgotten, NoRow, Absent
<1>2. TypeInv /\ Recorded /\ NothingForgotten /\ [Next]_vars => NothingForgotten'
  <2> SUFFICES ASSUME TypeInv, Recorded, NothingForgotten, [Next]_vars
               PROVE  NothingForgotten'
    OBVIOUS
  <2>1. ASSUME NEW j \in Jobs, Work(j) \/ Break(j) PROVE NothingForgotten'
    <3>1. Work(j) \/ BreakTransition(j)
      BY <2>1 DEF Break, BreakBookkeeping, Crash
    <3> QED
      BY <3>1, WorkForgetsNothing
  <2>2. CASE Request
    BY <2>2, RequestForgetsNothing
  <2>3. CASE Quiet \/ UNCHANGED vars
    BY <2>3 DEF Quiet, vars, NothingForgotten
  <2> QED
    BY <2>1, <2>2, <2>3 DEF Next
<1> QED
  BY <1>1, <1>2, TypeInit, TypeStep, RecordedInit, RecordedStep, PTL DEF Spec
-----------------------------------------------------------------------------
(* With the sweep of the monitor and the admins' acknowledgements.           *)

\* What the two do to the pipeline: at most one alert changes, and it is not
\* made to disappear.
AlertOnly ==
    /\ KeepPipeline
    /\ \/ UNCHANGED alert
       \/ \E k \in AlertKeys, s \in AlertStates \ {"none"} : alert' = [alert EXCEPT ![k] = s]

\* The types of the sweep and of the acknowledgement.
SweepOK == sweep \in [at: {"idle", "opening", "closing"},
                      listed: SUBSET Notes, left: SUBSET AlertKeys]
AckOK == acking \in {NoAck} \cup [read: AlertStates \ {"none"}, key: AlertKeys]

AlertInv == Booking /\ SweepOK /\ AckOK

\* Every step of the sweep is typed and changes the alerts only,
LEMMA SweepTyped == ASSUME AlertInv, SweepStep PROVE SweepOK' /\ AckOK' /\ AlertOnly
<1>0. /\ alert \in [AlertKeys -> AlertStates] /\ Notes \subseteq AlertKeys
      /\ sweep \in [at: {"idle", "opening", "closing"},
                    listed: SUBSET Notes, left: SUBSET AlertKeys]
  BY DEF AlertInv, Booking, TypeInv, TypeOK, SweepOK, AlertKeys
<1>1. CASE SweepRead
  <2> DEFINE failed == {n \in Notes : row[n].state = "FAILED" /\ row[n].attempts >= AlertAfter}
  <2>1. sweep' = [at |-> "opening", listed |-> failed, left |-> failed]
    BY <1>1 DEF SweepRead
  <2>2. failed \subseteq Notes /\ failed \subseteq AlertKeys
    BY <1>0
  <2> HIDE DEF failed
  <2>3. SweepOK'
    BY <2>1, <2>2 DEF SweepOK, AlertKeys
  <2>4. UNCHANGED <<vars, acking>>
    BY <1>1 DEF SweepRead
  <2> QED
    BY <2>3, <2>4 DEF AlertInv, AckOK, AlertStates, AlertKeys, AlertOnly, KeepPipeline, vars
<1>2. CASE SweepList
  <2> DEFINE rest == {k \in AlertKeys : alert[k] \in Unhandled} \ sweep.listed
  <2>1. sweep' = [sweep EXCEPT !.at = "closing", !.left = rest]
    BY <1>2 DEF SweepList
  <2>2. rest \subseteq AlertKeys
    OBVIOUS
  <2> HIDE DEF rest
  <2>3. SweepOK'
    BY <1>0, <2>1, <2>2 DEF SweepOK, AlertKeys
  <2>4. UNCHANGED <<vars, acking>>
    BY <1>2 DEF SweepList
  <2> QED
    BY <2>3, <2>4 DEF AlertInv, AckOK, AlertStates, AlertKeys, AlertOnly, KeepPipeline, vars
<1>3. CASE SweepEnd
  BY <1>3 DEF SweepEnd, SweepOK, NoSweep, AlertInv, AckOK, AlertStates, AlertKeys, AlertOnly,
              KeepPipeline, vars
<1>4. ASSUME NEW k \in AlertKeys, SweepOpen(k) \/ SweepClose(k)
      PROVE  SweepOK' /\ AckOK' /\ AlertOnly
  <2>1. sweep' = [sweep EXCEPT !.left = @ \ {k}] /\ KeepPipeline /\ UNCHANGED acking
    BY <1>4 DEF SweepOpen, SweepClose
  <2>2. SweepOK'
    BY <1>0, <2>1 DEF SweepOK, AlertKeys
  <2>3. AckOK'
    BY <2>1 DEF AlertInv, AckOK, AlertStates, AlertKeys
  <2>4. \/ UNCHANGED alert
        \/ \E s \in AlertStates \ {"none"} : alert' = [alert EXCEPT ![k] = s]
    <3>1. CASE SweepOpen(k)
      BY <3>1 DEF SweepOpen, AlertStates
    <3>2. CASE SweepClose(k) /\ alert[k] = "none"
      BY <1>0, <3>2 DEF SweepClose, Resolve
    <3>3. CASE SweepClose(k) /\ alert[k] # "none"
      <4>1. alert' = [alert EXCEPT ![k] = "resolved"]
        BY <1>0, <3>3 DEF SweepClose, Resolve
      <4> QED
        BY <4>1 DEF AlertStates
    <3> QED
      BY <1>4, <3>1, <3>2, <3>3
  <2> QED
    BY <2>1, <2>2, <2>3, <2>4 DEF AlertOnly
<1> QED
  BY <1>1, <1>2, <1>3, <1>4 DEF SweepStep

\* and so is every step of an acknowledgement.
LEMMA AckTyped ==
  ASSUME AlertInv, WriteAck \/ \E k \in AlertKeys : ReadForAck(k)
  PROVE  SweepOK' /\ AckOK' /\ AlertOnly
<1>0. alert \in [AlertKeys -> AlertStates]
  BY DEF AlertInv, Booking, TypeInv, TypeOK
<1>1. ASSUME NEW k \in AlertKeys, ReadForAck(k) PROVE SweepOK' /\ AckOK' /\ AlertOnly
  <2>1. AckOK'
    BY <1>0, <1>1 DEF ReadForAck, AckOK, AlertStates, AlertKeys
  <2>2. UNCHANGED <<vars, sweep>>
    BY <1>1 DEF ReadForAck
  <2> QED
    BY <2>1, <2>2 DEF AlertInv, SweepOK, AlertOnly, KeepPipeline, vars, AlertKeys
<1>2. CASE WriteAck
  <2> DEFINE s == IF acking.read = "resolved" THEN "resolved" ELSE "acknowledged"
  <2>1. acking.key \in AlertKeys
    BY <1>2 DEF WriteAck, AlertInv, AckOK
  <2>2. s \in AlertStates \ {"none"} /\ alert' = [alert EXCEPT ![acking.key] = s]
    BY <1>2 DEF WriteAck, AlertStates
  <2> HIDE DEF s
  <2>3. KeepPipeline /\ acking' = NoAck /\ UNCHANGED sweep
    BY <1>2 DEF WriteAck
  <2> QED
    BY <2>1, <2>2, <2>3 DEF AlertInv, AckOK, SweepOK, AlertOnly, AlertKeys
<1> QED
  BY <1>1, <1>2

\* Neither can unbook a payment or close an inbox row.
LEMMA AlertOnlyBooks == ASSUME Booking, AlertOnly PROVE Booking'
<1>1. UNCHANGED <<row, delivered, posting, job, status, booked>>
  BY DEF AlertOnly, KeepPipeline
<1>2. alert' \in [AlertKeys -> AlertStates]
  BY DEF AlertOnly, Booking, TypeInv, TypeOK
<1>3. TypeInv'
  BY <1>1, <1>2 DEF Booking, TypeInv, TypeOK, AttemptsLeft, Live, AlertKeys
<1> QED
  BY <1>1, <1>3, BookingKept DEF Keeps

\* The invariant of the pipeline with its alerts holds always.
LEMMA AlertsAlways == AlertSpec => []AlertInv
<1>1. AlertInit => AlertInv
  BY BookingInit DEF AlertInit, AlertInv, SweepOK, AckOK, NoSweep
<1>2. AlertInv /\ [AlertNext]_alertVars => AlertInv'
  <2> SUFFICES ASSUME AlertInv, [AlertNext]_alertVars PROVE AlertInv'
    OBVIOUS
  <2>1. CASE [Next]_vars /\ UNCHANGED <<sweep, acking>>
    BY <2>1, BookingStep DEF AlertInv, SweepOK, AckOK, AlertKeys, AlertStates, NoAck
  <2>2. CASE SweepStep
    BY <2>2, SweepTyped, AlertOnlyBooks DEF AlertInv
  <2>3. CASE WriteAck \/ \E k \in AlertKeys : ReadForAck(k)
    BY <2>3, AckTyped, AlertOnlyBooks DEF AlertInv
  <2> QED
    BY <2>1, <2>2, <2>3 DEF AlertNext, alertVars
<1> QED
  BY <1>1, <1>2, PTL DEF AlertSpec

\* The pipeline, the sweep and the acknowledgements keep their types together.
THEOREM AlertsTypeCorrect == AlertSpec => []AlertTypeOK
<1>1. AlertInv => AlertTypeOK
  BY DEF AlertInv, Booking, TypeInv, AlertTypeOK, SweepOK, AckOK
<1> QED BY <1>1, AlertsAlways, PTL

\* No payment is written off either while the monitor and the admins open,
\* acknowledge and resolve alerts from what they read earlier.
THEOREM AlertsPaidIsBooked == AlertSpec => []PaidIsBooked
<1>1. AlertInv => PaidIsBooked
  BY DEF AlertInv, Booking
<1> QED BY <1>1, AlertsAlways, PTL
=============================================================================
