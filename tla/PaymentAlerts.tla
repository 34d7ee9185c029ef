---------------------------- MODULE PaymentAlerts ----------------------------
(***************************************************************************)
(* The webhook pipeline together with the two other writers of its alerts: *)
(* the monitor cron that sweeps them every minute (scanAndSyncAlerts, run  *)
(* by payments-ops-monitor.service.ts) and the admin who acknowledges one  *)
(* (acknowledgeAlert).  Neither takes a lock or a transaction: the sweep   *)
(* decides on rows and alerts read earlier, the acknowledgement writes     *)
(* back a status it read before.                                           *)
(***************************************************************************)
EXTENDS WebhookPipeline

CONSTANT AlertAfter   \* PAYMENT_ALERT_FAILED_ATTEMPTS_THRESHOLD

ASSUME AlertAssumption == AlertAfter \in Nat

VARIABLES sweep,   \* the sweep under way
          acking   \* the acknowledgement under way, one admin at a time

alertVars == <<vars, sweep, acking>>

Unhandled == {"open", "acknowledged"}

NoSweep == [at |-> "idle", listed |-> {}, left |-> {}]
NoAck == [read |-> "none"]

AlertInit == Init /\ sweep = NoSweep /\ acking = NoAck

Resolve(k) ==
    alert' = [alert EXCEPT ![k] = IF @ = "none" THEN @ ELSE "resolved"]

KeepPipeline == UNCHANGED <<row, delivered, posting, job, status, booked>>


\* The failed rows with enough attempts are listed before anything is written.
SweepRead ==
    /\ sweep.at = "idle"
    /\ LET failed == {n \in Notes : row[n].state = "FAILED" /\ row[n].attempts >= AlertAfter}
       IN  sweep' = [at |-> "opening", listed |-> failed, left |-> failed]
    /\ UNCHANGED <<vars, acking>>

SweepOpen(k) ==
    /\ sweep.at = "opening" /\ k \in sweep.left
    /\ alert' = [alert EXCEPT ![k] = "open"]
    /\ sweep' = [sweep EXCEPT !.left = @ \ {k}]
    /\ KeepPipeline /\ UNCHANGED acking

\* Every other failure alert that is not resolved yet is to be closed.
SweepList ==
    /\ sweep.at = "opening" /\ sweep.left = {}
    /\ sweep' = [sweep EXCEPT !.at = "closing",
                    !.left = {k \in AlertKeys : alert[k] \in Unhandled} \ sweep.listed]
    /\ UNCHANGED <<vars, acking>>

SweepClose(k) ==
    /\ sweep.at = "closing" /\ k \in sweep.left
    /\ Resolve(k)
    /\ sweep' = [sweep EXCEPT !.left = @ \ {k}]
    /\ KeepPipeline /\ UNCHANGED acking

SweepEnd ==
    /\ sweep.at = "closing" /\ sweep.left = {}
    /\ sweep' = NoSweep
    /\ UNCHANGED <<vars, acking>>

SweepStep ==
    \/ SweepRead \/ SweepList \/ SweepEnd
    \/ \E k \in AlertKeys : SweepOpen(k) \/ SweepClose(k)

ReadForAck(k) ==
    /\ acking = NoAck
    /\ alert[k] # "none"
    /\ acking' = [read |-> alert[k], key |-> k]
    /\ UNCHANGED <<vars, sweep>>

WriteAck ==
    /\ acking # NoAck
    /\ alert' = [alert EXCEPT ![acking.key] =
                    IF acking.read = "resolved" THEN "resolved" ELSE "acknowledged"]
    /\ acking' = NoAck
    /\ KeepPipeline /\ UNCHANGED sweep

AlertNext ==
    \/ Next /\ UNCHANGED <<sweep, acking>>
    \/ SweepStep
    \/ \E k \in AlertKeys : ReadForAck(k)
    \/ WriteAck

AlertSpec == AlertInit /\ [][AlertNext]_alertVars

\* The pipeline's fairness, and a monitor cron that keeps firing and finishes.
AlertFairSpec ==
    /\ AlertSpec
    /\ \A j \in Jobs : /\ WF_alertVars(Enqueue(j) /\ UNCHANGED <<sweep, acking>>)
                       /\ SF_alertVars(Work(j) /\ UNCHANGED <<sweep, acking>>)
    /\ WF_alertVars(SweepStep)
-----------------------------------------------------------------------------
AlertTypeOK ==
    /\ TypeOK
    /\ sweep \in [at: {"idle", "opening", "closing"}, listed: SUBSET Notes, left: SUBSET AlertKeys]
    /\ acking \in {NoAck} \cup [read: AlertStates \ {"none"}, key: AlertKeys]

\* The worker is through with the notification and has left it failed.
Abandoned(n) ==
    /\ row[n].state = "FAILED"
    /\ \A j \in Jobs : j[1] = n => ~Live(j) /\ j \notin posting

=============================================================================
