------------------------------ MODULE Payouts ------------------------------
(***************************************************************************)
(* Payouts from a commission wallet: the owner's request                   *)
(* (referrals.service.ts, mitra.controller.ts, yayasan.controller.ts,      *)
(* finance.service.ts), the Disbursement row it leaves and an              *)
(* administrator's review of that row, with the call to the payout         *)
(* provider Midtrans IRIS (disbursements.service.ts).                      *)
(*                                                                         *)
(* The wallet has no balance column: what is available is computed from    *)
(* the commissions earned and the statuses of the rows each time.          *)
(***************************************************************************)
EXTENDS Integers, FiniteSets, Functions

CONSTANTS Procs,            \* requests that can be under way at once
          MaxRows,          \* bound: disbursement rows of the wallet
          MaxEarned,        \* bound: commission the wallet ever earns
          MaxReviews,       \* bound: reviews of one row
          MinimumWithdraw   \* referral program setting minimumWithdraw

ASSUME PayoutAssumption ==
    /\ MaxRows \in Nat
    /\ MaxEarned \in Nat
    /\ MaxReviews \in Nat
    /\ MinimumWithdraw \in Nat

Rows == 1..MaxRows
Amounts == 1..MaxEarned
Kinds == {"user_referral", "mitra", "yayasan", "developer"}

VARIABLES kind,        \* whose wallet it is
          earned,      \* sum of the wallet's commissions, for the developer a
                       \* percentage of all revenue, computed anew each time
          status,      \* row -> Disbursement.status, "ABSENT" before the row
          amount,      \* row -> Disbursement.amount
          sent,        \* row -> payouts made for it: accepted by the provider,
                       \* or transferred by hand
          pc,          \* process -> the request it is in
          reviews,     \* row -> reviews of it begun
          peak,        \* history: the most that was ever earned
          doubt,       \* history: rows whose accepted payout the backend took
                       \* for an error
          revived,     \* history: a released row was taken up again
          overlapped   \* history: two payout requests were under way at once

wallet == <<kind, earned>>
table == <<status, amount>>
history == <<reviews, peak, doubt, revived, overlapped>>
vars == <<wallet, table, sent, pc, history>>

Absent == "ABSENT"
Statuses == {"PENDING", "PROCESSING", "APPROVED", "REJECTED", "FAILED"}

Idle == [at |-> "idle"]

Init ==
    /\ kind \in Kinds
    /\ earned = 0
    /\ peak = 0
    /\ status = [r \in Rows |-> Absent]
    /\ amount = [r \in Rows |-> 0]
    /\ sent = [r \in Rows |-> 0]
    /\ pc = [p \in Procs |-> Idle]
    /\ reviews = [r \in Rows |-> 0]
    /\ doubt = {}
    /\ revived = FALSE
    /\ overlapped = FALSE

Total(S) == SumFunctionOnSet(amount, S)

Created == {r \in Rows : status[r] # Absent}

\* Faulty variant: what is with the provider is no longer reserved.
CommittedWithoutProcessing == {r \in Rows : status[r] \in {"PENDING", "APPROVED"}}

\* RESERVED_DISBURSEMENT_STATUSES: reserved and paid-out rows.
Committed == {r \in Rows : status[r] \in {"PENDING", "PROCESSING", "APPROVED"}}

Released == {r \in Rows : status[r] \in {"REJECTED", "FAILED"}}
Held == Created \ Released

\* What is left of a sum of commissions e, the same for all four wallets.
Available(e) == IF Total(Committed) > e THEN 0 ELSE e - Total(Committed)

At(p, step) == pc[p].at = step
Go(p, record) == pc' = [pc EXCEPT ![p] = record]
-----------------------------------------------------------------------------
(* The owner's request.                                                      *)

EarnedIs(e) ==
    /\ earned' = e
    /\ peak' = IF e > peak THEN e ELSE peak
    /\ UNCHANGED <<kind, table, sent, pc, reviews, doubt, revived, overlapped>>

\* Another payment of a referred user is booked.
Earn == earned < MaxEarned /\ EarnedIs(earned + 1)

\* Revenue rows carry no developer fee of their own: another devFeePercent
\* changes what every one of them is worth to the developer.
SetDevFeePercent(e) == kind = "developer" /\ EarnedIs(e)

\* The commissions are read, then the rows ...
ReadEarned(p) ==
    /\ At(p, "idle")
    /\ Go(p, [at |-> "read", earned |-> earned])
    /\ UNCHANGED <<wallet, table, sent, history>>

\* ... and the new row is written later.
Request(p, n) ==
    /\ At(p, "read")
    /\ n <= Available(pc[p].earned)
    /\ Go(p, [at |-> "create", amount |-> n])
    /\ overlapped' = (overlapped \/ \E q \in Procs \ {p} : At(q, "create"))
    /\ UNCHANGED <<wallet, table, sent, reviews, peak, doubt, revived>>

RequestWithdraw(p, n) == kind = "user_referral" /\ n >= MinimumWithdraw /\ Request(p, n)
WithdrawMitra(p, n) == kind = "mitra" /\ Request(p, n)
WithdrawYayasan(p, n) == kind = "yayasan" /\ Request(p, n)
CreateDeveloperDisbursement(p, n) == kind = "developer" /\ Request(p, n)

CreateDisbursement(p) ==
    /\ At(p, "create")
    /\ Cardinality(Created) < MaxRows
    /\ LET r == Cardinality(Created) + 1
       IN  /\ status' = [status EXCEPT ![r] = "PENDING"]
           /\ amount' = [amount EXCEPT ![r] = pc[p].amount]
    /\ Go(p, Idle)
    /\ UNCHANGED <<wallet, sent, history>>
-----------------------------------------------------------------------------
(* The review.  No path of processDisbursement looks at the row's status.    *)

Review(r) ==
    /\ r \in Created
    /\ reviews[r] < MaxReviews
    /\ reviews' = [reviews EXCEPT ![r] = @ + 1]

\* Every write of a status is blind.
Write(r, next) ==
    /\ status' = [status EXCEPT ![r] = next]
    /\ revived' = (revived \/ (r \in Released /\ next \notin {"REJECTED", "FAILED"}))

Pay(r) == sent' = [sent EXCEPT ![r] = @ + 1]

Reject(r) ==
    /\ Review(r)
    /\ Write(r, "REJECTED")
    /\ UNCHANGED <<wallet, amount, sent, pc, peak, doubt, overlapped>>

\* Mode manual: the administrator has transferred the money (mode mock, for
\* tests of the deployment, writes the same).
ApproveManually(r) ==
    /\ Review(r)
    /\ Write(r, "APPROVED")
    /\ Pay(r)
    /\ UNCHANGED <<wallet, amount, pc, peak, doubt, overlapped>>

\* The endpoints kept for the old administration pages.
ApproveLegacy(r) == kind \in {"mitra", "yayasan"} /\ ApproveManually(r)
RejectLegacy(r) == kind \in {"mitra", "yayasan"} /\ Reject(r)

Accepting == {"approved", "queued"}
Words == Accepting \cup {"failed", "rejected"}

\* Faulty variant: a word the backend does not know is a failure.
UnknownWordFails(word) ==
    CASE word = "approved" -> "APPROVED"
      [] word = "rejected" -> "REJECTED"
      [] OTHER             -> "FAILED"

\* Faulty variant: a word the backend does not know is stored as it is.
UnknownWordKept(word) ==
    CASE word = "approved" -> "APPROVED"
      [] word = "failed"   -> "FAILED"
      [] word = "rejected" -> "REJECTED"
      [] OTHER             -> word

\* mapProviderStatusToDisbursementStatus; "queued" is any other word.
MapProviderStatus(word) ==
    CASE word = "approved" -> "APPROVED"
      [] word = "failed"   -> "FAILED"
      [] word = "rejected" -> "REJECTED"
      [] OTHER             -> "PROCESSING"

\* submitMidtransIris.  "error" is a payout that was not submitted or that the
\* provider refused, "lost" one that it accepted without its answer arriving.
Submit(p, r, answer) ==
    /\ At(p, "idle")
    /\ Review(r)
    /\ answer \in Words \cup {"error", "lost"}
    /\ IF answer \in Accepting \cup {"lost"} THEN Pay(r) ELSE UNCHANGED sent
    /\ doubt' = IF answer = "lost" THEN doubt \cup {r} ELSE doubt
    /\ Go(p, [at |-> "record", row |-> r, answer |-> answer])
    /\ UNCHANGED <<wallet, table, peak, revived, overlapped>>

\* The answer's status is written, in the catch block always FAILED.
Record(p) ==
    /\ At(p, "record")
    /\ Write(pc[p].row, IF pc[p].answer \in Words
                        THEN MapProviderStatus(pc[p].answer) ELSE "FAILED")
    /\ Go(p, Idle)
    /\ UNCHANGED <<wallet, amount, sent, reviews, peak, doubt, overlapped>>

\* The first write throws: the catch block does not tell it from a refusal.
RecordThrows(p) ==
    /\ At(p, "record")
    /\ pc[p].answer \in Words
    /\ Go(p, [pc[p] EXCEPT !.answer = "error"])
    /\ doubt' = IF pc[p].answer \in Accepting THEN doubt \cup {pc[p].row} ELSE doubt
    /\ UNCHANGED <<wallet, table, sent, reviews, peak, revived, overlapped>>

\* A restart, or both writes throw.
Break(p) ==
    /\ ~At(p, "idle")
    /\ Go(p, Idle)
    /\ UNCHANGED <<wallet, table, sent, history>>

Owner(p) ==
    \/ \E n \in Amounts : \/ RequestWithdraw(p, n) \/ WithdrawMitra(p, n)
                          \/ WithdrawYayasan(p, n) \/ CreateDeveloperDisbursement(p, n)
    \/ ReadEarned(p) \/ CreateDisbursement(p)

Admin(p, r) ==
    \/ Reject(r) \/ ApproveManually(r) \/ ApproveLegacy(r) \/ RejectLegacy(r)
    \/ \E answer \in Words \cup {"error", "lost"} : Submit(p, r, answer)

Next ==
    \/ Earn
    \/ \E e \in 0..MaxEarned : SetDevFeePercent(e)
    \/ \E p \in Procs : \/ Owner(p) \/ (\E r \in Rows : Admin(p, r))
                        \/ Record(p) \/ RecordThrows(p) \/ Break(p)

Spec == Init /\ [][Next]_vars
-----------------------------------------------------------------------------
PcRecords ==
    {Idle} \cup [at: {"read"}, earned: 0..MaxEarned]
           \cup [at: {"create"}, amount: Amounts]
           \cup [at: {"record"}, row: Rows, answer: Words \cup {"error", "lost"}]

TypeOK ==
    /\ kind \in Kinds
    /\ earned \in 0..MaxEarned /\ peak \in 0..MaxEarned
    /\ status \in [Rows -> Statuses \cup {Absent}]
    /\ amount \in [Rows -> 0..MaxEarned]
    /\ sent \in [Rows -> 0..MaxReviews]
    /\ pc \in [Procs -> PcRecords]
    /\ reviews \in [Rows -> 0..MaxReviews]
    /\ doubt \subseteq Rows
    /\ revived \in BOOLEAN
    /\ overlapped \in BOOLEAN

\* What may leave the wallet: the commissions earned.  The developer's can come
\* to less than was paid out of them, once the percentage is lowered: there it is
\* the most they ever came to.
Ceiling == IF kind = "developer" THEN peak ELSE earned

\* Payout requests that do not overlap never commit more than that ("Saldo wallet
\* referral tidak mencukupi", requestWithdraw), whatever is earned, reviewed or
\* set between the reads and the write of a request, unless a review takes up a
\* rejected or failed row again, whose money the owner may have asked for a
\* second time.
WalletCovers == ~overlapped /\ ~revived => Total(Held) <= Ceiling

\* A rejected or failed row gives its amount back to the wallet.  Nothing was
\* paid for it, unless the backend took an accepted payout for an error or the
\* row was reviewed a second time (processDisbursement).
ReleasedIsUnpaid == \A r \in Released \ doubt : reviews[r] <= 1 => sent[r] = 0

\* The money that leaves, in whatever order reviews, answers and further
\* requests interleave, is money that was earned by then: as long as no two
\* requests overlap, no row is reviewed twice and no accepted payout is taken for
\* an error.
MoneyOutIsEarned ==
    ~overlapped /\ doubt = {} /\ (\A r \in Rows : reviews[r] <= 1) =>
        SumFunction([r \in Rows |-> amount[r] * sent[r]]) <= Ceiling
=============================================================================
