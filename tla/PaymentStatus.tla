---------------------------- MODULE PaymentStatus ----------------------------
(***************************************************************************)
(* The status vocabulary of a PaymentOrder and the decision that           *)
(* PaymentsService.applyOrderTransition takes on it                        *)
(* (backend/src/modules/payments/payments.service.ts).  Nothing here has   *)
(* state: the modules that own the order row evaluate these operators on   *)
(* whatever copy of the row the code holds at that point.                  *)
(***************************************************************************)
EXTENDS Naturals

\* enum PaymentStatus of the Prisma schema.
Statuses == {"CREATED", "PENDING", "SETTLEMENT", "CAPTURE", "SUCCESS",
             "DENY", "CANCEL", "EXPIRE", "FAILURE", "REJECTED"}

SettledStatuses == {"SETTLEMENT", "CAPTURE", "SUCCESS"}

IsSettled(s) == s \in SettledStatuses

StatusRank == [s \in Statuses |->
                 CASE s = "CREATED"    -> 1
                   [] s = "PENDING"    -> 2
                   [] s = "CAPTURE"    -> 3
                   [] s = "SETTLEMENT" -> 4
                   [] s = "SUCCESS"    -> 5
                   [] OTHER            -> 9]

\* What Midtrans may report; "other" stands for every word the mapping does
\* not know (refund, chargeback, authorize, ...).
ProviderWords == {"settlement", "capture", "pending", "deny", "cancel", "expire", "other"}

\* mapMidtransStatus: a capture counts only when the fraud check accepted it.
MapMidtransStatus(word, fraudAccepted) ==
    CASE word = "settlement" -> "SETTLEMENT"
      [] word = "capture"    -> IF fraudAccepted THEN "CAPTURE" ELSE "PENDING"
      [] word = "pending"    -> "PENDING"
      [] word = "deny"       -> "DENY"
      [] word = "cancel"     -> "CANCEL"
      [] word = "expire"     -> "EXPIRE"
      [] OTHER               -> "FAILURE"

\* The statuses a caller of applyOrderTransition may ask for: the range of
\* the mapping (the local CANCEL and EXPIRE of a checkout are in it).
RequestedStatuses == {MapMidtransStatus(w, f) : w \in ProviderWords, f \in BOOLEAN}

\* Faulty variants of Verdict: without preserve_settlement, and with the rank
\* test applied to every requested status.
VerdictByRank(current, next, inconclusive) ==
    IF current = next \/ (~IsSettled(next) /\ StatusRank[next] < StatusRank[current])
    THEN "stale_transition" ELSE "applied"

VerdictMonotone(current, next, inconclusive) ==
    IF IsSettled(current) /\ ~IsSettled(next) THEN "preserve_settlement"
    ELSE IF StatusRank[next] <= StatusRank[current] THEN "stale_transition"
    ELSE "applied"

\* The guards of applyOrderTransition in their order.  `inconclusive' is the
\* third one's condition: a status check that came back without a status.
Verdict(current, next, inconclusive) ==
    IF current = next THEN "stale_transition"
    ELSE IF IsSettled(current) /\ ~IsSettled(next) THEN "preserve_settlement"
    ELSE IF inconclusive /\ next = "FAILURE" THEN "inconclusive_status_check"
    ELSE IF ~IsSettled(next) /\ StatusRank[next] < StatusRank[current] THEN "stale_transition"
    ELSE "applied"

\* Faulty variant of IsSuccess: only a pending order can become paid.
IsSuccessFromPending(current, next) == IsSettled(next) /\ current = "PENDING"

\* successTransition: the business effect runs when the order becomes settled.
IsSuccess(current, next) == IsSettled(next) /\ ~IsSettled(current)
=============================================================================
