--------------------------- MODULE PayoutsProofs ---------------------------
(***************************************************************************)
(* Proofs about Payouts, for any number of requests, rows, reviews and any *)
(* amount earned.                                                          *)
(***************************************************************************)
EXTENDS Payouts, FiniteSetTheorems, WellFoundedInduction, TLAPS

RecordRecords == [at: {"record"}, row: Rows, answer: Words \cup {"error", "lost"}]
CreateRecords == [at: {"create"}, amount: Amounts]
ReadRecords == [at: {"read"}, earned: 0..MaxEarned]

\* A payout is never made without a review of its own.
PaidByReview == \A r \in Rows : sent[r] <= reviews[r]

TypeInv == TypeOK /\ PaidByReview
-----------------------------------------------------------------------------
(* Types.                                                                    *)

\* What a request at a step carries.
LEMMA Carried ==
    ASSUME TypeOK, NEW p \in Procs
    PROVE  /\ At(p, "create") => pc[p].amount \in Amounts
           /\ At(p, "record") => pc[p].row \in Rows /\ pc[p].answer \in Words \cup {"error", "lost"}
           /\ At(p, "record") => pc[p] \in RecordRecords
           /\ At(p, "read") => pc[p].earned \in 0..MaxEarned
  <1>1. pc[p] \in {Idle} \cup ReadRecords \cup CreateRecords \cup RecordRecords
    BY DEF TypeOK, PcRecords, ReadRecords, CreateRecords, RecordRecords
  <1>2. CASE pc[p] = Idle
    BY <1>2 DEF At, Idle
  <1>3. CASE pc[p] \in CreateRecords
    BY <1>3 DEF At, CreateRecords
  <1>4. CASE pc[p] \in RecordRecords
    BY <1>4 DEF At, RecordRecords
  <1>5. CASE pc[p] \in ReadRecords
    BY <1>5 DEF At, ReadRecords
  <1> QED
    BY <1>1, <1>2, <1>3, <1>4, <1>5

\* One request moves on.
LEMMA Going ==
    ASSUME TypeOK, NEW p \in Procs, NEW x, Go(p, x)
    PROVE  /\ x \in PcRecords => pc' \in [Procs -> PcRecords]
           /\ pc'[p] = x /\ \A q \in Procs \ {p} : pc'[q] = pc[q]
  BY DEF TypeOK, Go

\* One row's entry is replaced.
LEMMA Replacing ==
    ASSUME NEW S, NEW f \in [Rows -> S], NEW r \in Rows, NEW v
    PROVE  /\ v \in S => [f EXCEPT ![r] = v] \in [Rows -> S]
           /\ [f EXCEPT ![r] = v][r] = v
           /\ \A s \in Rows \ {r} : [f EXCEPT ![r] = v][s] = f[s]
  OBVIOUS

\* The next row is one there may be.
LEMMA NextRow ==
    ASSUME Cardinality(Created) < MaxRows
    PROVE  Cardinality(Created) + 1 \in Rows
  <1>1. IsFiniteSet(Rows)
    BY PayoutAssumption, FS_Interval DEF Rows
  <1>2. Cardinality(Created) \in Nat
    BY <1>1, FS_Subset, FS_CardinalityType DEF Created
  <1> QED
    BY <1>2, PayoutAssumption DEF Rows

\* A review is counted.
LEMMA Reviewing ==
    ASSUME TypeOK, NEW r \in Rows, Review(r)
    PROVE  /\ reviews' \in [Rows -> 0..MaxReviews] /\ reviews'[r] = reviews[r] + 1
           /\ \A s \in Rows \ {r} : reviews'[s] = reviews[s]
  <1>1. reviews[r] + 1 \in 0..MaxReviews
    BY PayoutAssumption DEF TypeOK, Review
  <1> QED
    BY <1>1 DEF TypeOK, Review

\* So is a payout, which a review allows.
LEMMA Paying ==
    ASSUME TypeInv, NEW r \in Rows, Review(r), Pay(r) \/ UNCHANGED sent
    PROVE  sent' \in [Rows -> 0..MaxReviews] /\ PaidByReview'
  <1>1. /\ reviews' \in [Rows -> 0..MaxReviews] /\ reviews'[r] = reviews[r] + 1
        /\ \A s \in Rows \ {r} : reviews'[s] = reviews[s]
    BY Reviewing DEF TypeInv
  <1>2. sent[r] + 1 \in 0..MaxReviews /\ sent \in [Rows -> 0..MaxReviews]
        /\ \A s \in Rows : sent[s] \in Nat /\ reviews[s] \in Nat
    BY <1>1, PayoutAssumption DEF TypeInv, TypeOK, PaidByReview, Review
  <1>3. CASE Pay(r)
    <2>1. /\ sent' \in [Rows -> 0..MaxReviews] /\ sent'[r] = sent[r] + 1
          /\ \A s \in Rows \ {r} : sent'[s] = sent[s]
      BY <1>2, <1>3 DEF Pay
    <2>2. PaidByReview'
      BY <1>1, <1>2, <2>1 DEF PaidByReview, TypeInv
    <2> QED
      BY <2>1, <2>2
  <1>4. CASE UNCHANGED sent
    BY <1>1, <1>2, <1>4 DEF PaidByReview, TypeInv
  <1> QED
    BY <1>3, <1>4

\* What is written for an answer is a status.
LEMMA Answered ==
    ASSUME NEW word \in Words
    PROVE  /\ MapProviderStatus(word) \in Statuses
           /\ word \in Accepting => MapProviderStatus(word) \in {"APPROVED", "PROCESSING"}
  BY DEF MapProviderStatus, Words, Accepting, Statuses

\* A status is written.
LEMMA Writing ==
    ASSUME TypeOK, NEW r \in Rows, NEW next \in Statuses, Write(r, next)
    PROVE  /\ status' \in [Rows -> Statuses \cup {Absent}] /\ revived' \in BOOLEAN
           /\ status'[r] = next /\ \A s \in Rows \ {r} : status'[s] = status[s]
  BY DEF TypeOK, Write

\* Every step keeps the types.
LEMMA TypeStep == TypeInv /\ [Next]_vars => TypeInv'
  <1> SUFFICES ASSUME TypeInv, [Next]_vars PROVE TypeInv'
    OBVIOUS
  <1>0. TypeOK /\ PaidByReview
    BY DEF TypeInv
  <1>i. Idle \in PcRecords
    BY DEF PcRecords
  <1>e. ASSUME NEW e \in 0..MaxEarned, EarnedIs(e) PROVE TypeInv'
    <2>1. earned' \in 0..MaxEarned /\ peak' \in 0..MaxEarned
      BY <1>0, <1>e DEF EarnedIs, TypeOK
    <2> QED
      BY <1>0, <1>e, <2>1 DEF EarnedIs, TypeInv, TypeOK, PaidByReview, table
  <1>1. CASE Earn
    <2>1. earned + 1 \in 0..MaxEarned
      BY <1>0, <1>1, PayoutAssumption DEF Earn, TypeOK
    <2> QED
      BY <1>1, <1>e, <2>1 DEF Earn
  <1>a. ASSUME NEW e \in 0..MaxEarned, SetDevFeePercent(e) PROVE TypeInv'
    BY <1>a, <1>e DEF SetDevFeePercent
  <1>b. ASSUME NEW p \in Procs, ReadEarned(p) PROVE TypeInv'
    <2>1. [at |-> "read", earned |-> earned] \in PcRecords
      BY <1>0 DEF PcRecords, TypeOK
    <2>2. pc' \in [Procs -> PcRecords]
      BY <1>0, <1>b, <2>1, Going DEF ReadEarned
    <2> QED
      BY <1>0, <1>b, <2>2 DEF ReadEarned, TypeInv, TypeOK, PaidByReview, wallet, table, history
  <1>2. ASSUME NEW p \in Procs, NEW n \in Amounts, Request(p, n) PROVE TypeInv'
    <2>1. [at |-> "create", amount |-> n] \in PcRecords
      BY DEF PcRecords
    <2>2. pc' \in [Procs -> PcRecords]
      BY <1>0, <1>2, <2>1, Going DEF Request
    <2>3. overlapped' \in BOOLEAN
      BY <1>0, <1>2 DEF Request, TypeOK
    <2> QED
      BY <1>0, <1>2, <2>2, <2>3 DEF Request, TypeInv, TypeOK, PaidByReview, wallet, table
  <1>3. ASSUME NEW p \in Procs, CreateDisbursement(p) PROVE TypeInv'
    <2> DEFINE r == Cardinality(Created) + 1
    <2>1. r \in Rows
      BY <1>3, NextRow DEF CreateDisbursement
    <2>2. status' = [status EXCEPT ![r] = "PENDING"] /\ amount' = [amount EXCEPT ![r] = pc[p].amount]
      BY <1>3 DEF CreateDisbursement
    <2> HIDE DEF r
    <2>3. pc[p].amount \in 0..MaxEarned
      BY <1>0, <1>3, Carried DEF CreateDisbursement, Amounts
    <2>4. status' \in [Rows -> Statuses \cup {Absent}]
      BY <1>0, <2>1, <2>2, Replacing DEF TypeOK, Statuses
    <2>5. amount' \in [Rows -> 0..MaxEarned]
      BY <1>0, <2>1, <2>2, <2>3, Replacing DEF TypeOK
    <2>6. pc' \in [Procs -> PcRecords]
      BY <1>0, <1>3, <1>i, Going DEF CreateDisbursement
    <2> QED
      BY <1>0, <1>3, <2>4, <2>5, <2>6
         DEF CreateDisbursement, TypeInv, TypeOK, PaidByReview, wallet, history
  <1>4. ASSUME NEW r \in Rows, Reject(r) PROVE TypeInv'
    <2>1. status' \in [Rows -> Statuses \cup {Absent}] /\ revived' \in BOOLEAN
      BY <1>0, <1>4, Writing DEF Reject, Statuses
    <2>2. reviews' \in [Rows -> 0..MaxReviews] /\ PaidByReview'
      BY <1>0, <1>4, Reviewing, Paying DEF Reject
    <2> QED
      BY <1>0, <1>4, <2>1, <2>2 DEF Reject, TypeInv, TypeOK, wallet
  <1>5. ASSUME NEW r \in Rows, ApproveManually(r) PROVE TypeInv'
    <2>1. status' \in [Rows -> Statuses \cup {Absent}] /\ revived' \in BOOLEAN
      BY <1>0, <1>5, Writing DEF ApproveManually, Statuses
    <2>2. /\ reviews' \in [Rows -> 0..MaxReviews] /\ sent' \in [Rows -> 0..MaxReviews]
          /\ PaidByReview'
      BY <1>0, <1>5, Reviewing, Paying DEF ApproveManually
    <2> QED
      BY <1>0, <1>5, <2>1, <2>2 DEF ApproveManually, TypeInv, TypeOK, wallet
  <1>6. ASSUME NEW p \in Procs, NEW r \in Rows, NEW answer, Submit(p, r, answer) PROVE TypeInv'
    <2>1. answer \in Words \cup {"error", "lost"}
      BY <1>6 DEF Submit
    <2>2. [at |-> "record", row |-> r, answer |-> answer] \in PcRecords
      BY <2>1 DEF PcRecords
    <2>3. pc' \in [Procs -> PcRecords]
      BY <1>0, <1>6, <2>2, Going DEF Submit
    <2>4. Review(r) /\ (Pay(r) \/ UNCHANGED sent)
      BY <1>6 DEF Submit
    <2>5. /\ reviews' \in [Rows -> 0..MaxReviews] /\ sent' \in [Rows -> 0..MaxReviews]
          /\ PaidByReview'
      BY <1>0, <2>4, Reviewing, Paying
    <2>6. doubt' \subseteq Rows
      BY <1>0, <1>6 DEF Submit, TypeOK
    <2> QED
      BY <1>0, <1>6, <2>3, <2>5, <2>6 DEF Submit, TypeInv, TypeOK, wallet, table
  <1>7. ASSUME NEW p \in Procs, Record(p) PROVE TypeInv'
    <2> DEFINE next == IF pc[p].answer \in Words THEN MapProviderStatus(pc[p].answer) ELSE "FAILED"
    <2>1. pc[p].row \in Rows /\ next \in Statuses
      BY <1>0, <1>7, Carried, Answered DEF Record, Statuses
    <2>2. Write(pc[p].row, next)
      BY <1>7 DEF Record
    <2> HIDE DEF next
    <2>3. status' \in [Rows -> Statuses \cup {Absent}] /\ revived' \in BOOLEAN
      BY <1>0, <2>1, <2>2, Writing
    <2>4. pc' \in [Procs -> PcRecords]
      BY <1>0, <1>7, <1>i, Going DEF Record
    <2> QED
      BY <1>0, <1>7, <2>3, <2>4 DEF Record, TypeInv, TypeOK, PaidByReview, wallet
  <1>8. ASSUME NEW p \in Procs, RecordThrows(p) PROVE TypeInv'
    <2>1. pc[p] \in RecordRecords
      BY <1>0, <1>8, Carried DEF RecordThrows
    <2>2. [pc[p] EXCEPT !.answer = "error"] \in PcRecords
      BY <2>1 DEF RecordRecords, PcRecords
    <2>3. pc' \in [Procs -> PcRecords]
      BY <1>0, <1>8, <2>2, Going DEF RecordThrows
    <2>4. doubt' \subseteq Rows
      BY <1>0, <1>8, Carried DEF RecordThrows, TypeOK
    <2> QED
      BY <1>0, <1>8, <2>3, <2>4 DEF RecordThrows, TypeInv, TypeOK, PaidByReview, wallet, table
  <1>9. ASSUME NEW p \in Procs, Break(p) PROVE TypeInv'
    <2>1. pc' \in [Procs -> PcRecords]
      BY <1>0, <1>9, <1>i, Going DEF Break
    <2> QED
      BY <1>0, <1>9, <2>1 DEF Break, TypeInv, TypeOK, PaidByReview, wallet, table, history
  <1>10. CASE UNCHANGED vars
    BY <1>0, <1>10 DEF vars, TypeInv, TypeOK, PaidByReview, wallet, table, history
  <1> QED
    BY <1>1, <1>a, <1>b, <1>2, <1>3, <1>4, <1>5, <1>6, <1>7, <1>8, <1>9, <1>10
       DEF Next, Owner, Admin, RequestWithdraw, WithdrawMitra, WithdrawYayasan,
           CreateDeveloperDisbursement, ApproveLegacy, RejectLegacy

\* They hold initially.
LEMMA TypeInit == Init => TypeInv
  <1> SUFFICES ASSUME Init PROVE TypeInv
    OBVIOUS
  <1>1. 0 \in 0..MaxEarned /\ 0 \in 0..MaxReviews
    BY PayoutAssumption
  <1>2. pc \in [Procs -> PcRecords]
    BY DEF Init, PcRecords
  <1>3. sent \in [Rows -> 0..MaxReviews] /\ reviews \in [Rows -> 0..MaxReviews] /\ amount \in [Rows -> 0..MaxEarned]
    BY <1>1 DEF Init
  <1>4. PaidByReview
    BY DEF Init, PaidByReview
  <1>5. status \in [Rows -> Statuses \cup {Absent}]
    BY DEF Init
  <1>6. kind \in Kinds /\ earned \in 0..MaxEarned /\ peak \in 0..MaxEarned /\ doubt \subseteq Rows /\ revived \in BOOLEAN /\ overlapped \in BOOLEAN
    BY <1>1 DEF Init
  <1> QED
    BY <1>2, <1>3, <1>4, <1>5, <1>6 DEF TypeInv, TypeOK

\* Wallet, rows and requests keep their types.
THEOREM TypeCorrect == Spec => []TypeOK
  <1>1. TypeInv => TypeOK
    BY DEF TypeInv
  <1> QED
    BY <1>1, TypeInit, TypeStep, PTL DEF Spec
-----------------------------------------------------------------------------
(* What is released was not paid.                                            *)

\* A review of row r waits to write its answer.
Recording(p, r) == At(p, "record") /\ pc[p].row = r

\* A row that was never reviewed.
Fresh(r) ==
    reviews[r] = 0 =>
        /\ sent[r] = 0
        /\ status[r] \in {Absent, "PENDING"}
        /\ \A p \in Procs : ~Recording(p, r)

\* A row that was reviewed once: while the answer is under way nothing was
\* written, and only an answer that accepts the payout has paid.
Once(r) ==
    reviews[r] = 1 =>
        /\ status[r] \in {"REJECTED", "FAILED"} => sent[r] = 0
        /\ \A p \in Procs : Recording(p, r) =>
              /\ status[r] = "PENDING"
              /\ pc[p].answer \notin Accepting => sent[r] = 0
        /\ \A p, q \in Procs : Recording(p, r) /\ Recording(q, r) => p = q

Sound(r) == r \notin doubt => Fresh(r) /\ Once(r)
Unpaid == \A r \in Rows : Sound(r)

\* A step that leaves a row, its reviews and the requests for it alone.
LEMMA Alone ==
    ASSUME NEW r \in Rows, Sound(r), reviews'[r] = reviews[r], sent'[r] = sent[r],
           status'[r] = status[r] \/ (status'[r] = "PENDING"), doubt \subseteq doubt',
           \A p \in Procs : Recording(p, r)' => Recording(p, r) /\ pc'[p] = pc[p]
    PROVE  Sound(r)'
  <1> SUFFICES ASSUME r \notin doubt' PROVE Fresh(r)' /\ Once(r)'
    BY DEF Sound
  <1>1. Fresh(r) /\ Once(r)
    BY DEF Sound
  <1>2. Fresh(r)'
    BY <1>1 DEF Fresh
  <1>3. Once(r)'
    BY <1>1 DEF Once
  <1> QED
    BY <1>2, <1>3

\* Every step keeps Unpaid.
LEMMA UnpaidStep == TypeInv /\ Unpaid /\ [Next]_vars => Unpaid'
  <1> SUFFICES ASSUME TypeInv, Unpaid, [Next]_vars, NEW s \in Rows PROVE Sound(s)'
    BY DEF Unpaid
  <1>0. TypeOK /\ Sound(s) /\ reviews[s] \in Nat /\ sent[s] \in Nat
    BY PayoutAssumption DEF TypeInv, TypeOK, Unpaid
  <1>p. ASSUME NEW p \in Procs, NEW x, Go(p, x), x.at # "record"
        PROVE  \A q \in Procs : Recording(q, s)' => Recording(q, s) /\ pc'[q] = pc[q] /\ q # p
    <2>1. pc'[p] = x /\ \A q \in Procs \ {p} : pc'[q] = pc[q]
      BY <1>0, <1>p, Going
    <2> QED
      BY <1>p, <2>1 DEF Recording, At
  <1>u. ASSUME UNCHANGED pc
        PROVE  \A q \in Procs : Recording(q, s)' => Recording(q, s) /\ pc'[q] = pc[q]
    BY <1>u DEF Recording, At
  <1>i. Idle.at = "idle"
    BY DEF Idle
  <1>e. ASSUME NEW e, EarnedIs(e) PROVE Sound(s)'
    BY <1>0, <1>e, <1>u, Alone DEF EarnedIs, table
  <1>1. CASE Earn
    BY <1>1, <1>e DEF Earn
  <1>a. ASSUME NEW e \in 0..MaxEarned, SetDevFeePercent(e) PROVE Sound(s)'
    BY <1>a, <1>e DEF SetDevFeePercent
  <1>b. ASSUME NEW p \in Procs, ReadEarned(p) PROVE Sound(s)'
    <2> DEFINE x == [at |-> "read", earned |-> earned]
    <2>1. Go(p, x) /\ x.at = "read"
      BY <1>b DEF ReadEarned
    <2> HIDE DEF x
    <2>2. \A q \in Procs : Recording(q, s)' => Recording(q, s) /\ pc'[q] = pc[q]
      BY <1>p, <2>1
    <2> QED
      BY <1>0, <1>b, <2>2, Alone DEF ReadEarned, table, history
  <1>2. ASSUME NEW p \in Procs, NEW n \in Amounts, Request(p, n) PROVE Sound(s)'
    <2> DEFINE x == [at |-> "create", amount |-> n]
    <2>1. Go(p, x) /\ x.at = "create"
      BY <1>2 DEF Request
    <2> HIDE DEF x
    <2>2. \A q \in Procs : Recording(q, s)' => Recording(q, s) /\ pc'[q] = pc[q]
      BY <1>p, <2>1
    <2> QED
      BY <1>0, <1>2, <2>2, Alone DEF Request, table
  <1>3. ASSUME NEW p \in Procs, CreateDisbursement(p) PROVE Sound(s)'
    <2> DEFINE r == Cardinality(Created) + 1
    <2>1. r \in Rows /\ status' = [status EXCEPT ![r] = "PENDING"]
      BY <1>3, NextRow DEF CreateDisbursement
    <2> HIDE DEF r
    <2>2. status'[s] = status[s] \/ status'[s] = "PENDING"
      BY <1>0, <2>1 DEF TypeOK
    <2>3. \A q \in Procs : Recording(q, s)' => Recording(q, s) /\ pc'[q] = pc[q]
      BY <1>3, <1>i, <1>p DEF CreateDisbursement
    <2> QED
      BY <1>0, <1>3, <2>2, <2>3, Alone DEF CreateDisbursement, history
  \* The review of a row by hand.
  <1>h. ASSUME NEW r \in Rows, NEW next \in {"REJECTED", "APPROVED"}, Review(r), Write(r, next),
               next = "REJECTED" => UNCHANGED sent, Pay(r) \/ UNCHANGED sent,
               UNCHANGED <<pc, doubt>>
        PROVE  Sound(s)'
    <2>1. reviews'[r] = reviews[r] + 1 /\ \A q \in Rows \ {r} : reviews'[q] = reviews[q]
      BY <1>0, <1>h, Reviewing
    <2>2. status'[r] = next /\ \A q \in Rows \ {r} : status'[q] = status[q]
      BY <1>0, <1>h, Writing DEF Statuses
    <2>3. CASE s # r
      <3>1. sent'[s] = sent[s]
        BY <1>0, <1>h, <2>3 DEF Pay, TypeOK
      <3> QED
        BY <1>0, <1>h, <1>u, <2>1, <2>2, <2>3, <3>1, Alone
    <2>4. CASE s = r
      <3>1. reviews'[s] # 0 /\ (reviews'[s] = 1 => reviews[s] = 0)
        BY <1>0, <2>1, <2>4
      <3>2. s \notin doubt /\ reviews[s] = 0 =>
               sent[s] = 0 /\ \A q \in Procs : ~Recording(q, s)'
        BY <1>0, <1>h, <1>u DEF Sound, Fresh
      <3>3. status'[s] = "REJECTED" => sent'[s] = sent[s]
        BY <1>h, <2>2, <2>4
      <3>4. s \notin doubt => Once(s)'
        BY <2>2, <2>4, <3>1, <3>2, <3>3 DEF Once
      <3> QED
        BY <1>h, <3>1, <3>4 DEF Sound, Fresh
    <2> QED
      BY <2>3, <2>4
  <1>4. ASSUME NEW r \in Rows, Reject(r) PROVE Sound(s)'
    BY <1>4, <1>h DEF Reject
  <1>5. ASSUME NEW r \in Rows, ApproveManually(r) PROVE Sound(s)'
    BY <1>5, <1>h DEF ApproveManually
  <1>6. ASSUME NEW p \in Procs, NEW r \in Rows, NEW answer, Submit(p, r, answer) PROVE Sound(s)'
    <2> DEFINE x == [at |-> "record", row |-> r, answer |-> answer]
    <2>1. x.at = "record" /\ x.row = r /\ x.answer = answer /\ Go(p, x)
      BY <1>6 DEF Submit
    <2> HIDE DEF x
    <2>2. pc'[p] = x /\ (\A q \in Procs \ {p} : pc'[q] = pc[q]) /\ At(p, "idle")
      BY <1>0, <1>6, <2>1, Going DEF Submit
    <2>3. /\ reviews'[r] = reviews[r] + 1 /\ \A q \in Rows \ {r} : reviews'[q] = reviews[q]
          /\ status' = status
      BY <1>0, <1>6, Reviewing DEF Submit, table
    <2>4. CASE s # r
      <3>1. sent'[s] = sent[s] /\ doubt \subseteq doubt'
        BY <1>0, <1>6, <2>4 DEF Submit, Pay, TypeOK
      <3>2. \A q \in Procs : Recording(q, s)' => Recording(q, s) /\ pc'[q] = pc[q]
        BY <2>1, <2>2, <2>4 DEF Recording, At
      <3> QED
        BY <1>0, <2>3, <2>4, <3>1, <3>2, Alone
    <2>5. CASE s = r
      <3> SUFFICES ASSUME s \notin doubt' PROVE Fresh(s)' /\ Once(s)'
        BY DEF Sound
      <3>1. reviews'[s] # 0 /\ (reviews'[s] = 1 => reviews[s] = 0)
        BY <1>0, <2>3, <2>5
      <3>2. s \notin doubt /\ answer # "lost"
        BY <1>6, <2>5 DEF Submit
      <3>3. answer \notin Accepting => sent' = sent
        BY <1>6, <3>2 DEF Submit
      <3>4. reviews[s] = 0 => /\ sent[s] = 0 /\ status[s] \in {Absent, "PENDING"}
                              /\ \A q \in Procs : ~Recording(q, s)
        BY <1>0, <3>2 DEF Sound, Fresh
      <3>5. status[s] # Absent
        BY <1>6, <2>5 DEF Submit, Review, Created
      <3>6. \A q \in Procs : Recording(q, s)' => q = p \/ Recording(q, s)
        BY <2>2 DEF Recording, At
      <3>7. reviews'[s] = 1 =>
               /\ status'[s] = "PENDING" /\ (answer \notin Accepting => sent'[s] = 0)
               /\ \A q \in Procs : Recording(q, s)' => q = p
        BY <2>3, <3>1, <3>3, <3>4, <3>5, <3>6
      <3>8. Once(s)'
        BY <2>1, <2>2, <3>7 DEF Once
      <3> QED
        BY <3>1, <3>8 DEF Fresh
    <2> QED
      BY <2>4, <2>5
  <1>7. ASSUME NEW p \in Procs, Record(p) PROVE Sound(s)'
    <2> DEFINE next == IF pc[p].answer \in Words THEN MapProviderStatus(pc[p].answer) ELSE "FAILED"
    <2>1. /\ pc[p].row \in Rows /\ pc[p].answer \in Words \cup {"error", "lost"}
          /\ next \in Statuses /\ At(p, "record")
          /\ pc[p].answer \in Accepting => next \notin {"REJECTED", "FAILED"}
      BY <1>0, <1>7, Carried, Answered DEF Record, Statuses, Accepting, Words
    <2>2. Write(pc[p].row, next) /\ sent' = sent /\ reviews' = reviews /\ doubt' = doubt
      BY <1>7 DEF Record
    <2> HIDE DEF next
    <2>3. /\ status'[pc[p].row] = next
          /\ \A q \in Rows \ {pc[p].row} : status'[q] = status[q]
      BY <1>0, <2>1, <2>2, Writing
    <2>4. \A q \in Procs : Recording(q, s)' => Recording(q, s) /\ pc'[q] = pc[q] /\ q # p
      BY <1>7, <1>i, <1>p DEF Record
    <2>5. CASE s # pc[p].row
      BY <1>0, <2>2, <2>3, <2>4, <2>5, Alone
    <2>6. CASE s = pc[p].row
      <3> SUFFICES ASSUME s \notin doubt PROVE Fresh(s)' /\ Once(s)'
        BY <2>2 DEF Sound
      <3>1. Fresh(s) /\ Once(s) /\ Recording(p, s)
        BY <1>0, <2>1, <2>6 DEF Sound, Recording
      <3>2. reviews[s] # 0
        BY <3>1 DEF Fresh
      <3>3. reviews[s] = 1 => /\ pc[p].answer \notin Accepting => sent[s] = 0
                              /\ \A q \in Procs : Recording(q, s) => q = p
        BY <3>1 DEF Once
      <3>4. reviews[s] = 1 => \A q \in Procs : ~Recording(q, s)'
        BY <2>4, <3>3
      <3>5. Once(s)'
        BY <2>1, <2>2, <2>3, <2>6, <3>3, <3>4 DEF Once
      <3> QED
        BY <2>2, <3>2, <3>5 DEF Fresh
    <2> QED
      BY <2>5, <2>6
  <1>8. ASSUME NEW p \in Procs, RecordThrows(p) PROVE Sound(s)'
    <2> DEFINE x == [pc[p] EXCEPT !.answer = "error"]
    <2>1. pc[p] \in RecordRecords
      BY <1>0, <1>8, Carried DEF RecordThrows
    <2>2. x.at = "record" /\ x.row = pc[p].row /\ x.answer = "error"
      BY <2>1 DEF RecordRecords
    <2>3. Go(p, x)
      BY <1>8 DEF RecordThrows
    <2> HIDE DEF x
    <2>4. pc'[p] = x /\ (\A q \in Procs \ {p} : pc'[q] = pc[q]) /\ At(p, "record")
      BY <1>0, <1>8, <2>3, Going DEF RecordThrows
    <2>5. /\ status' = status /\ sent' = sent /\ reviews' = reviews /\ doubt \subseteq doubt'
          /\ pc[p].answer \in Accepting => pc[p].row \in doubt'
      BY <1>8 DEF RecordThrows, table
    <2>6. \A q \in Procs : Recording(q, s)' <=> Recording(q, s)
      BY <2>2, <2>4 DEF Recording, At
    <2>7. CASE s # pc[p].row
      <3>1. \A q \in Procs : Recording(q, s)' => pc'[q] = pc[q]
        BY <2>2, <2>4, <2>7 DEF Recording
      <3> QED
        BY <1>0, <2>5, <2>6, <3>1, Alone
    <2>8. CASE s = pc[p].row
      <3> SUFFICES ASSUME s \notin doubt' PROVE Fresh(s)' /\ Once(s)'
        BY DEF Sound
      <3>1. Fresh(s) /\ Once(s) /\ Recording(p, s) /\ pc[p].answer \notin Accepting
        BY <1>0, <2>4, <2>5, <2>8 DEF Sound, Recording
      <3>2. reviews[s] # 0
        BY <3>1 DEF Fresh
      <3>3. reviews[s] = 1 => /\ status[s] = "PENDING" /\ sent[s] = 0
                              /\ \A q \in Procs : Recording(q, s) => q = p
        BY <3>1 DEF Once
      <3>4. Once(s)'
        BY <2>5, <2>6, <3>3 DEF Once
      <3> QED
        BY <2>5, <3>2, <3>4 DEF Fresh
    <2> QED
      BY <2>7, <2>8
  <1>9. ASSUME NEW p \in Procs, Break(p) PROVE Sound(s)'
    <2>1. \A q \in Procs : Recording(q, s)' => Recording(q, s) /\ pc'[q] = pc[q]
      BY <1>9, <1>i, <1>p DEF Break
    <2> QED
      BY <1>0, <1>9, <2>1, Alone DEF Break, table, history
  <1>10. CASE UNCHANGED vars
    BY <1>0, <1>10, <1>u, Alone DEF vars, table, history
  <1> QED
    BY <1>1, <1>a, <1>b, <1>2, <1>3, <1>4, <1>5, <1>6, <1>7, <1>8, <1>9, <1>10
       DEF Next, Owner, Admin, RequestWithdraw, WithdrawMitra, WithdrawYayasan,
           CreateDeveloperDisbursement, ApproveLegacy, RejectLegacy

\* A row that was reviewed once and whose money went back to the wallet was not
\* paid, unless an accepted payout was taken for an error: whichever requests,
\* reviews of other rows, failing writes and restarts come in between.
THEOREM ReleasedIsUnpaidCorrect == Spec => []ReleasedIsUnpaid
  <1>1. Init => Unpaid
    BY DEF Init, Unpaid, Sound, Fresh, Once, Recording, At, Idle, Absent
  <1>2. TypeInv /\ Unpaid => ReleasedIsUnpaid
    <2> SUFFICES ASSUME TypeInv, Unpaid, NEW r \in Released \ doubt, reviews[r] <= 1
                 PROVE  sent[r] = 0
      BY DEF ReleasedIsUnpaid
    <2>1. r \in Rows /\ Fresh(r) /\ Once(r) /\ status[r] \in {"REJECTED", "FAILED"}
      BY DEF Released, Unpaid, Sound
    <2>2. reviews[r] = 0 \/ reviews[r] = 1
      BY <2>1 DEF TypeInv, TypeOK
    <2> QED
      BY <2>1, <2>2 DEF Fresh, Once
  <1> QED
    BY <1>1, <1>2, TypeInit, TypeStep, UnpaidStep, PTL DEF Spec
-----------------------------------------------------------------------------
(* Sums over finite sets (SumFunctionOnSet of the community modules).        *)

\* A set of naturals that is not empty has a least element: the proofs below
\* look at the least size for which a fact about finite sets fails.
LEMMA Least ==
    ASSUME NEW B \in SUBSET Nat, B # {}
    PROVE  \E m \in B : \A k \in B : ~(k < m)
  <1>1. PICK m \in B : \A k \in B : ~(<<k, m>> \in OpToRel(<, Nat))
    BY WFMin, NatLessThanWellFounded
  <1>2. \A k \in B : ~(k < m)
    BY <1>1 DEF OpToRel
  <1> QED
    BY <1>2

\* The element the fold takes out of a set.
Pick(s) == CHOOSE x \in s : TRUE

\* F is what the fold of f over the subsets of S is meant to be.
Folds(F, f, S) ==
    F = [s \in SUBSET S |-> IF s = {} THEN 0 ELSE f[Pick(s)] + F[s \ {Pick(s)}]]

\* The same on subsets of at most n elements.
Small(S, n) == {s \in SUBSET S : Cardinality(s) <= n}
FoldsSmall(F, f, S, n) ==
    F = [s \in Small(S, n) |-> IF s = {} THEN 0 ELSE f[Pick(s)] + F[s \ {Pick(s)}]]

\* The sum is the chosen solution of the fold's equation.
LEMMA SumIsFold ==
    ASSUME NEW f, NEW S
    PROVE  SumFunctionOnSet(f, S) = (CHOOSE F : Folds(F, f, S))[S]
  BY DEF SumFunctionOnSet, FoldFunctionOnSet, MapThenFoldSet, Folds, Pick

\* A set that is not empty has the element the fold takes.
LEMMA PickIn == ASSUME NEW s, s # {} PROVE Pick(s) \in s
  BY DEF Pick

\* What is left of a finite set when an element is taken out.
LEMMA Smaller ==
    ASSUME NEW s, IsFiniteSet(s), NEW x \in s
    PROVE  /\ IsFiniteSet(s \ {x}) /\ Cardinality(s \ {x}) = Cardinality(s) - 1
           /\ Cardinality(s) \in Nat \ {0}
  <1>1. Cardinality(s) \in Nat /\ Cardinality(s) # 0
    BY FS_CardinalityType, FS_EmptySet
  <1> QED
    BY <1>1, FS_RemoveElement

\* A fold exists on the small subsets, whatever their bound.
LEMMA FoldExistsSmall ==
    ASSUME NEW f, NEW S, IsFiniteSet(S), NEW n \in Nat
    PROVE  \E F : FoldsSmall(F, f, S, n)
  <1> DEFINE Bad == {m \in Nat : ~ \E F : FoldsSmall(F, f, S, m)}
  <1> SUFFICES ASSUME Bad # {} PROVE FALSE
    OBVIOUS
  <1>1. PICK m \in Bad : \A k \in Bad : ~(k < m)
    <2>1. Bad \in SUBSET Nat
      OBVIOUS
    <2> HIDE DEF Bad
    <2> QED
      BY <2>1, Least
  <1>2. \A k \in Nat : k < m => \E F : FoldsSmall(F, f, S, k)
    BY <1>1
  <1>3. \A s \in SUBSET S : IsFiniteSet(s) /\ Cardinality(s) \in Nat
    BY FS_Subset, FS_CardinalityType
  <1>4. CASE m = 0
    <2>1. Small(S, 0) = {{}}
      BY <1>3, FS_EmptySet DEF Small
    <2>2. FoldsSmall([s \in Small(S, 0) |-> 0], f, S, 0)
      BY <2>1 DEF FoldsSmall
    <2> QED
      BY <1>4, <2>2
  <1>5. CASE m # 0
    <2>1. m - 1 \in Nat /\ m - 1 < m
      BY <1>5
    <2>2. PICK F : FoldsSmall(F, f, S, m - 1)
      BY <1>2, <2>1
    <2> DEFINE G == [s \in Small(S, m) |-> IF s = {} THEN 0 ELSE f[Pick(s)] + F[s \ {Pick(s)}]]
    <2>3. ASSUME NEW s \in Small(S, m), s # {}
          PROVE  s \ {Pick(s)} \in Small(S, m - 1) /\ s \ {Pick(s)} \in Small(S, m)
      <3>1. Pick(s) \in s /\ s \in SUBSET S /\ Cardinality(s) <= m /\ IsFiniteSet(s)
        BY <1>3, <2>3, PickIn DEF Small
      <3>2. Cardinality(s \ {Pick(s)}) = Cardinality(s) - 1 /\ Cardinality(s) \in Nat
        BY <3>1, Smaller
      <3> QED
        BY <3>1, <3>2 DEF Small
    <2>4. ASSUME NEW t \in Small(S, m - 1), t \in Small(S, m) PROVE G[t] = F[t]
      BY <2>2, <2>4 DEF FoldsSmall
    <2>5. \A s \in Small(S, m) : G[s] = IF s = {} THEN 0 ELSE f[Pick(s)] + G[s \ {Pick(s)}]
      BY <2>3, <2>4
    <2>6. FoldsSmall(G, f, S, m)
      BY <2>5 DEF FoldsSmall
    <2> QED
      BY <2>6
  <1> QED
    BY <1>4, <1>5

\* So the recursive definition of the sum has a solution.
LEMMA FoldExists ==
    ASSUME NEW f, NEW S, IsFiniteSet(S)
    PROVE  \E F : Folds(F, f, S)
  <1>1. Cardinality(S) \in Nat /\ \A s \in SUBSET S : Cardinality(s) <= Cardinality(S)
    BY FS_Subset, FS_CardinalityType
  <1>2. Small(S, Cardinality(S)) = SUBSET S
    BY <1>1 DEF Small
  <1>3. PICK F : FoldsSmall(F, f, S, Cardinality(S))
    BY <1>1, FoldExistsSmall
  <1>4. Folds(F, f, S)
    BY <1>2, <1>3 DEF Folds, FoldsSmall
  <1> QED
    BY <1>4

\* And only one: two solutions agree where both are defined.
LEMMA FoldsAgree ==
    ASSUME NEW f, NEW S, NEW T, NEW F, NEW G, IsFiniteSet(S), T \subseteq S,
           Folds(F, f, S), Folds(G, f, T)
    PROVE  F[T] = G[T]
  <1> DEFINE Bad == {n \in Nat : \E s \in SUBSET T : Cardinality(s) = n /\ F[s] # G[s]}
  <1>1. \A s \in SUBSET T : IsFiniteSet(s) /\ Cardinality(s) \in Nat
    BY FS_Subset, FS_CardinalityType
  <1>2. SUFFICES ASSUME Bad # {} PROVE FALSE
    <2>1. T \in SUBSET T
      OBVIOUS
    <2> QED
      BY <1>1, <1>2, <2>1
  <1>3. PICK m \in Bad : \A k \in Bad : ~(k < m)
    <2>1. Bad \in SUBSET Nat
      OBVIOUS
    <2> HIDE DEF Bad
    <2> QED
      BY <1>2, <2>1, Least
  <1>4. PICK s \in SUBSET T : Cardinality(s) = m /\ F[s] # G[s]
    BY <1>3
  <1>5. s \in SUBSET S
    OBVIOUS
  <1>6. s # {}
    BY <1>4, <1>5 DEF Folds
  <1>7. Pick(s) \in s
    BY <1>6, PickIn
  <1>8. s \ {Pick(s)} \in SUBSET T /\ Cardinality(s \ {Pick(s)}) = m - 1 /\ m - 1 \in Nat /\ m \in Nat
    BY <1>1, <1>4, <1>7, Smaller
  <1>9. F[s \ {Pick(s)}] = G[s \ {Pick(s)}]
    <2>1. m - 1 < m
      BY <1>8
    <2>2. m - 1 \notin Bad
      BY <1>3, <1>8, <2>1
    <2> QED
      BY <1>8, <2>2
  <1>10. F[s] = f[Pick(s)] + F[s \ {Pick(s)}]
    BY <1>5, <1>6 DEF Folds
  <1>11. G[s] = f[Pick(s)] + G[s \ {Pick(s)}]
    BY <1>6 DEF Folds
  <1> QED
    BY <1>4, <1>9, <1>10, <1>11

\* Nothing adds up to zero.
LEMMA SumEmpty == ASSUME NEW f PROVE SumFunctionOnSet(f, {}) = 0
  <1>1. IsFiniteSet({})
    BY FS_EmptySet
  <1>2. Folds(CHOOSE F : Folds(F, f, {}), f, {})
    BY <1>1, FoldExists
  <1> QED
    BY <1>2, SumIsFold DEF Folds

\* The equation of the fold.
LEMMA SumPick ==
    ASSUME NEW f, NEW S, IsFiniteSet(S), S # {}
    PROVE  SumFunctionOnSet(f, S) = f[Pick(S)] + SumFunctionOnSet(f, S \ {Pick(S)})
  <1> DEFINE T == S \ {Pick(S)}
             F == CHOOSE F : Folds(F, f, S)
             G == CHOOSE G : Folds(G, f, T)
  <1>1. IsFiniteSet(T) /\ T \subseteq S
    BY PickIn, Smaller
  <1>2. Folds(F, f, S) /\ Folds(G, f, T)
    BY <1>1, FoldExists
  <1>3. SumFunctionOnSet(f, S) = F[S] /\ SumFunctionOnSet(f, T) = G[T]
    BY SumIsFold
  <1> HIDE DEF F, G
  <1>4. F[T] = G[T]
    BY <1>1, <1>2, FoldsAgree
  <1>5. F[S] = f[Pick(S)] + F[T]
    BY <1>2 DEF Folds
  <1> QED
    BY <1>3, <1>4, <1>5

\* A sum of integers is one.
LEMMA SumInt ==
    ASSUME NEW S, IsFiniteSet(S), NEW f, \A x \in S : f[x] \in Int
    PROVE  SumFunctionOnSet(f, S) \in Int
  <1> DEFINE Bad == {n \in Nat : \E s \in SUBSET S : Cardinality(s) = n /\ SumFunctionOnSet(f, s) \notin Int}
  <1>1. \A s \in SUBSET S : IsFiniteSet(s) /\ Cardinality(s) \in Nat
    BY FS_Subset, FS_CardinalityType
  <1>2. SUFFICES ASSUME Bad # {} PROVE FALSE
    <2>1. S \in SUBSET S
      OBVIOUS
    <2> QED
      BY <1>1, <1>2, <2>1
  <1>3. Bad \in SUBSET Nat
    OBVIOUS
  <1>4. PICK m \in Bad : \A k \in Bad : ~(k < m)
    <2> HIDE DEF Bad
    <2> QED
      BY <1>2, <1>3, Least
  <1>5. PICK s \in SUBSET S : Cardinality(s) = m /\ SumFunctionOnSet(f, s) \notin Int
    OBVIOUS
  <1>6. s # {}
    BY <1>5, SumEmpty
  <1>7. Pick(s) \in s
    BY <1>6, PickIn
  <1>8. s \ {Pick(s)} \in SUBSET S /\ Cardinality(s \ {Pick(s)}) = m - 1 /\ m - 1 \in Nat /\ m - 1 < m
    BY <1>1, <1>5, <1>7, Smaller
  <1>9. SumFunctionOnSet(f, s \ {Pick(s)}) \in Int
    BY <1>4, <1>8
  <1> QED
    BY <1>1, <1>5, <1>6, <1>7, <1>9, SumPick

\* Any element may be taken out first.
LEMMA SumTakeOut ==
    ASSUME NEW S, IsFiniteSet(S), NEW f, \A x \in S : f[x] \in Int, NEW e \in S
    PROVE  SumFunctionOnSet(f, S) = f[e] + SumFunctionOnSet(f, S \ {e})
  <1> DEFINE Wrong(s, x) == SumFunctionOnSet(f, s) # f[x] + SumFunctionOnSet(f, s \ {x})
             Bad == {n \in Nat : \E s \in SUBSET S : Cardinality(s) = n /\ \E x \in s : Wrong(s, x)}
  <1>1. \A s \in SUBSET S : IsFiniteSet(s) /\ Cardinality(s) \in Nat
    BY FS_Subset, FS_CardinalityType
  <1>2. SUFFICES ASSUME Bad # {} PROVE FALSE
    <2>1. S \in SUBSET S
      OBVIOUS
    <2> QED
      BY <1>1, <1>2, <2>1
  <1>3. Bad \in SUBSET Nat
    OBVIOUS
  <1>4. PICK m \in Bad : \A k \in Bad : ~(k < m)
    <2> HIDE DEF Bad
    <2> QED
      BY <1>2, <1>3, Least
  <1>5. PICK s \in SUBSET S : Cardinality(s) = m /\ \E x \in s : Wrong(s, x)
    OBVIOUS
  <1>6. PICK x \in s : Wrong(s, x)
    BY <1>5
  <1> DEFINE c == Pick(s)
             rest == (s \ {c}) \ {x}
  <1>7. c \in s /\ SumFunctionOnSet(f, s) = f[c] + SumFunctionOnSet(f, s \ {c})
    BY <1>1, PickIn, SumPick
  <1>8. x # c
    BY <1>6, <1>7
  <1> HIDE DEF c
  <1>9. ASSUME NEW t \in s, NEW y \in s \ {t}
        PROVE  SumFunctionOnSet(f, s \ {t}) = f[y] + SumFunctionOnSet(f, (s \ {t}) \ {y})
    <2>1. s \ {t} \in SUBSET S /\ Cardinality(s \ {t}) = m - 1 /\ m - 1 \in Nat /\ m - 1 < m
      BY <1>1, <1>5, Smaller
    <2>2. m - 1 \notin Bad
      BY <1>4, <2>1
    <2> QED
      BY <1>9, <2>1, <2>2
  <1>10. /\ SumFunctionOnSet(f, s \ {c}) = f[x] + SumFunctionOnSet(f, rest)
         /\ SumFunctionOnSet(f, s \ {x}) = f[c] + SumFunctionOnSet(f, (s \ {x}) \ {c})
    BY <1>7, <1>8, <1>9
  <1>11. SumFunctionOnSet(f, s \ {x}) = f[c] + SumFunctionOnSet(f, rest)
    <2>1. (s \ {x}) \ {c} = rest
      OBVIOUS
    <2> QED
      BY <1>10, <2>1
  <1>12. f[x] \in Int /\ f[c] \in Int /\ SumFunctionOnSet(f, rest) \in Int
    <2>1. rest \in SUBSET S
      OBVIOUS
    <2> QED
      BY <1>1, <1>7, <2>1, SumInt
  <1> HIDE DEF rest
  <1>13. SumFunctionOnSet(f, s) = f[x] + SumFunctionOnSet(f, s \ {x})
    BY <1>7, <1>10, <1>11, <1>12
  <1> QED
    BY <1>6, <1>13

\* A sum is at most another one over a part of its set, if it is so element by
\* element there and nothing is added elsewhere.
LEMMA SumAtMost ==
    ASSUME NEW S, IsFiniteSet(S), NEW f, \A x \in S : f[x] \in Int,
           NEW g, NEW T \in SUBSET S,
           \A x \in T : g[x] \in Int /\ f[x] <= g[x],
           \A x \in S \ T : f[x] = 0
    PROVE  SumFunctionOnSet(f, S) <= SumFunctionOnSet(g, T)
  <1> DEFINE Wrong(s) == ~(SumFunctionOnSet(f, s) <= SumFunctionOnSet(g, s \cap T))
             Bad == {n \in Nat : \E s \in SUBSET S : Cardinality(s) = n /\ Wrong(s)}
  <1>1. \A s \in SUBSET S : IsFiniteSet(s) /\ Cardinality(s) \in Nat
    BY FS_Subset, FS_CardinalityType
  <1>2. SUFFICES ASSUME Bad # {} PROVE FALSE
    <2>1. S \in SUBSET S /\ S \cap T = T
      OBVIOUS
    <2> QED
      BY <1>1, <1>2, <2>1
  <1>3. Bad \in SUBSET Nat
    OBVIOUS
  <1>4. PICK m \in Bad : \A k \in Bad : ~(k < m)
    <2> HIDE DEF Bad
    <2> QED
      BY <1>2, <1>3, Least
  <1>5. PICK s \in SUBSET S : Cardinality(s) = m /\ Wrong(s)
    OBVIOUS
  <1>6. s # {}
    <2>1. {} \cap T = {}
      OBVIOUS
    <2> QED
      BY <1>5, <2>1, SumEmpty
  <1>7. PICK x \in s : TRUE
    BY <1>6
  <1>8. s \ {x} \in SUBSET S /\ Cardinality(s \ {x}) = m - 1 /\ m - 1 \in Nat /\ m - 1 < m
    BY <1>1, <1>5, Smaller
  <1>9. SumFunctionOnSet(f, s \ {x}) <= SumFunctionOnSet(g, (s \ {x}) \cap T)
    BY <1>4, <1>8
  <1>10. SumFunctionOnSet(f, s) = f[x] + SumFunctionOnSet(f, s \ {x})
    BY <1>1, SumTakeOut
  <1>11. /\ SumFunctionOnSet(f, s \ {x}) \in Int
         /\ SumFunctionOnSet(g, (s \ {x}) \cap T) \in Int
    <2>1. (s \ {x}) \cap T \in SUBSET S
      OBVIOUS
    <2> QED
      BY <1>1, <1>8, <2>1, SumInt
  <1>12. CASE x \in T
    <2>1. (s \cap T) \ {x} = (s \ {x}) \cap T /\ s \cap T \in SUBSET S
      OBVIOUS
    <2>2. SumFunctionOnSet(g, s \cap T) = g[x] + SumFunctionOnSet(g, (s \ {x}) \cap T)
      BY <1>1, <1>12, <2>1, SumTakeOut
    <2>3. f[x] \in Int /\ g[x] \in Int /\ f[x] <= g[x]
      BY <1>12
    <2> QED
      BY <1>5, <1>9, <1>10, <1>11, <2>2, <2>3
  <1>13. CASE x \notin T
    <2>1. s \cap T = (s \ {x}) \cap T /\ f[x] = 0
      BY <1>13
    <2>2. SumFunctionOnSet(f, s) = SumFunctionOnSet(f, s \ {x})
      BY <1>10, <1>11, <2>1
    <2>3. SumFunctionOnSet(g, s \cap T) = SumFunctionOnSet(g, (s \ {x}) \cap T)
      BY <2>1
    <2> QED
      BY <1>5, <1>9, <2>2, <2>3
  <1> QED
    BY <1>12, <1>13

\* A sum depends on the values on its set only.
LEMMA SumSame ==
    ASSUME NEW S, IsFiniteSet(S), NEW f, NEW g, \A x \in S : f[x] \in Int /\ g[x] = f[x]
    PROVE  SumFunctionOnSet(f, S) = SumFunctionOnSet(g, S)
  <1>1. /\ SumFunctionOnSet(f, S) <= SumFunctionOnSet(g, S)
        /\ SumFunctionOnSet(g, S) <= SumFunctionOnSet(f, S)
    BY SumAtMost
  <1>2. SumFunctionOnSet(f, S) \in Int /\ SumFunctionOnSet(g, S) \in Int
    BY SumInt
  <1> QED
    BY <1>1, <1>2
-----------------------------------------------------------------------------
(* What is committed was earned.                                             *)

\* The peak bounds what is earned, now and when it was read, and only the
\* developer's earnings fall below it.
Peaked ==
    /\ earned <= peak
    /\ kind # "developer" => peak = earned
    /\ \A p \in Procs : At(p, "read") => pc[p].earned <= peak

\* What may leave the wallet is the peak.
LEMMA PeakIsCeiling == Peaked => peak = Ceiling
  BY DEF Peaked, Ceiling

\* Peaked holds of the empty wallet.
LEMMA PeakedInit == Init => Peaked
  BY DEF Init, Peaked, At, Idle

\* The peak never sinks.
LEMMA PeakGrows == TypeOK /\ [Next]_vars => peak <= peak'
  <1> SUFFICES ASSUME TypeOK, [Next]_vars PROVE peak <= peak'
    OBVIOUS
  <1>1. peak \in Int /\ earned \in Int
    BY PayoutAssumption DEF TypeOK
  <1>2. ASSUME NEW e \in Int, EarnedIs(e) PROVE peak <= peak'
    BY <1>1, <1>2 DEF EarnedIs
  <1>3. CASE Earn
    BY <1>1, <1>2, <1>3 DEF Earn
  <1>4. CASE \E e \in 0..MaxEarned : SetDevFeePercent(e)
    BY <1>2, <1>4, PayoutAssumption DEF SetDevFeePercent
  <1>5. CASE peak' = peak
    BY <1>1, <1>5
  <1>6. ASSUME NEW p \in Procs, Owner(p) PROVE peak' = peak
    BY <1>6 DEF Owner, RequestWithdraw, WithdrawMitra, WithdrawYayasan,
                CreateDeveloperDisbursement, Request, ReadEarned, CreateDisbursement, history
  <1>7. ASSUME NEW p \in Procs, NEW r \in Rows, Admin(p, r) PROVE peak' = peak
    BY <1>7 DEF Admin, Reject, ApproveManually, ApproveLegacy, RejectLegacy, Submit
  <1>8. ASSUME NEW p \in Procs, Record(p) \/ RecordThrows(p) \/ Break(p) PROVE peak' = peak
    BY <1>8 DEF Record, RecordThrows, Break, history
  <1>9. ASSUME UNCHANGED vars PROVE peak' = peak
    BY <1>9 DEF vars, history
  <1> QED
    BY <1>3, <1>4, <1>5, <1>6, <1>7, <1>8, <1>9 DEF Next

\* Every step keeps Peaked: a request carries a sum that was earned when it read.
LEMMA PeakedStep == TypeInv /\ Peaked /\ [Next]_vars => Peaked'
  <1> SUFFICES ASSUME TypeInv, Peaked, [Next]_vars PROVE Peaked'
    OBVIOUS
  <1>0. TypeOK /\ peak \in Int /\ earned \in Int
        /\ \A p \in Procs : At(p, "read") => pc[p].earned \in Int
    BY Carried, PayoutAssumption DEF TypeInv, TypeOK
  \* A request moves on, the wallet stays as it is.
  <1>p. ASSUME NEW p \in Procs, NEW x, Go(p, x), x.at = "read" => x.earned = earned,
               UNCHANGED <<kind, earned, peak>>
        PROVE  Peaked'
    <2>1. pc'[p] = x /\ \A q \in Procs \ {p} : pc'[q] = pc[q]
      BY <1>0, <1>p, Going
    <2> QED
      BY <1>0, <1>p, <2>1 DEF Peaked, At
  <1>u. ASSUME UNCHANGED <<kind, earned, peak, pc>> PROVE Peaked'
    BY <1>u DEF Peaked, At
  <1>i. Idle.at = "idle"
    BY DEF Idle
  <1>e. ASSUME NEW e \in Int, EarnedIs(e), kind # "developer" => e >= earned PROVE Peaked'
    <2>1. UNCHANGED <<kind, pc>> /\ earned' = e /\ peak' = IF e > peak THEN e ELSE peak
      BY <1>e DEF EarnedIs
    <2>2. \A p \in Procs : At(p, "read")' => pc'[p].earned <= peak'
      BY <1>0, <2>1 DEF Peaked, At
    <2> QED
      BY <1>0, <1>e, <2>1, <2>2 DEF Peaked
  <1>1. CASE Earn
    <2>1. EarnedIs(earned + 1) /\ earned + 1 \in Int /\ earned + 1 >= earned
      BY <1>0, <1>1 DEF Earn
    <2> QED
      BY <1>e, <2>1
  <1>a. ASSUME NEW e \in 0..MaxEarned, SetDevFeePercent(e) PROVE Peaked'
    BY <1>a, <1>e, PayoutAssumption DEF SetDevFeePercent
  <1>b. ASSUME NEW p \in Procs, ReadEarned(p) PROVE Peaked'
    BY <1>b, <1>p DEF ReadEarned, wallet, history
  <1>2. ASSUME NEW p \in Procs, NEW n \in Amounts, Request(p, n) PROVE Peaked'
    BY <1>2, <1>p DEF Request, wallet
  <1>3. ASSUME NEW p \in Procs, CreateDisbursement(p) PROVE Peaked'
    BY <1>3, <1>i, <1>p DEF CreateDisbursement, wallet, history
  <1>4. ASSUME NEW r \in Rows, Reject(r) PROVE Peaked'
    BY <1>4, <1>u DEF Reject, wallet
  <1>5. ASSUME NEW r \in Rows, ApproveManually(r) PROVE Peaked'
    BY <1>5, <1>u DEF ApproveManually, wallet
  <1>6. ASSUME NEW p \in Procs, NEW r \in Rows, NEW answer, Submit(p, r, answer) PROVE Peaked'
    BY <1>6, <1>p DEF Submit, wallet
  <1>7. ASSUME NEW p \in Procs, Record(p) PROVE Peaked'
    BY <1>7, <1>i, <1>p DEF Record, wallet
  <1>8. ASSUME NEW p \in Procs, RecordThrows(p) PROVE Peaked'
    <2>1. pc[p] \in RecordRecords
      BY <1>0, <1>8, Carried DEF RecordThrows
    <2>2. [pc[p] EXCEPT !.answer = "error"].at # "read"
      BY <2>1 DEF RecordRecords
    <2> QED
      BY <1>8, <1>p, <2>2 DEF RecordThrows, wallet
  <1>9. ASSUME NEW p \in Procs, Break(p) PROVE Peaked'
    BY <1>9, <1>i, <1>p DEF Break, wallet, history
  <1>10. CASE UNCHANGED vars
    BY <1>10, <1>u DEF vars, wallet, history
  <1> QED
    BY <1>1, <1>a, <1>b, <1>2, <1>3, <1>4, <1>5, <1>6, <1>7, <1>8, <1>9, <1>10
       DEF Next, Owner, Admin, RequestWithdraw, WithdrawMitra, WithdrawYayasan,
           CreateDeveloperDisbursement, ApproveLegacy, RejectLegacy

\* The rows are written in order.
FirstRows == \E n \in 0..MaxRows : Created = 1..n

\* An answer is under way for a row that exists.
RecordsRow == \A p \in Procs : At(p, "record") => pc[p].row \in Created

\* Only rows that exist are reviewed.
ReviewsRow == \A r \in Rows : reviews[r] > 0 => r \in Created

\* Only one payout request is under way.
Apart == ~overlapped => \A p, q \in Procs : At(p, "create") /\ At(q, "create") => p = q

\* What is committed is covered, also when the request under way is added.
Covered ==
    ~overlapped /\ ~revived =>
        /\ Total(Committed) <= peak
        /\ \A p \in Procs : At(p, "create") => Total(Committed) + pc[p].amount <= peak

Solvent == FirstRows /\ RecordsRow /\ ReviewsRow /\ Apart /\ Covered

\* All sums are over finite sets of rows.
LEMMA RowsFinite == IsFiniteSet(Rows) /\ \A S \in SUBSET Rows : IsFiniteSet(S)
  <1>1. IsFiniteSet(Rows)
    BY PayoutAssumption, FS_Interval DEF Rows
  <1> QED
    BY <1>1, FS_Subset

\* The rows that hold money are the committed ones.
LEMMA HeldIsCommitted == TypeOK => Held = Committed
  BY DEF TypeOK, Held, Created, Released, Committed, Statuses, Absent

\* Totals are integers.
LEMMA TotalInt ==
    ASSUME TypeOK, NEW S \in SUBSET Rows
    PROVE  Total(S) \in Int
  <1>1. \A r \in S : amount[r] \in Int
    BY PayoutAssumption DEF TypeOK
  <1> QED
    BY <1>1, RowsFinite, SumInt DEF Total

\* Where the new row goes, and what it adds.
LEMMA NewRow ==
    ASSUME TypeOK, FirstRows, NEW p \in Procs, CreateDisbursement(p)
    PROVE  /\ FirstRows'
           /\ Created \subseteq Created'
           /\ Total(Committed)' = Total(Committed) + pc[p].amount
  <1>1. PICK n \in 0..MaxRows : Created = 1..n
    BY DEF FirstRows
  <1>2. Cardinality(Created) = n /\ n \in Nat
    BY <1>1, PayoutAssumption, FS_Interval
  <1> DEFINE r == n + 1
  <1>3. r \in Rows /\ r \in 0..MaxRows /\ r \notin Created /\ Created \cup {r} = 1..r
    BY <1>1, <1>2, PayoutAssumption DEF CreateDisbursement, Rows
  <1>4. /\ status' = [status EXCEPT ![r] = "PENDING"]
        /\ amount' = [amount EXCEPT ![r] = pc[p].amount]
    BY <1>2 DEF CreateDisbursement
  <1> HIDE DEF r
  <1>5. /\ status'[r] = "PENDING" /\ \A s \in Rows \ {r} : status'[s] = status[s]
        /\ amount'[r] = pc[p].amount /\ \A s \in Rows \ {r} : amount'[s] = amount[s]
    BY <1>3, <1>4 DEF TypeOK
  <1>6. Created' = Created \cup {r}
    BY <1>3, <1>5 DEF Created, Absent
  <1>7. Committed' = Committed \cup {r} /\ r \notin Committed
    BY <1>3, <1>5 DEF Committed, Created, Absent
  <1>8. \A s \in Committed \cup {r} : amount'[s] \in Int
    <2>1. pc[p].amount \in Int
      BY Carried, PayoutAssumption DEF CreateDisbursement, Amounts
    <2> QED
      BY <1>5, <2>1, PayoutAssumption DEF TypeOK, Committed
  <1>9. IsFiniteSet(Committed) /\ IsFiniteSet(Committed \cup {r}) /\ (Committed \cup {r}) \ {r} = Committed
    BY <1>3, <1>7, RowsFinite DEF Committed
  <1>10. SumFunctionOnSet(amount', Committed \cup {r}) = amount'[r] + SumFunctionOnSet(amount', Committed)
    BY <1>8, <1>9, SumTakeOut
  <1>11. SumFunctionOnSet(amount', Committed) = SumFunctionOnSet(amount, Committed)
    <2>1. \A s \in Committed : amount'[s] \in Int /\ amount[s] = amount'[s]
      BY <1>5, <1>7, <1>8 DEF Committed
    <2> QED
      BY <1>9, <2>1, SumSame
  <1>12. Total(Committed)' = Total(Committed) + pc[p].amount
    <2>1. Total(Committed)' = SumFunctionOnSet(amount', Committed \cup {r})
      BY <1>7 DEF Total
    <2>2. Total(Committed) \in Int /\ pc[p].amount \in Int
      BY <1>5, <1>8, TotalInt DEF Committed
    <2> QED
      BY <1>5, <1>10, <1>11, <2>1, <2>2 DEF Total
  <1> QED
    BY <1>1, <1>3, <1>6, <1>12 DEF FirstRows

\* A review commits no more than was committed, unless it takes a row up again.
LEMMA ReviewFrees ==
    ASSUME TypeOK, NEW r \in Created, NEW next \in Statuses, Write(r, next), UNCHANGED amount
    PROVE  /\ Created' = Created
           /\ revived => revived'
           /\ ~revived' => Total(Committed)' <= Total(Committed)
  <1>1. r \in Rows /\ status'[r] = next /\ \A s \in Rows \ {r} : status'[s] = status[s]
    BY Writing DEF Created
  <1>2. Created' = Created
    BY <1>1 DEF Created, Statuses, Absent
  <1>3. ASSUME ~revived' PROVE Total(Committed)' <= Total(Committed)
    <2>1. r \in Released => next \in {"REJECTED", "FAILED"}
      BY <1>3 DEF Write
    <2>2. Committed' \in {Committed, Committed \ {r}}
      <3>1. CASE r \in Released
        BY <1>1, <2>1, <3>1 DEF Committed, Released
      <3>2. CASE r \notin Released
        <4>1. r \in Committed
          BY <1>1, <3>2, HeldIsCommitted DEF Held
        <4> QED
          BY <1>1, <4>1 DEF Committed
      <3> QED
        BY <3>1, <3>2
    <2>3. Total(Committed)' = SumFunctionOnSet(amount, Committed')
      BY DEF Total
    <2>4. Total(Committed) = SumFunctionOnSet(amount, Committed) /\ Total(Committed) \in Int
      BY TotalInt DEF Total, Committed
    <2>5. CASE r \in Committed /\ Committed' = Committed \ {r}
      <3>1. \A s \in Committed : amount[s] \in Nat
        BY PayoutAssumption DEF TypeOK, Committed
      <3>2. SumFunctionOnSet(amount, Committed) = amount[r] + SumFunctionOnSet(amount, Committed \ {r})
        <4>1. IsFiniteSet(Committed) /\ r \in Committed
          BY <2>5, RowsFinite DEF Committed
        <4>2. \A s \in Committed : amount[s] \in Int
          BY <3>1
        <4> QED
          BY <4>1, <4>2, SumTakeOut
      <3>3. SumFunctionOnSet(amount, Committed \ {r}) \in Int
        BY <3>1, RowsFinite, SumInt DEF Committed
      <3> QED
        BY <2>3, <2>4, <2>5, <3>1, <3>2, <3>3
    <2>6. CASE Committed' = Committed
      BY <2>3, <2>4, <2>6
    <2> QED
      BY <2>2, <2>5, <2>6
  <1> QED
    BY <1>2, <1>3 DEF Write

\* Steps that ask for nothing and write no row keep Solvent.
LEMMA SolventKept ==
    ASSUME TypeOK, TypeOK', Solvent,
           Created' = Created, peak <= peak',
           overlapped => overlapped', revived => revived',
           ~revived' => Total(Committed)' <= Total(Committed),
           \A r \in Rows : reviews'[r] = reviews[r] \/ r \in Created,
           \A q \in Procs : At(q, "record")' => pc'[q].row \in Created,
           \A q \in Procs : At(q, "create")' => At(q, "create") /\ pc'[q].amount = pc[q].amount
    PROVE  Solvent'
  <1>1. FirstRows' /\ RecordsRow' /\ ReviewsRow'
    BY DEF Solvent, FirstRows, RecordsRow, ReviewsRow
  <1>2. Apart'
    BY DEF Solvent, Apart
  <1>3. Total(Committed) \in Int /\ Total(Committed)' \in Int /\ peak \in Int /\ peak' \in Int
    <2>1. Committed \in SUBSET Rows /\ Committed' \in SUBSET Rows
      BY DEF Committed
    <2>2. \A r \in Committed' : amount'[r] \in Int
      BY <2>1, PayoutAssumption DEF TypeOK
    <2>3. SumFunctionOnSet(amount', Committed') \in Int
      BY <2>1, <2>2, RowsFinite, SumInt
    <2> QED
      BY <2>1, <2>3, TotalInt, PayoutAssumption DEF TypeOK, Total
  <1>4. Covered'
    <2> SUFFICES ASSUME ~overlapped', ~revived'
                 PROVE  /\ Total(Committed)' <= peak'
                        /\ \A q \in Procs : At(q, "create")' => Total(Committed)' + pc'[q].amount <= peak'
      BY DEF Covered
    <2>1. /\ Total(Committed) <= peak /\ Total(Committed)' <= Total(Committed)
          /\ \A q \in Procs : At(q, "create") => Total(Committed) + pc[q].amount <= peak
      BY DEF Solvent, Covered
    <2>2. \A q \in Procs : At(q, "create") => pc[q].amount \in Int
      BY Carried, PayoutAssumption DEF Amounts
    <2> QED
      BY <1>3, <2>1, <2>2
  <1> QED
    BY <1>1, <1>2, <1>4 DEF Solvent

\* Every step keeps Solvent.
LEMMA SolventStep == TypeInv /\ Peaked /\ Solvent /\ [Next]_vars => Solvent'
  <1> SUFFICES ASSUME TypeInv, Peaked, Solvent, [Next]_vars PROVE Solvent'
    OBVIOUS
  <1>0. TypeOK /\ TypeOK' /\ FirstRows /\ RecordsRow /\ ReviewsRow
    BY TypeStep DEF TypeInv, Solvent
  <1>i. Idle.at = "idle"
    BY DEF Idle
  <1>s. ASSUME UNCHANGED <<status, amount>>
        PROVE  Created' = Created /\ Total(Committed)' = Total(Committed) /\ Total(Committed) \in Int
    <2>1. Created' = Created /\ Committed' = Committed
      BY <1>s DEF Created, Committed
    <2> QED
      BY <1>0, <1>s, <2>1, TotalInt DEF Total, Committed
  <1>p. ASSUME NEW p \in Procs, NEW x, Go(p, x)
        PROVE  /\ pc'[p] = x /\ \A q \in Procs \ {p} : pc'[q] = pc[q]
               /\ x.at # "create" => \A q \in Procs : At(q, "create")' =>
                     At(q, "create") /\ pc'[q].amount = pc[q].amount
               /\ x.at # "record" => \A q \in Procs : At(q, "record")' => pc'[q].row \in Created
    <2>1. pc'[p] = x /\ \A q \in Procs \ {p} : pc'[q] = pc[q]
      BY <1>0, <1>p, Going
    <2> QED
      BY <1>0, <2>1 DEF At, RecordsRow
  <1>u. ASSUME UNCHANGED pc
        PROVE  /\ \A q \in Procs : At(q, "create")' => At(q, "create") /\ pc'[q].amount = pc[q].amount
               /\ \A q \in Procs : At(q, "record")' => pc'[q].row \in Created
    BY <1>0, <1>u DEF At, RecordsRow
  <1>m. peak <= peak'
    BY <1>0, PeakGrows
  <1>e. ASSUME NEW e, EarnedIs(e) PROVE Solvent'
    <2>1. UNCHANGED <<status, amount, pc, reviews, revived, overlapped>>
      BY <1>e DEF EarnedIs, table
    <2>2. Created' = Created /\ Total(Committed)' <= Total(Committed)
      BY <1>s, <2>1
    <2> QED
      BY <1>0, <1>m, <1>u, <2>1, <2>2, SolventKept
  <1>1. CASE Earn
    BY <1>1, <1>e DEF Earn
  <1>a. ASSUME NEW e \in 0..MaxEarned, SetDevFeePercent(e) PROVE Solvent'
    BY <1>a, <1>e DEF SetDevFeePercent
  <1>2. ASSUME NEW p \in Procs, NEW n \in Amounts, Request(p, n) PROVE Solvent'
    <2> DEFINE x == [at |-> "create", amount |-> n]
    <2>1. Go(p, x) /\ x.at = "create" /\ x.amount = n
      BY <1>2 DEF Request
    <2> HIDE DEF x
    <2>2. /\ pc'[p] = x /\ \A q \in Procs \ {p} : pc'[q] = pc[q]
          /\ \A q \in Procs : At(q, "record")' => pc'[q].row \in Created
      BY <1>p, <2>1
    <2>3. Created' = Created /\ Total(Committed)' = Total(Committed) /\ Total(Committed) \in Int
      BY <1>2, <1>s DEF Request, table
    <2>4. FirstRows' /\ RecordsRow' /\ ReviewsRow'
      BY <1>0, <1>2, <2>2, <2>3 DEF FirstRows, RecordsRow, ReviewsRow, Request
    <2>5. ~overlapped' => \A q \in Procs : At(q, "create")' => q = p
      BY <1>2, <2>2 DEF Request, At
    <2>6. Total(Committed) + n <= peak /\ n \in Nat
      <3>1. pc[p].earned \in 0..MaxEarned /\ pc[p].earned <= peak /\ peak \in 0..MaxEarned
        BY <1>0, <1>2, Carried DEF Request, Peaked, TypeOK
      <3>2. n \in 1..MaxEarned /\ n <= Available(pc[p].earned)
        BY <1>2 DEF Request, Amounts
      <3>3. Total(Committed) + n <= pc[p].earned
        BY <2>3, <3>1, <3>2, PayoutAssumption DEF Available
      <3> QED
        BY <2>3, <3>1, <3>2, <3>3, PayoutAssumption
    <2>7. peak' = peak
      BY <1>2 DEF Request
    <2>8. Total(Committed)' <= peak' /\ Total(Committed)' + n <= peak'
      BY <1>0, <2>3, <2>6, <2>7, PayoutAssumption DEF TypeOK
    <2>9. Apart' /\ Covered'
      BY <2>1, <2>2, <2>5, <2>8 DEF Apart, Covered
    <2> QED
      BY <2>4, <2>9 DEF Solvent
  <1>3. ASSUME NEW p \in Procs, CreateDisbursement(p) PROVE Solvent'
    <2>1. /\ FirstRows' /\ Created \subseteq Created'
          /\ Total(Committed)' = Total(Committed) + pc[p].amount
      BY <1>0, <1>3, NewRow
    <2>2. /\ \A q \in Procs : At(q, "create")' => At(q, "create") /\ pc'[q].amount = pc[q].amount /\ q # p
          /\ \A q \in Procs : At(q, "record")' => pc'[q].row \in Created
      <3>1. Go(p, Idle)
        BY <1>3 DEF CreateDisbursement
      <3> QED
        BY <1>i, <1>p, <3>1 DEF At
    <2>3. RecordsRow' /\ ReviewsRow'
      BY <1>0, <1>3, <2>1, <2>2 DEF RecordsRow, ReviewsRow, CreateDisbursement, history
    <2>4. UNCHANGED <<overlapped, revived, peak>> /\ At(p, "create")
      BY <1>3 DEF CreateDisbursement, history
    <2>5. ~overlapped => \A q \in Procs : ~At(q, "create")'
      BY <2>2, <2>4 DEF Solvent, Apart
    <2>6. Apart' /\ Covered'
      BY <2>1, <2>4, <2>5 DEF Solvent, Apart, Covered
    <2> QED
      BY <2>1, <2>3, <2>6 DEF Solvent
  \* The review of a row by hand.
  <1>h. ASSUME NEW r \in Rows, NEW next \in Statuses, Review(r), Write(r, next),
               UNCHANGED <<wallet, amount, pc, overlapped>>
        PROVE  Solvent'
    <2>1. r \in Created
      BY <1>h DEF Review
    <2>2. Created' = Created /\ (revived => revived') /\ (~revived' => Total(Committed)' <= Total(Committed))
      BY <1>0, <1>h, <2>1, ReviewFrees
    <2>3. \A q \in Rows : reviews'[q] = reviews[q] \/ q \in Created
      BY <1>0, <1>h, <2>1, Reviewing
    <2> QED
      BY <1>0, <1>h, <1>m, <1>u, <2>1, <2>2, <2>3, SolventKept
  <1>4. ASSUME NEW r \in Rows, Reject(r) PROVE Solvent'
    BY <1>4, <1>h DEF Reject, Statuses
  <1>5. ASSUME NEW r \in Rows, ApproveManually(r) PROVE Solvent'
    BY <1>5, <1>h DEF ApproveManually, Statuses
  \* Steps that leave the table alone.
  <1>t. ASSUME UNCHANGED <<wallet, table, revived, overlapped>>,
               \A r \in Rows : reviews'[r] = reviews[r] \/ r \in Created,
               \A q \in Procs : At(q, "record")' => pc'[q].row \in Created,
               \A q \in Procs : At(q, "create")' => At(q, "create") /\ pc'[q].amount = pc[q].amount
        PROVE  Solvent'
    <2>1. Created' = Created /\ Total(Committed)' <= Total(Committed)
      BY <1>t, <1>s DEF table
    <2> QED
      BY <1>0, <1>m, <1>t, <2>1, SolventKept
  <1>b. ASSUME NEW p \in Procs, ReadEarned(p) PROVE Solvent'
    <2> DEFINE x == [at |-> "read", earned |-> earned]
    <2>1. Go(p, x) /\ x.at = "read"
      BY <1>b DEF ReadEarned
    <2> HIDE DEF x
    <2>2. /\ \A q \in Procs : At(q, "create")' => At(q, "create") /\ pc'[q].amount = pc[q].amount
          /\ \A q \in Procs : At(q, "record")' => pc'[q].row \in Created
      BY <1>p, <2>1
    <2> QED
      BY <1>b, <1>t, <2>2 DEF ReadEarned, history
  <1>6. ASSUME NEW p \in Procs, NEW r \in Rows, NEW answer, Submit(p, r, answer) PROVE Solvent'
    <2> DEFINE x == [at |-> "record", row |-> r, answer |-> answer]
    <2>1. Go(p, x) /\ x.at = "record" /\ x.row = r /\ r \in Created
      BY <1>6 DEF Submit, Review
    <2> HIDE DEF x
    <2>2. /\ \A q \in Procs : At(q, "create")' => At(q, "create") /\ pc'[q].amount = pc[q].amount
          /\ \A q \in Procs : At(q, "record")' => pc'[q].row \in Created
      BY <1>0, <1>p, <2>1 DEF At, RecordsRow
    <2>3. \A q \in Rows : reviews'[q] = reviews[q] \/ q \in Created
      BY <1>0, <1>6, <2>1, Reviewing DEF Submit
    <2> QED
      BY <1>6, <1>t, <2>2, <2>3 DEF Submit
  <1>7. ASSUME NEW p \in Procs, Record(p) PROVE Solvent'
    <2> DEFINE next == IF pc[p].answer \in Words THEN MapProviderStatus(pc[p].answer) ELSE "FAILED"
    <2>1. Write(pc[p].row, next) /\ next \in Statuses /\ pc[p].row \in Created
      BY <1>0, <1>7, Answered DEF Record, Statuses, RecordsRow
    <2> HIDE DEF next
    <2>2. Created' = Created /\ (revived => revived') /\ (~revived' => Total(Committed)' <= Total(Committed))
      BY <1>0, <1>7, <2>1, ReviewFrees DEF Record
    <2>3. /\ \A q \in Procs : At(q, "create")' => At(q, "create") /\ pc'[q].amount = pc[q].amount
          /\ \A q \in Procs : At(q, "record")' => pc'[q].row \in Created
      BY <1>7, <1>i, <1>p DEF Record
    <2>4. overlapped' = overlapped /\ reviews' = reviews
      BY <1>7 DEF Record
    <2> QED
      BY <1>0, <1>m, <2>2, <2>3, <2>4, SolventKept
  <1>8. ASSUME NEW p \in Procs, RecordThrows(p) PROVE Solvent'
    <2> DEFINE x == [pc[p] EXCEPT !.answer = "error"]
    <2>1. pc[p] \in RecordRecords
      BY <1>0, <1>8, Carried DEF RecordThrows
    <2>2. x.at = "record" /\ x.row = pc[p].row /\ At(p, "record") /\ Go(p, x)
      BY <1>8, <2>1 DEF RecordThrows, RecordRecords
    <2> HIDE DEF x
    <2>3. /\ \A q \in Procs : At(q, "create")' => At(q, "create") /\ pc'[q].amount = pc[q].amount
          /\ \A q \in Procs : At(q, "record")' => pc'[q].row \in Created
      BY <1>0, <1>p, <2>2 DEF At, RecordsRow
    <2> QED
      BY <1>8, <1>t, <2>3 DEF RecordThrows
  <1>9. ASSUME NEW p \in Procs, Break(p) PROVE Solvent'
    BY <1>9, <1>i, <1>p, <1>t DEF Break, history
  <1>10. CASE UNCHANGED vars
    BY <1>10, <1>u, <1>t DEF vars, history
  <1> QED
    BY <1>1, <1>a, <1>b, <1>2, <1>3, <1>4, <1>5, <1>6, <1>7, <1>8, <1>9, <1>10
       DEF Next, Owner, Admin, RequestWithdraw, WithdrawMitra, WithdrawYayasan,
           CreateDeveloperDisbursement, ApproveLegacy, RejectLegacy

\* Solvent holds of the empty wallet.
LEMMA SolventInit == Init => Solvent
  <1> SUFFICES ASSUME Init PROVE Solvent
    OBVIOUS
  <1>1. Created = {} /\ Committed = {}
    BY DEF Init, Created, Committed, Absent
  <1>2. FirstRows
    <2>1. 0 \in 0..MaxRows /\ 1..0 = {}
      BY PayoutAssumption
    <2> QED
      BY <1>1, <2>1 DEF FirstRows
  <1>3. \A p \in Procs : ~At(p, "record") /\ ~At(p, "create")
    BY DEF Init, At, Idle
  <1>4. Total(Committed) <= peak
    BY <1>1, SumEmpty DEF Total, Init
  <1>5. ReviewsRow
    BY DEF Init, ReviewsRow
  <1> QED
    BY <1>2, <1>3, <1>4, <1>5 DEF Solvent, RecordsRow, Apart, Covered

\* Payout requests that do not overlap never commit more than was earned,
\* whatever reviews, late answers, failing writes and restarts come in between,
\* unless a released row is taken up again: for wallets of any size.
THEOREM WalletCoversCorrect == Spec => []WalletCovers
  <1>1. TypeInv /\ Peaked /\ Solvent => WalletCovers
    BY HeldIsCommitted, PeakIsCeiling DEF TypeInv, Solvent, Covered, WalletCovers
  <1> QED
    BY <1>1, TypeInit, TypeStep, PeakedInit, PeakedStep, SolventInit, SolventStep, PTL DEF Spec
-----------------------------------------------------------------------------
(* Money that leaves was earned.                                             *)

\* A released row is taken up again only by a second review of it.
Reopened == revived /\ doubt = {} => \E r \in Rows : reviews[r] > 1

\* Every step keeps Reopened: while a row's only answer is under way the row is
\* pending, and a row never reviewed is not released.
LEMMA ReopenedStep == TypeInv /\ Unpaid /\ Solvent /\ Reopened /\ [Next]_vars => Reopened'
  <1> SUFFICES ASSUME TypeInv, Unpaid, Solvent, Reopened, [Next]_vars, revived', doubt' = {}
               PROVE  \E r \in Rows : reviews'[r] > 1
    BY DEF Reopened
  <1>0. TypeOK /\ RecordsRow /\ \A r \in Rows : reviews[r] \in Nat
    BY PayoutAssumption DEF TypeInv, TypeOK, Solvent
  \* What was reviewed twice before still is.
  <1>k. ASSUME revived, doubt \subseteq doubt', \A r \in Rows : reviews'[r] \in {reviews[r], reviews[r] + 1}
        PROVE  \E r \in Rows : reviews'[r] > 1
    <2>1. PICK r \in Rows : reviews[r] > 1
      BY <1>k DEF Reopened
    <2>2. reviews'[r] > 1
      BY <1>0, <1>k, <2>1
    <2> QED
      BY <2>2
  <1>u. ASSUME UNCHANGED <<reviews, revived>>, doubt \subseteq doubt' PROVE \E r \in Rows : reviews'[r] > 1
    BY <1>k, <1>u
  <1>e. ASSUME NEW e, EarnedIs(e) PROVE \E r \in Rows : reviews'[r] > 1
    BY <1>e, <1>u DEF EarnedIs
  <1>1. CASE Earn
    BY <1>1, <1>e DEF Earn
  <1>a. ASSUME NEW e, SetDevFeePercent(e) PROVE \E r \in Rows : reviews'[r] > 1
    BY <1>a, <1>e DEF SetDevFeePercent
  <1>b. ASSUME NEW p \in Procs, ReadEarned(p) PROVE \E r \in Rows : reviews'[r] > 1
    BY <1>b, <1>u DEF ReadEarned, history
  <1>2. ASSUME NEW p \in Procs, NEW n, Request(p, n) PROVE \E r \in Rows : reviews'[r] > 1
    BY <1>2, <1>u DEF Request
  <1>3. ASSUME NEW p \in Procs, CreateDisbursement(p) PROVE \E r \in Rows : reviews'[r] > 1
    BY <1>3, <1>u DEF CreateDisbursement, history
  <1>r. ASSUME NEW r \in Rows, Review(r) PROVE \A q \in Rows : reviews'[q] \in {reviews[q], reviews[q] + 1}
    BY <1>0, <1>r, Reviewing
  <1>4. ASSUME NEW r \in Rows, Reject(r) PROVE \E q \in Rows : reviews'[q] > 1
    BY <1>4, <1>k, <1>r DEF Reject, Write
  <1>5. ASSUME NEW r \in Rows, ApproveManually(r) PROVE \E q \in Rows : reviews'[q] > 1
    <2>1. Review(r) /\ Write(r, "APPROVED") /\ doubt' = doubt
      BY <1>5 DEF ApproveManually
    <2>2. CASE revived
      BY <1>k, <1>r, <2>1, <2>2
    <2>3. CASE ~revived
      <3>1. r \in Released
        BY <2>1, <2>3 DEF Write
      <3>2. reviews[r] # 0
        BY <2>1, <3>1 DEF Unpaid, Sound, Fresh, Released, Absent
      <3>3. reviews'[r] = reviews[r] + 1
        BY <1>0, <2>1, Reviewing
      <3>4. reviews'[r] > 1
        BY <1>0, <3>2, <3>3
      <3> QED
        BY <3>4
    <2> QED
      BY <2>2, <2>3
  <1>6. ASSUME NEW p \in Procs, NEW r \in Rows, NEW answer, Submit(p, r, answer)
        PROVE  \E q \in Rows : reviews'[q] > 1
    <2>1. doubt \subseteq doubt' /\ revived' = revived /\ Review(r)
      BY <1>6 DEF Submit
    <2> QED
      BY <1>k, <1>r, <2>1
  <1>7. ASSUME NEW p \in Procs, Record(p) PROVE \E q \in Rows : reviews'[q] > 1
    <2> DEFINE s == pc[p].row
    <2>1. s \in Rows /\ Recording(p, s) /\ doubt' = doubt /\ reviews' = reviews
      BY <1>0, <1>7, Carried DEF Record, Recording
    <2>2. revived' = (revived \/ s \in Released) \/ revived' = revived
      BY <1>7 DEF Record, Write
    <2>3. CASE revived
      BY <1>k, <2>1, <2>3
    <2>4. CASE ~revived
      <3>1. s \in Released
        BY <2>2, <2>4
      <3>2. Fresh(s) /\ Once(s)
        BY <2>1 DEF Unpaid, Sound
      <3>3. reviews[s] # 0 /\ reviews[s] # 1
        BY <2>1, <3>1, <3>2 DEF Fresh, Once, Released
      <3>4. reviews'[s] > 1
        BY <1>0, <2>1, <3>3
      <3> QED
        BY <2>1, <3>4
    <2> QED
      BY <2>3, <2>4
  <1>8. ASSUME NEW p \in Procs, RecordThrows(p) PROVE \E q \in Rows : reviews'[q] > 1
    <2>1. doubt \subseteq doubt'
      BY <1>8 DEF RecordThrows
    <2> QED
      BY <1>8, <1>u, <2>1 DEF RecordThrows
  <1>9. ASSUME NEW p \in Procs, Break(p) PROVE \E q \in Rows : reviews'[q] > 1
    BY <1>9, <1>u DEF Break, history
  <1>10. CASE UNCHANGED vars
    BY <1>10, <1>u DEF vars, history
  <1> QED
    BY <1>1, <1>a, <1>b, <1>2, <1>3, <1>4, <1>5, <1>6, <1>7, <1>8, <1>9, <1>10
       DEF Next, Owner, Admin, RequestWithdraw, WithdrawMitra, WithdrawYayasan,
           CreateDeveloperDisbursement, ApproveLegacy, RejectLegacy

\* What is paid out, over all rows, is at most what is committed, when no row is
\* reviewed twice and no accepted payout is taken for an error.
LEMMA SentIsCommitted ==
    ASSUME TypeInv, Unpaid, ReviewsRow, doubt = {}, \A r \in Rows : reviews[r] <= 1
    PROVE  SumFunction([r \in Rows |-> amount[r] * sent[r]]) <= Total(Committed)
  <1> DEFINE out == [r \in Rows |-> amount[r] * sent[r]]
  <1>0. TypeOK /\ \A r \in Rows : amount[r] \in Nat /\ sent[r] \in Nat /\ reviews[r] \in Nat /\ sent[r] <= reviews[r]
    BY PayoutAssumption DEF TypeInv, TypeOK, PaidByReview
  <1>1. \A r \in Rows : sent[r] = 0 \/ sent[r] = 1
    BY <1>0
  <1>2. \A r \in Rows : sent[r] = 1 => r \in Committed
    <2> SUFFICES ASSUME NEW r \in Rows, sent[r] = 1 PROVE r \in Committed
      OBVIOUS
    <2>1. Fresh(r) /\ Once(r) /\ reviews[r] = 1
      BY <1>0 DEF Unpaid, Sound
    <2>2. status[r] \notin {"REJECTED", "FAILED"}
      BY <2>1 DEF Once
    <2>3. status[r] # Absent
      BY <2>1 DEF ReviewsRow, Created
    <2> QED
      BY <1>0, <2>2, <2>3 DEF TypeOK, Statuses, Committed
  <1>3. ASSUME NEW r \in Rows
        PROVE  /\ out[r] = IF sent[r] = 1 THEN amount[r] ELSE 0
               /\ out[r] \in Int /\ amount[r] \in Int /\ out[r] <= amount[r]
    BY <1>0, <1>1
  <1>4. (\A r \in Rows \ Committed : out[r] = 0) /\ Committed \in SUBSET Rows
    BY <1>1, <1>2, <1>3 DEF Committed
  <1>5. DOMAIN out = Rows
    OBVIOUS
  <1> HIDE DEF out
  <1>6. SumFunctionOnSet(out, Rows) <= SumFunctionOnSet(amount, Committed)
    BY <1>3, <1>4, RowsFinite, SumAtMost
  <1> QED
    BY <1>5, <1>6 DEF SumFunction, Total, out

\* Money that leaves was earned: for wallets of any size, in whatever order
\* reviews, answers, failing writes, restarts and further requests interleave.
THEOREM MoneyOutIsEarnedCorrect == Spec => []MoneyOutIsEarned
  <1>1. Init => Unpaid /\ Reopened
    BY DEF Init, Unpaid, Sound, Fresh, Once, Recording, At, Idle, Absent, Reopened
  <1>2. TypeInv /\ Unpaid /\ Peaked /\ Solvent /\ Reopened => MoneyOutIsEarned
    <2> SUFFICES ASSUME TypeInv, Unpaid, Peaked, Solvent, Reopened,
                        ~overlapped, doubt = {}, \A r \in Rows : reviews[r] <= 1
                 PROVE  SumFunction([r \in Rows |-> amount[r] * sent[r]]) <= Ceiling
      BY DEF MoneyOutIsEarned
    <2>1. \A r \in Rows : reviews[r] \in Nat /\ amount[r] \in Nat /\ sent[r] \in Nat
      BY PayoutAssumption DEF TypeInv, TypeOK
    <2>2. ~revived
      BY <2>1 DEF Reopened
    <2>3. Total(Committed) <= peak /\ peak = Ceiling
      BY <2>2, PeakIsCeiling DEF Solvent, Covered
    <2>4. SumFunction([r \in Rows |-> amount[r] * sent[r]]) <= Total(Committed)
      BY SentIsCommitted DEF Solvent
    <2>5. Total(Committed) \in Int /\ peak \in Int
      BY TotalInt, PayoutAssumption DEF TypeInv, TypeOK, Committed
    <2> DEFINE out == [r \in Rows |-> amount[r] * sent[r]]
    <2>6. SumFunction(out) \in Int
      <3>1. (\A r \in Rows : out[r] \in Int) /\ DOMAIN out = Rows
        BY <2>1
      <3> HIDE DEF out
      <3> QED
        BY <3>1, RowsFinite, SumInt DEF SumFunction
    <2> QED
      BY <2>3, <2>4, <2>5, <2>6
  <1> QED
    BY <1>1, <1>2, TypeInit, TypeStep, UnpaidStep, PeakedInit, PeakedStep,
       SolventInit, SolventStep, ReopenedStep, PTL DEF Spec
=============================================================================
