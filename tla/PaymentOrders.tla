---------------------------- MODULE PaymentOrders ----------------------------
(***************************************************************************)
(* The money core of PaymentsService                                       *)
(* (backend/src/modules/payments/payments.service.ts): payment orders,     *)
(* their audit events, wallets, the wallet ledger, the revenue ledger and  *)
(* the referral commissions, as they are changed by the two database       *)
(* transactions applyOrderTransition and payTestWithWallet.                *)
(*                                                                         *)
(* Every process in Procs is one caller (a webhook worker, the reconcile   *)
(* cron, a user's check/cancel/pay request) and has at most one            *)
(* transaction open.  MySQL runs it at REPEATABLE READ: the first SELECT   *)
(* fixes the snapshot that every later plain SELECT of the transaction     *)
(* answers from, while row locks, writes and unique indexes work on the    *)
(* committed rows.  The code reads first and locks afterwards, so `seen'   *)
(* keeps the snapshot and the guards are evaluated on it.                  *)
(***************************************************************************)
EXTENDS PaymentStatus, Sequences, FiniteSets

CONSTANTS Procs,      \* callers that can have a transaction open
          Users,      \* wallet owners
          Parties,    \* who can earn a commission: yayasan, mitra, referrer
          Orders,     \* PaymentOrder rows that may come to exist
          KindOf,     \* order -> "TOPUP", "TEST" or "WALLET" (paid from wallet)
          OwnerOf,    \* order -> user
          Amount,     \* order -> what is paid
          PartiesOf,  \* order -> parties with a positive share in its pricing
          MaxTx       \* bound: transactions and orders ever begun

ASSUME OrderAssumption ==
    /\ KindOf \in [Orders -> {"TOPUP", "TEST", "WALLET"}]
    /\ OwnerOf \in [Orders -> Users]
    /\ Amount \in [Orders -> Nat \ {0}]
    /\ PartiesOf \in [Orders -> SUBSET Parties]
    /\ MaxTx \in Nat

VARIABLES status,      \* order -> PaymentOrder.status, "ABSENT" before the row
          events,      \* order -> its PaymentEvent rows, oldest first
          balance,     \* user -> Wallet.availableBalance
          ledger,      \* user -> the wallet's WalletLedger rows, oldest first
          revenue,     \* order -> number of RevenueLedger rows it caused
          commission,  \* order -> party -> number of ReferralTransaction rows
          premium,     \* user -> User.paymentStatus is SUCCESS
          tx,          \* process -> its open transaction
          begun        \* transactions and orders begun, for MaxTx

vars == <<status, events, balance, ledger, revenue, commission, premium, tx, begun>>
business == <<status, events, balance, ledger, revenue, commission, premium>>

Absent == "ABSENT"
OrderStatuses == Statuses \cup {Absent}

\* What a transaction's plain SELECTs answer for order o.
Snapshots == [status: OrderStatuses, balance: Nat, revenue: Nat, paidTo: SUBSET Parties]

\* Faulty variant: the revenue row is not looked up.
SnapshotWithoutRevenue(o) ==
    [status |-> status[o], balance |-> balance[OwnerOf[o]], revenue |-> 0,
     paidTo |-> {q \in Parties : commission[o][q] > 0}]

Snapshot(o) == [status  |-> status[o],
                balance |-> balance[OwnerOf[o]],
                revenue |-> revenue[o],
                paidTo  |-> {q \in Parties : commission[o][q] > 0}]

\* read, locked, effects: applyOrderTransition after its first SELECT, holding
\* the order row, holding order and wallet rows.  payread, paylocked: the same
\* for payTestWithWallet; prechecked: before its transaction; logging:
\* createOrder between its two writes.
Phases == {"read", "locked", "effects", "prechecked", "payread", "paylocked", "logging"}
Idle == [phase |-> "idle"]
Transactions ==
    {Idle} \cup [phase: Phases, order: Orders, next: Statuses, seen: Snapshots]

Open(p) == tx[p] # Idle
OrderOf(p) == tx[p].order
Payer(p) == OwnerOf[tx[p].order]

HoldsOrder(p, o) == tx[p].phase \in {"locked", "effects"} /\ tx[p].order = o
HoldsWallet(p, u) == tx[p].phase \in {"effects", "paylocked"} /\ Payer(p) = u

Init ==
    /\ status = [o \in Orders |-> Absent]
    /\ events = [o \in Orders |-> <<>>]
    /\ balance = [u \in Users |-> 0]
    /\ ledger = [u \in Users |-> <<>>]
    /\ revenue = [o \in Orders |-> 0]
    /\ commission = [o \in Orders |-> [q \in Parties |-> 0]]
    /\ premium = [u \in Users |-> FALSE]
    /\ tx = [p \in Procs |-> Idle]
    /\ begun = 0

Start(p, o, phase, next) ==
    /\ ~Open(p)
    /\ begun < MaxTx
    /\ begun' = begun + 1
    /\ tx' = [tx EXCEPT ![p] = [phase |-> phase, order |-> o, next |-> next,
                                seen |-> Snapshot(o)]]

Advance(p, phase) ==
    /\ tx' = [tx EXCEPT ![p].phase = phase]
    /\ UNCHANGED <<business, begun>>

End(p) == tx' = [tx EXCEPT ![p] = Idle] /\ UNCHANGED begun
-----------------------------------------------------------------------------
(* createOrder: the row is committed, then the event, with no transaction    *)
(* around the two.                                                           *)

CreateOrder(p, o) ==
    /\ KindOf[o] # "WALLET"
    /\ status[o] = Absent
    /\ Start(p, o, "logging", "PENDING")
    /\ status' = [status EXCEPT ![o] = "PENDING"]
    /\ UNCHANGED <<events, balance, ledger, revenue, commission, premium>>

LogCreation(p) ==
    /\ tx[p].phase = "logging"
    /\ events' = [events EXCEPT ![OrderOf(p)] =
                     Append(@, [from |-> Absent, to |-> tx[p].next])]
    /\ End(p)
    /\ UNCHANGED <<status, balance, ledger, revenue, commission, premium>>
-----------------------------------------------------------------------------
(* applyOrderTransition.                                                     *)

\* findUnique of the order: the snapshot is taken here, before any lock.
BeginTransition(p, o, next) ==
    /\ KindOf[o] # "WALLET"
    /\ status[o] # Absent
    /\ Start(p, o, "read", next)
    /\ UNCHANGED business

\* SELECT ... FOR UPDATE on the order row; its result is thrown away.
LockOrder(p) ==
    /\ tx[p].phase = "read"
    /\ \A q \in Procs : ~HoldsOrder(q, OrderOf(p))
    /\ Advance(p, "locked")

\* Every caller's payload carries a provider status when it is a status
\* check, so the third guard's condition never holds.
Decision(p) == Verdict(tx[p].seen.status, tx[p].next, FALSE)

\* Faulty variant: returns without ending the transaction.
RefuseWithoutEnd(p) ==
    tx[p].phase = "locked" /\ Decision(p) # "applied" /\ UNCHANGED vars

\* One of the guards refuses: the transaction commits having changed nothing.
Refuse(p) ==
    /\ tx[p].phase = "locked"
    /\ Decision(p) # "applied"
    /\ End(p)
    /\ UNCHANGED business

\* Faulty variant: the event is built from the updated row.
RecordTransitionLate(p) ==
    /\ status' = [status EXCEPT ![OrderOf(p)] = tx[p].next]
    /\ events' = [events EXCEPT ![OrderOf(p)] =
                     Append(@, [from |-> tx[p].next, to |-> tx[p].next])]

\* The blind update of the row and the event with the status it was read with.
RecordTransition(p) ==
    /\ status' = [status EXCEPT ![OrderOf(p)] = tx[p].next]
    /\ events' = [events EXCEPT ![OrderOf(p)] =
                     Append(@, [from |-> tx[p].seen.status, to |-> tx[p].next])]

\* A transition that is not a first settlement ends with the event.
CommitPlain(p) ==
    /\ tx[p].phase = "locked"
    /\ Decision(p) = "applied"
    /\ ~IsSuccess(tx[p].seen.status, tx[p].next)
    /\ RecordTransition(p)
    /\ End(p)
    /\ UNCHANGED <<balance, ledger, revenue, commission, premium>>

\* applySuccessEffect: the wallet is read (from the snapshot), then locked.
LockWallet(p) ==
    /\ tx[p].phase = "locked"
    /\ Decision(p) = "applied"
    /\ IsSuccess(tx[p].seen.status, tx[p].next)
    /\ \A q \in Procs : ~HoldsWallet(q, Payer(p))
    /\ Advance(p, "effects")

\* Faulty variant: the unique index is missing.
BookedNever(o, entry) == FALSE

\* The unique index on (referenceType, referenceId, entryType).
Booked(o, entry) ==
    \E i \in DOMAIN ledger[OwnerOf[o]] :
        ledger[OwnerOf[o]][i].order = o /\ ledger[OwnerOf[o]][i].entry = entry

\* Faulty variants: the wallet is incremented where the ledger row keeps the
\* snapshot's numbers; the row's two balances are swapped.
MoveFundsByIncrement(p, entry, after) ==
    /\ balance' = [balance EXCEPT ![Payer(p)] = @ + after - tx[p].seen.balance]
    /\ ledger' = [ledger EXCEPT ![Payer(p)] =
                     Append(@, [order |-> OrderOf(p), entry |-> entry,
                                before |-> tx[p].seen.balance, after |-> after])]

MoveFundsSwapped(p, entry, after) ==
    /\ balance' = [balance EXCEPT ![Payer(p)] = after]
    /\ ledger' = [ledger EXCEPT ![Payer(p)] =
                     Append(@, [order |-> OrderOf(p), entry |-> entry,
                                before |-> after, after |-> tx[p].seen.balance])]

\* Writes the balance computed from the snapshot and its ledger row.
MoveFunds(p, entry, after) ==
    /\ balance' = [balance EXCEPT ![Payer(p)] = after]
    /\ ledger' = [ledger EXCEPT ![Payer(p)] =
                     Append(@, [order |-> OrderOf(p), entry |-> entry,
                                before |-> tx[p].seen.balance, after |-> after])]

CommitTopup(p) ==
    /\ tx[p].phase = "effects"
    /\ KindOf[OrderOf(p)] = "TOPUP"
    /\ ~Booked(OrderOf(p), "CREDIT")
    /\ RecordTransition(p)
    /\ MoveFunds(p, "CREDIT", tx[p].seen.balance + Amount[OrderOf(p)])
    /\ End(p)
    /\ UNCHANGED <<revenue, commission, premium>>

\* The ledger insert hits the unique index: P2002 rolls everything back.
AbortDuplicate(p) ==
    /\ tx[p].phase = "effects"
    /\ KindOf[OrderOf(p)] = "TOPUP"
    /\ Booked(OrderOf(p), "CREDIT")
    /\ End(p)
    /\ UNCHANGED business

\* applyTestPaymentSideEffects: each row is inserted if the snapshot lacks it.
SideEffects(p) ==
    LET o == OrderOf(p)
        unpaid == PartiesOf[o] \ tx[p].seen.paidTo
    IN  /\ premium' = [premium EXCEPT ![OwnerOf[o]] = TRUE]
        /\ revenue' = [revenue EXCEPT ![o] = IF tx[p].seen.revenue > 0 THEN @ ELSE @ + 1]
        /\ commission' = [commission EXCEPT ![o] =
               [q \in Parties |-> IF q \in unpaid THEN @[q] + 1 ELSE @[q]]]

CommitTestPayment(p) ==
    /\ tx[p].phase = "effects"
    /\ KindOf[OrderOf(p)] = "TEST"
    /\ RecordTransition(p)
    /\ SideEffects(p)
    /\ End(p)
    /\ UNCHANGED <<balance, ledger>>
-----------------------------------------------------------------------------
(* payTestWithWallet.                                                        *)

\* The balance check outside the transaction.  The order id is generated
\* fresh, so no two calls share one.
PrecheckWallet(p, o) ==
    /\ KindOf[o] = "WALLET"
    /\ status[o] = Absent
    /\ \A q \in Procs : Open(q) => OrderOf(q) # o
    /\ balance[OwnerOf[o]] >= Amount[o]
    /\ Start(p, o, "prechecked", "SUCCESS")
    /\ UNCHANGED business

\* The transaction's first SELECT (the wallet upsert) fixes its snapshot.
BeginWalletPay(p) ==
    /\ tx[p].phase = "prechecked"
    /\ tx' = [tx EXCEPT ![p].phase = "payread", ![p].seen = Snapshot(OrderOf(p))]
    /\ UNCHANGED <<business, begun>>

LockPayingWallet(p) ==
    /\ tx[p].phase = "payread"
    /\ \A q \in Procs : ~HoldsWallet(q, Payer(p))
    /\ Advance(p, "paylocked")

\* Faulty variant: the check before the transaction is trusted.
CoveredAtPrecheck(p) == TRUE

Covered(p) == tx[p].seen.balance >= Amount[OrderOf(p)]

RefuseWalletPay(p) ==
    /\ tx[p].phase = "paylocked"
    /\ ~Covered(p)
    /\ End(p)
    /\ UNCHANGED business

CommitWalletPay(p) ==
    /\ tx[p].phase = "paylocked"
    /\ Covered(p)
    /\ status' = [status EXCEPT ![OrderOf(p)] = "SUCCESS"]
    /\ MoveFunds(p, "DEBIT", tx[p].seen.balance - Amount[OrderOf(p)])
    /\ SideEffects(p)
    /\ End(p)
    /\ UNCHANGED events
-----------------------------------------------------------------------------
\* A crash, a lost connection or the 8-second transaction timeout: whatever
\* is uncommitted is rolled back, its locks are released.
Rollback(p) ==
    /\ Open(p)
    /\ End(p)
    /\ UNCHANGED business

Step(p) ==
    \/ LogCreation(p)
    \/ LockOrder(p) \/ Refuse(p) \/ CommitPlain(p) \/ LockWallet(p)
    \/ CommitTopup(p) \/ AbortDuplicate(p) \/ CommitTestPayment(p)
    \/ BeginWalletPay(p) \/ LockPayingWallet(p)
    \/ RefuseWalletPay(p) \/ CommitWalletPay(p)

\* Nothing is open and the bound is used up: keeps a real deadlock visible.
Finished ==
    /\ begun = MaxTx
    /\ \A p \in Procs : ~Open(p)
    /\ UNCHANGED vars

Next ==
    \/ \E p \in Procs :
          \/ \E o \in Orders : CreateOrder(p, o) \/ PrecheckWallet(p, o)
          \/ \E o \in Orders, next \in RequestedStatuses : BeginTransition(p, o, next)
          \/ Step(p)
          \/ Rollback(p)
    \/ Finished

Spec == Init /\ [][Next]_vars

\* The callers that act for one user take turns.  The code does not ensure it;
\* it is the condition under which the promises at the end hold.
OneCallerPerUser ==
    \A p, q \in Procs : Open(p) /\ Open(q) /\ Payer(p) = Payer(q) => p = q

SerialSpec == Init /\ [][Next /\ OneCallerPerUser']_vars

\* InnoDB grants row locks in arrival order and a connection keeps executing
\* the statements of its transaction.
Fairness == \A p \in Procs : SF_vars(Step(p))
FairSpec == Spec /\ Fairness
-----------------------------------------------------------------------------
Entry == [order: Orders, entry: {"CREDIT", "DEBIT"}, before: Nat, after: Nat]
Event == [from: OrderStatuses, to: Statuses]

TypeOK ==
    /\ status \in [Orders -> OrderStatuses]
    /\ events \in [Orders -> Seq(Event)]
    /\ balance \in [Users -> Nat]
    /\ ledger \in [Users -> Seq(Entry)]
    /\ revenue \in [Orders -> Nat]
    /\ commission \in [Orders -> [Parties -> Nat]]
    /\ premium \in [Users -> BOOLEAN]
    /\ tx \in [Procs -> Transactions]
    /\ begun \in 0..MaxTx
-----------------------------------------------------------------------------
(* What holds however the transactions interleave.                           *)

\* A top-up is credited to the wallet at most once, whatever combination of
\* webhooks, replays and status checks settles it (the unique index of
\* WalletLedger, schema.prisma:561, met by applySuccessEffect's insert).
CreditOnce ==
    \A u \in Users : \A i, j \in DOMAIN ledger[u] :
        /\ ledger[u][i].order = ledger[u][j].order
        /\ ledger[u][i].entry = ledger[u][j].entry
        => i = j

BookedInFull(o) ==
    IF KindOf[o] = "TOPUP"
    THEN Booked(o, "CREDIT")
    ELSE /\ revenue[o] > 0
         /\ premium[OwnerOf[o]]
         /\ \A q \in PartiesOf[o] : commission[o][q] > 0

\* An order that reads as paid has its whole business effect booked, also when
\* it was settled after having been cancelled or expired, and also when a
\* crash hit between two writes (applyOrderTransition is one transaction).
SettledIsBooked == \A o \in Orders : IsSettled(status[o]) => BookedInFull(o)

\* The revenue rows of an order and the commissions of its parties are
\* written together: no race books one of them without the others
\* (applyTestPaymentSideEffects checks each row on its own).
SharesMatchRevenue ==
    \A o \in Orders : \A q \in PartiesOf[o] : commission[o][q] = revenue[o]

\* The balance a user sees is the one its newest ledger row ends at, also
\* after a lost update (wallet row and ledger row change under one lock).
BalanceIsLastEntry ==
    \A u \in Users :
        balance[u] = IF ledger[u] = <<>> THEN 0 ELSE ledger[u][Len(ledger[u])].after

\* Every transaction that was begun comes to an end: the order and wallet
\* row locks are taken in an order that cannot leave two callers waiting on
\* each other.
EveryTxEnds == \A p \in Procs : Open(p) ~> ~Open(p)
-----------------------------------------------------------------------------
(* What holds under SerialSpec, when the transactions of one user do not     *)
(* overlap: the promises that the read-before-lock order breaks otherwise.   *)

\* Replays, duplicates and reordered notifications of an order book its
\* revenue and each commission at most once.
EffectOnce ==
    \A o \in Orders : revenue[o] <= 1 /\ \A q \in Parties : commission[o][q] <= 1

\* preserve_settlement: a paid order stays paid.
SettlementIsFinal ==
    [][\A o \in Orders : IsSettled(status[o]) => IsSettled(status'[o])]_vars

\* Each ledger row starts from the balance the row before it ended at: no
\* credit or debit was computed from a stale balance.
LedgerChained ==
    \A u \in Users : \A i \in 2..Len(ledger[u]) :
        ledger[u][i].before = ledger[u][i-1].after

\* The audit trail is a path: each event starts from the status the one
\* before it ended in.
AuditChained ==
    \A o \in Orders : \A i \in 2..Len(events[o]) :
        events[o][i].from = events[o][i-1].to
-----------------------------------------------------------------------------
\* The refinement mapping to the abstract promise.
OutcomeOf(s) ==
    CASE s = Absent                   -> "none"
      [] s \in {"CREATED", "PENDING"} -> "open"
      [] IsSettled(s)                 -> "settled"
      [] OTHER                        -> "failed"

Outcome == [o \in Orders |-> OutcomeOf(status[o])]

EffectCount == [o \in Orders |->
                  IF KindOf[o] = "TOPUP"
                  THEN IF Booked(o, "CREDIT") THEN 1 ELSE 0
                  ELSE revenue[o]]

Ideal == INSTANCE SettleOnce WITH outcome <- Outcome, booked <- EffectCount, funds <- balance

\* Without that overlap the two transactions implement the promise step by step:
\* one settlement per order, its effect booked with it, no fund lost or made.
IdealSpec == Ideal!Spec
=============================================================================
