-------------------------- MODULE PaymentOrdersProofs --------------------------
(***************************************************************************)
(* Theorems about PaymentOrders, for every set of callers, users, orders   *)
(* and parties.                                                            *)
(***************************************************************************)
EXTENDS PaymentOrders, TLAPS

\* What Midtrans asks for is a status of an order.
LEMMA RequestedAreStatuses == RequestedStatuses \subseteq Statuses
  BY DEF RequestedStatuses, MapMidtransStatus, Statuses

\* A snapshot of a well-typed state is a well-typed snapshot.
LEMMA SnapshotType ==
  ASSUME TypeOK, NEW o \in Orders
  PROVE  Snapshot(o) \in Snapshots
  BY OrderAssumption DEF TypeOK, Snapshot, Snapshots

\* What an open transaction is made of.
LEMMA OpenType ==
  ASSUME TypeOK, NEW p \in Procs, Open(p)
  PROVE  /\ tx[p].phase \in Phases
         /\ OrderOf(p) \in Orders
         /\ Payer(p) \in Users
         /\ tx[p].next \in Statuses
         /\ tx[p].seen \in Snapshots
         /\ Amount[OrderOf(p)] \in Nat \ {0}
         /\ PartiesOf[OrderOf(p)] \in SUBSET Parties
         /\ tx[p].seen.status \in OrderStatuses
         /\ tx[p].seen.balance \in Nat
         /\ tx[p] \in [phase : Phases, order : Orders, next : Statuses, seen : Snapshots]
<1>1. tx[p] \in [phase : Phases, order : Orders, next : Statuses, seen : Snapshots]
  BY DEF TypeOK, Open, Transactions
<1>2. tx[p].seen \in Snapshots
  BY <1>1
<1>3. tx[p].seen.status \in OrderStatuses /\ tx[p].seen.balance \in Nat
  BY <1>2 DEF Snapshots
<1>4. QED
  BY <1>1, <1>2, <1>3, OrderAssumption DEF OrderOf, Payer

\* A process whose phase is not "idle" has a transaction open.
LEMMA PhaseOpen ==
  ASSUME NEW p \in Procs, tx[p].phase # "idle"
  PROVE  Open(p)
  BY DEF Open, Idle

\* Beginning a transaction keeps the transactions well-typed.
LEMMA StartType ==
  ASSUME TypeOK, NEW p \in Procs, NEW o \in Orders,
         NEW phase \in Phases, NEW next \in Statuses,
         Start(p, o, phase, next)
  PROVE  tx' \in [Procs -> Transactions] /\ begun' \in 0..MaxTx
<1>1. begun' \in 0..MaxTx
  BY OrderAssumption DEF Start, TypeOK
<1>2. [phase |-> phase, order |-> o, next |-> next, seen |-> Snapshot(o)] \in Transactions
  BY SnapshotType DEF Transactions
<1>3. QED
  BY <1>1, <1>2 DEF Start, TypeOK

\* So does ending one,
LEMMA EndType ==
  ASSUME TypeOK, NEW p \in Procs, End(p)
  PROVE  tx' \in [Procs -> Transactions] /\ begun' \in 0..MaxTx
  BY DEF End, TypeOK, Transactions

\* and passing to its next phase.
LEMMA AdvanceType ==
  ASSUME TypeOK, NEW p \in Procs, Open(p), NEW phase \in Phases,
         Advance(p, phase)
  PROVE  TypeOK'
<1>1. [tx[p] EXCEPT !.phase = phase] \in Transactions
  BY OpenType DEF Transactions, OrderOf
<1>2. tx' \in [Procs -> Transactions]
  BY <1>1 DEF Advance, TypeOK
<1>3. QED
  BY <1>2 DEF Advance, TypeOK, business

\* The status and the event written by a transition are well-typed.
LEMMA RecordType ==
  ASSUME TypeOK, NEW p \in Procs, Open(p), RecordTransition(p)
  PROVE  status' \in [Orders -> OrderStatuses] /\ events' \in [Orders -> Seq(Event)]
<1>1. [from |-> tx[p].seen.status, to |-> tx[p].next] \in Event
  BY OpenType DEF Event, Snapshots
<1>2. QED
  BY <1>1, OpenType DEF RecordTransition, TypeOK, OrderStatuses

\* So are the bookings of a paid test,
LEMMA SideEffectsType ==
  ASSUME TypeOK, NEW p \in Procs, Open(p), SideEffects(p)
  PROVE  /\ premium' \in [Users -> BOOLEAN]
         /\ revenue' \in [Orders -> Nat]
         /\ commission' \in [Orders -> [Parties -> Nat]]
  BY OpenType DEF SideEffects, TypeOK, Payer, OrderOf

\* and the balance and ledger row of a wallet movement.
LEMMA MoveFundsType ==
  ASSUME TypeOK, NEW p \in Procs, Open(p), NEW after \in Nat,
         NEW entry \in {"CREDIT", "DEBIT"}, MoveFunds(p, entry, after)
  PROVE  balance' \in [Users -> Nat] /\ ledger' \in [Users -> Seq(Entry)]
<1>1. [order |-> OrderOf(p), entry |-> entry,
       before |-> tx[p].seen.balance, after |-> after] \in Entry
  BY OpenType DEF Entry, Snapshots
<1>2. QED
  BY <1>1, OpenType DEF MoveFunds, TypeOK

\* The tables and transactions of the money core keep their types.
THEOREM TypeCorrect == Spec => []TypeOK
<1>1. Init => TypeOK
  BY OrderAssumption DEF Init, TypeOK, OrderStatuses, Transactions
<1>2. TypeOK /\ [Next]_vars => TypeOK'
  <2> SUFFICES ASSUME TypeOK, [Next]_vars PROVE TypeOK'
    OBVIOUS
  <2>1. ASSUME NEW p \in Procs, NEW o \in Orders, CreateOrder(p, o) PROVE TypeOK'
    <3>1. "logging" \in Phases /\ "PENDING" \in Statuses
      BY DEF Phases, Statuses
    <3>2. tx' \in [Procs -> Transactions] /\ begun' \in 0..MaxTx
      BY <2>1, <3>1, StartType DEF CreateOrder
    <3>3. QED
      BY <2>1, <3>1, <3>2 DEF CreateOrder, TypeOK, OrderStatuses
  <2>2. ASSUME NEW p \in Procs, NEW o \in Orders, PrecheckWallet(p, o) PROVE TypeOK'
    <3>1. "prechecked" \in Phases /\ "SUCCESS" \in Statuses
      BY DEF Phases, Statuses
    <3>2. tx' \in [Procs -> Transactions] /\ begun' \in 0..MaxTx
      BY <2>2, <3>1, StartType DEF PrecheckWallet
    <3>3. QED
      BY <2>2, <3>2 DEF PrecheckWallet, TypeOK, business
  <2>3. ASSUME NEW p \in Procs, NEW o \in Orders, NEW next \in RequestedStatuses,
               BeginTransition(p, o, next)
        PROVE  TypeOK'
    <3>1. "read" \in Phases /\ next \in Statuses
      BY RequestedAreStatuses DEF Phases
    <3>2. tx' \in [Procs -> Transactions] /\ begun' \in 0..MaxTx
      BY <2>3, <3>1, StartType DEF BeginTransition
    <3>3. QED
      BY <2>3, <3>2 DEF BeginTransition, TypeOK, business
  <2>4. ASSUME NEW p \in Procs, LogCreation(p) PROVE TypeOK'
    <3>1. Open(p)
      BY <2>4, PhaseOpen DEF LogCreation
    <3>2. [from |-> Absent, to |-> tx[p].next] \in Event
      BY <3>1, OpenType DEF Event, OrderStatuses
    <3>3. tx' \in [Procs -> Transactions] /\ begun' \in 0..MaxTx
      BY <2>4, EndType DEF LogCreation
    <3>4. QED
      BY <2>4, <3>1, <3>2, <3>3, OpenType DEF LogCreation, TypeOK
  <2>5. ASSUME NEW p \in Procs, LockOrder(p) \/ LockWallet(p) \/ LockPayingWallet(p)
        PROVE  TypeOK'
    <3>1. Open(p)
      BY <2>5, PhaseOpen DEF LockOrder, LockWallet, LockPayingWallet
    <3>2. \E phase \in Phases : Advance(p, phase)
      BY <2>5 DEF LockOrder, LockWallet, LockPayingWallet, Phases
    <3>3. QED
      BY <3>1, <3>2, AdvanceType
  <2>6. ASSUME NEW p \in Procs,
               Refuse(p) \/ AbortDuplicate(p) \/ RefuseWalletPay(p) \/ Rollback(p)
        PROVE  TypeOK'
    <3>1. End(p) /\ UNCHANGED business
      BY <2>6 DEF Refuse, AbortDuplicate, RefuseWalletPay, Rollback
    <3>2. QED
      BY <3>1, EndType DEF TypeOK, business
  <2>7. ASSUME NEW p \in Procs, CommitPlain(p) PROVE TypeOK'
    <3>1. Open(p) /\ End(p)
      BY <2>7, PhaseOpen DEF CommitPlain
    <3>2. QED
      BY <2>7, <3>1, EndType, RecordType DEF CommitPlain, TypeOK
  <2>8. ASSUME NEW p \in Procs, CommitTopup(p) PROVE TypeOK'
    <3>1. Open(p) /\ End(p)
      BY <2>8, PhaseOpen DEF CommitTopup
    <3>2. tx[p].seen.balance + Amount[OrderOf(p)] \in Nat
      BY <3>1, OpenType DEF Snapshots
    <3>3. balance' \in [Users -> Nat] /\ ledger' \in [Users -> Seq(Entry)]
      BY <2>8, <3>1, <3>2, MoveFundsType DEF CommitTopup
    <3>4. QED
      BY <2>8, <3>1, <3>3, EndType, RecordType DEF CommitTopup, TypeOK
  <2>9. ASSUME NEW p \in Procs, CommitTestPayment(p) PROVE TypeOK'
    <3>1. Open(p) /\ End(p)
      BY <2>9, PhaseOpen DEF CommitTestPayment
    <3>2. QED
      BY <2>9, <3>1, EndType, RecordType, SideEffectsType DEF CommitTestPayment, TypeOK
  <2>10. ASSUME NEW p \in Procs, BeginWalletPay(p) PROVE TypeOK'
    <3>1. Open(p)
      BY <2>10, PhaseOpen DEF BeginWalletPay
    <3>2. [tx[p] EXCEPT !.phase = "payread", !.seen = Snapshot(OrderOf(p))] \in Transactions
      BY <3>1, OpenType, SnapshotType DEF Transactions, Phases, OrderOf
    <3>3. tx' = [tx EXCEPT ![p] = [tx[p] EXCEPT !.phase = "payread",
                                                !.seen = Snapshot(OrderOf(p))]]
      BY <2>10 DEF BeginWalletPay, TypeOK
    <3>4. QED
      BY <2>10, <3>2, <3>3 DEF BeginWalletPay, TypeOK, business
  <2>11. ASSUME NEW p \in Procs, CommitWalletPay(p) PROVE TypeOK'
    <3>1. Open(p) /\ End(p)
      BY <2>11, PhaseOpen DEF CommitWalletPay
    <3>2. tx[p].seen.balance - Amount[OrderOf(p)] \in Nat
      BY <2>11, <3>1, OpenType DEF CommitWalletPay, Covered, Snapshots
    <3>3. balance' \in [Users -> Nat] /\ ledger' \in [Users -> Seq(Entry)]
      BY <2>11, <3>1, <3>2, MoveFundsType DEF CommitWalletPay
    <3>4. status' \in [Orders -> OrderStatuses]
      BY <2>11, <3>1, OpenType DEF CommitWalletPay, TypeOK, OrderStatuses, Statuses
    <3>5. QED
      BY <2>11, <3>1, <3>3, <3>4, EndType, SideEffectsType DEF CommitWalletPay, TypeOK
  <2>12. CASE UNCHANGED vars
    BY <2>12 DEF TypeOK, vars
  <2>13. QED
    BY <2>1, <2>2, <2>3, <2>4, <2>5, <2>6, <2>7, <2>8, <2>9, <2>10, <2>11, <2>12
       DEF Next, Step, Finished
<1>3. QED
  BY <1>1, <1>2, PTL DEF Spec
-----------------------------------------------------------------------------
(* SettledIsBooked.  It is not inductive: a caller that read a settled row   *)
(* rewrites it to another settled status without booking anything, and one   *)
(* that saw a revenue row does not insert one.  What makes both right is     *)
(* that books only grow, so what a snapshot saw is still there.              *)

Grow ==
    \A o \in Orders :
        /\ Booked(o, "CREDIT") => Booked(o, "CREDIT")'
        /\ revenue[o] > 0 => revenue'[o] > 0
        /\ premium[OwnerOf[o]] => premium'[OwnerOf[o]]
        /\ \A q \in Parties : commission[o][q] > 0 => commission'[o][q] > 0

SeenIsBooked(p) ==
    Open(p) =>
        /\ IsSettled(tx[p].seen.status) => BookedInFull(OrderOf(p))
        /\ tx[p].seen.revenue > 0 => revenue[OrderOf(p)] > 0
        /\ \A q \in tx[p].seen.paidTo : commission[OrderOf(p)][q] > 0
        /\ tx[p].phase \in {"prechecked", "payread", "paylocked"} => KindOf[OrderOf(p)] = "WALLET"

Booking == SettledIsBooked /\ \A p \in Procs : SeenIsBooked(p)

\* Appending to a ledger keeps its rows and adds the new one.
LEMMA AppendBooks ==
  ASSUME TypeOK, NEW p \in Procs, Open(p), NEW after \in Nat,
         NEW entry \in {"CREDIT", "DEBIT"}, MoveFunds(p, entry, after)
  PROVE  /\ \A o \in Orders, e \in {"CREDIT", "DEBIT"} : Booked(o, e) => Booked(o, e)'
         /\ \A o \in Orders : o = OrderOf(p) => Booked(o, entry)'
<1> DEFINE u == Payer(p)
           row == [order |-> OrderOf(p), entry |-> entry,
                   before |-> tx[p].seen.balance, after |-> after]
<1>1. u \in Users /\ OrderOf(p) \in Orders /\ row \in Entry /\ u = OwnerOf[OrderOf(p)]
  BY OpenType DEF Entry, Payer, OrderOf
<1>2. ledger[u] \in Seq(Entry) /\ ledger' = [ledger EXCEPT ![u] = Append(@, row)]
  BY <1>1 DEF MoveFunds, TypeOK
<1>3. ledger'[u] = Append(ledger[u], row) /\ \A v \in Users \ {u} : ledger'[v] = ledger[v]
  BY <1>1, <1>2 DEF TypeOK
<1>4. /\ DOMAIN ledger'[u] = 1..(Len(ledger[u]) + 1)
      /\ DOMAIN ledger[u] = 1..Len(ledger[u])
      /\ Len(ledger[u]) \in Nat
      /\ \A i \in DOMAIN ledger[u] : ledger'[u][i] = ledger[u][i]
      /\ ledger'[u][Len(ledger[u]) + 1] = row
  BY <1>1, <1>2, <1>3
<1>5. \A o \in Orders, e \in {"CREDIT", "DEBIT"} : Booked(o, e) => Booked(o, e)'
  <2> SUFFICES ASSUME NEW o \in Orders, NEW e \in {"CREDIT", "DEBIT"}, Booked(o, e)
               PROVE  Booked(o, e)'
    OBVIOUS
  <2>1. OwnerOf[o] \in Users
    BY OrderAssumption
  <2>2. CASE OwnerOf[o] = u
    BY <1>4, <2>2 DEF Booked
  <2>3. CASE OwnerOf[o] # u
    BY <1>3, <2>1, <2>3 DEF Booked
  <2>4. QED
    BY <2>2, <2>3
<1>6. ASSUME NEW o \in Orders, o = OrderOf(p)
      PROVE  Booked(o, entry)'
  <2>1. /\ Len(ledger[u]) + 1 \in DOMAIN ledger'[u]
        /\ ledger'[u][Len(ledger[u]) + 1].order = o
        /\ ledger'[u][Len(ledger[u]) + 1].entry = entry
    BY <1>4, <1>6
  <2>2. \E i \in DOMAIN ledger'[u] : /\ ledger'[u][i].order = o
                                     /\ ledger'[u][i].entry = entry
    BY <2>1
  <2>3. QED
    BY <1>1, <1>6, <2>2 DEF Booked
<1>7. QED
  BY <1>5, <1>6

\* The three side effects are there after the transaction, and none that was
\* there is gone.
LEMMA SideEffectsBook ==
  ASSUME TypeOK, NEW p \in Procs, Open(p), SeenIsBooked(p), SideEffects(p)
  PROVE  /\ \A o \in Orders :
              /\ revenue[o] > 0 => revenue'[o] > 0
              /\ premium[OwnerOf[o]] => premium'[OwnerOf[o]]
              /\ \A q \in Parties : commission[o][q] > 0 => commission'[o][q] > 0
         /\ revenue'[OrderOf(p)] > 0
         /\ premium'[Payer(p)]
         /\ \A q \in PartiesOf[OrderOf(p)] : commission'[OrderOf(p)][q] > 0
<1> DEFINE o == OrderOf(p)
<1>1. o \in Orders /\ OwnerOf[o] \in Users /\ OwnerOf[o] = Payer(p)
  BY OpenType DEF OrderOf, Payer
<1>2. revenue[o] \in Nat /\ (tx[p].seen.revenue > 0 => revenue[o] > 0)
  BY <1>1 DEF TypeOK, SeenIsBooked
<1>3. /\ revenue'[o] > 0
      /\ \A r \in Orders : revenue[r] > 0 => revenue'[r] > 0
  BY <1>1, <1>2 DEF SideEffects, TypeOK
<1>4. /\ premium'[OwnerOf[o]]
      /\ \A r \in Orders : premium[OwnerOf[r]] => premium'[OwnerOf[r]]
  BY <1>1, OrderAssumption DEF SideEffects, TypeOK
<1>5. \A q \in Parties :
        commission'[o][q] = IF q \in PartiesOf[o] \ tx[p].seen.paidTo
                            THEN commission[o][q] + 1 ELSE commission[o][q]
  BY <1>1 DEF SideEffects, TypeOK
<1>6. \A r \in Orders \ {o} : commission'[r] = commission[r]
  BY <1>1 DEF SideEffects, TypeOK
<1>7. \A q \in Parties : commission[o][q] \in Nat
  BY <1>1 DEF TypeOK
<1>8. \A q \in PartiesOf[o] : q \in Parties /\ commission'[o][q] > 0
  BY <1>5, <1>7, OpenType DEF SeenIsBooked
<1>9. \A r \in Orders, q \in Parties : commission[r][q] > 0 => commission'[r][q] > 0
  BY <1>5, <1>6, <1>7
<1>10. QED
  BY <1>1, <1>3, <1>4, <1>8, <1>9

\* No step of any caller takes a booking back.
LEMMA BooksOnlyGrow == TypeOK /\ Booking /\ [Next]_vars => Grow
<1> SUFFICES ASSUME TypeOK, Booking, [Next]_vars PROVE Grow
  OBVIOUS
<1>1. CASE UNCHANGED <<balance, ledger, revenue, commission, premium>>
  BY <1>1 DEF Grow, Booked
<1>2. ASSUME NEW p \in Procs, CommitTopup(p) PROVE Grow
  <2>1. Open(p) /\ tx[p].seen.balance + Amount[OrderOf(p)] \in Nat
    <3>1. Open(p)
      BY <1>2, PhaseOpen DEF CommitTopup
    <3>2. QED
      BY <3>1, OpenType
  <2>2. \A o \in Orders : Booked(o, "CREDIT") => Booked(o, "CREDIT")'
    BY <1>2, <2>1, AppendBooks DEF CommitTopup
  <2>3. QED
    BY <1>2, <2>2 DEF CommitTopup, Grow
<1>3. ASSUME NEW p \in Procs, CommitTestPayment(p) PROVE Grow
  <2>1. Open(p) /\ SeenIsBooked(p)
    BY <1>3, PhaseOpen DEF CommitTestPayment, Booking
  <2>2. \A o \in Orders : Booked(o, "CREDIT") => Booked(o, "CREDIT")'
    BY <1>3 DEF CommitTestPayment, Booked
  <2>3. QED
    BY <1>3, <2>1, <2>2, SideEffectsBook DEF CommitTestPayment, Grow
<1>4. ASSUME NEW p \in Procs, CommitWalletPay(p) PROVE Grow
  <2>1. Open(p) /\ SeenIsBooked(p)
    BY <1>4, PhaseOpen DEF CommitWalletPay, Booking
  <2>2. tx[p].seen.balance - Amount[OrderOf(p)] \in Nat
    BY <1>4, <2>1, OpenType DEF CommitWalletPay, Covered
  <2>3. \A o \in Orders : Booked(o, "CREDIT") => Booked(o, "CREDIT")'
    BY <1>4, <2>1, <2>2, AppendBooks DEF CommitWalletPay
  <2>4. QED
    BY <1>4, <2>1, <2>3, SideEffectsBook DEF CommitWalletPay, Grow
<1>5. QED
  BY <1>1, <1>2, <1>3, <1>4
     DEF Next, Step, Finished, vars, business, Advance, CreateOrder, LogCreation,
         BeginTransition, LockOrder, Refuse, CommitPlain, LockWallet, AbortDuplicate,
         PrecheckWallet, BeginWalletPay, LockPayingWallet, RefuseWalletPay, Rollback

\* Hence what is booked in full stays so.
LEMMA BookedStays ==
  ASSUME Grow, NEW o \in Orders, BookedInFull(o)
  PROVE  BookedInFull(o)'
<1>1. CASE KindOf[o] = "TOPUP"
  BY <1>1 DEF BookedInFull, Grow
<1>2. CASE KindOf[o] # "TOPUP"
  <2>1. PartiesOf[o] \subseteq Parties
    BY OrderAssumption
  <2>2. QED
    BY <1>2, <2>1 DEF BookedInFull, Grow
<1>3. QED
  BY <1>1, <1>2

\* A snapshot taken now sees only what is booked.
LEMMA FreshSnapshot ==
  ASSUME TypeOK, SettledIsBooked, NEW o \in Orders, NEW s, s = Snapshot(o)
  PROVE  /\ IsSettled(s.status) => BookedInFull(o)
         /\ s.revenue > 0 => revenue[o] > 0
         /\ \A q \in s.paidTo : q \in Parties /\ commission[o][q] > 0
  BY DEF Snapshot, SettledIsBooked

\* What stays open with the same order and snapshot stays consistent with the
\* growing books.
LEMMA SeenStays ==
  ASSUME TypeOK, Booking, Grow, NEW p \in Procs,
         Open(p)' => /\ Open(p)
                     /\ tx'[p].order = tx[p].order
                     /\ tx'[p].seen = tx[p].seen
                     /\ tx'[p].phase \in {"prechecked", "payread", "paylocked"}
                          => tx[p].phase \in {"prechecked", "payread", "paylocked"}
  PROVE  SeenIsBooked(p)'
<1> SUFFICES ASSUME Open(p)' PROVE SeenIsBooked(p)'
  BY DEF SeenIsBooked
<1>1. Open(p) /\ SeenIsBooked(p) /\ OrderOf(p) \in Orders
  BY OpenType DEF Booking
<1>2. IsSettled(tx[p].seen.status) => BookedInFull(tx[p].order)'
  BY <1>1, BookedStays DEF SeenIsBooked, OrderOf
<1>3. \A q \in tx[p].seen.paidTo : q \in Parties
  BY <1>1, OpenType DEF Snapshots
<1>4. \A q \in tx[p].seen.paidTo : commission'[tx[p].order][q] > 0
  BY <1>1, <1>3 DEF SeenIsBooked, Grow, OrderOf
<1>5. tx[p].seen.revenue > 0 => revenue'[tx[p].order] > 0
  BY <1>1 DEF SeenIsBooked, Grow, OrderOf
<1>6. QED
  BY <1>1, <1>2, <1>4, <1>5 DEF SeenIsBooked, OrderOf, IsSettled

\* The processes other than the one that steps.
LEMMA OthersStay ==
  ASSUME TypeOK, Booking, Grow, NEW p \in Procs, NEW t, tx' = [tx EXCEPT ![p] = t]
  PROVE  \A q \in Procs \ {p} : SeenIsBooked(q)'
<1> SUFFICES ASSUME NEW q \in Procs, q # p PROVE SeenIsBooked(q)'
  OBVIOUS
<1>1. tx'[q] = tx[q]
  BY DEF TypeOK
<1>2. QED
  BY <1>1, SeenStays DEF Open

\* Snapshots that are booked stay booked when a transaction ends,
LEMMA EndStays ==
  ASSUME TypeOK, Booking, Grow, NEW p \in Procs, End(p)
  PROVE  \A q \in Procs : SeenIsBooked(q)'
<1>1. tx'[p] = Idle
  BY DEF End, TypeOK
<1>2. SeenIsBooked(p)'
  BY <1>1 DEF SeenIsBooked, Open
<1>3. QED
  BY <1>2, OthersStay DEF End

\* and when one begins.
LEMMA StartStays ==
  ASSUME TypeOK, Booking, Grow, NEW p \in Procs, NEW o \in Orders,
         NEW phase \in Phases, NEW next, Start(p, o, phase, next),
         phase \in {"prechecked", "payread", "paylocked"} => KindOf[o] = "WALLET"
  PROVE  \A q \in Procs : SeenIsBooked(q)'
<1>1. tx'[p] = [phase |-> phase, order |-> o, next |-> next, seen |-> Snapshot(o)]
  BY DEF Start, TypeOK
<1> DEFINE s == Snapshot(o)
<1>2. /\ IsSettled(s.status) => BookedInFull(o)
      /\ s.revenue > 0 => revenue[o] > 0
      /\ \A q \in s.paidTo : q \in Parties /\ commission[o][q] > 0
  BY FreshSnapshot DEF Booking
<1> HIDE DEF s
<1>3. /\ IsSettled(s.status) => BookedInFull(o)'
      /\ s.revenue > 0 => revenue'[o] > 0
      /\ \A q \in s.paidTo : commission'[o][q] > 0
  BY <1>2, BookedStays DEF Grow
<1>4. tx'[p].order = o /\ tx'[p].phase = phase /\ tx'[p].seen = s
  BY <1>1 DEF s
<1>5. SeenIsBooked(p)'
  BY <1>3, <1>4 DEF SeenIsBooked, OrderOf, IsSettled
<1>6. QED
  BY <1>5, OthersStay DEF Start

\* A step that changes no status keeps the settled orders booked.
LEMMA SettledStays ==
  ASSUME TypeOK, Booking, Grow, UNCHANGED status
  PROVE  SettledIsBooked'
  BY BookedStays DEF Booking, SettledIsBooked, IsSettled

\* One that writes the status of p's order owes the books only for that order.
LEMMA WriteStays ==
  ASSUME TypeOK, Booking, Grow, NEW p \in Procs, Open(p), NEW s,
         status' = [status EXCEPT ![OrderOf(p)] = s],
         IsSettled(s) => \A o \in Orders : o = OrderOf(p) => BookedInFull(o)'
  PROVE  SettledIsBooked'
<1> SUFFICES ASSUME NEW o \in Orders, IsSettled(status'[o]) PROVE BookedInFull(o)'
  BY DEF SettledIsBooked, IsSettled
<1>1. CASE o = OrderOf(p)
  BY <1>1, OpenType DEF TypeOK
<1>2. CASE o # OrderOf(p)
  BY <1>2, BookedStays DEF TypeOK, Booking, SettledIsBooked, IsSettled
<1>3. QED
  BY <1>1, <1>2

\* SettledIsBooked holds for every interleaving of any number of callers:
\* an order that reads as paid is booked in full.
THEOREM SettledIsBookedCorrect == Spec => []SettledIsBooked
<1>1. Init => Booking
  BY DEF Init, Booking, SettledIsBooked, SeenIsBooked, Open, IsSettled, SettledStatuses, Absent
<1>2. TypeOK /\ TypeOK' /\ Booking /\ [Next]_vars => Booking'
  <2> SUFFICES ASSUME TypeOK, TypeOK', Booking, [Next]_vars PROVE Booking'
    OBVIOUS
  <2>0. Grow
    BY BooksOnlyGrow
  <2>1. ASSUME NEW p \in Procs, NEW o \in Orders, CreateOrder(p, o) PROVE Booking'
    <3>1. \A q \in Procs : SeenIsBooked(q)'
      BY <2>0, <2>1, StartStays DEF CreateOrder, Phases
    <3>2. SettledIsBooked'
      <4> SUFFICES ASSUME NEW r \in Orders, IsSettled(status'[r]) PROVE BookedInFull(r)'
        BY DEF SettledIsBooked, IsSettled
      <4>1. r # o /\ status'[r] = status[r]
        BY <2>1 DEF CreateOrder, TypeOK, IsSettled, SettledStatuses
      <4>2. QED
        BY <2>0, <4>1, BookedStays DEF Booking, SettledIsBooked, IsSettled
    <3>3. QED
      BY <3>1, <3>2 DEF Booking
  <2>2. ASSUME NEW p \in Procs, NEW o \in Orders, PrecheckWallet(p, o) PROVE Booking'
    <3>1. \A q \in Procs : SeenIsBooked(q)'
      BY <2>0, <2>2, StartStays DEF PrecheckWallet, Phases
    <3>2. QED
      BY <2>0, <2>2, <3>1, SettledStays DEF PrecheckWallet, business, Booking
  <2>3. ASSUME NEW p \in Procs, NEW o \in Orders, NEW next \in RequestedStatuses,
               BeginTransition(p, o, next)
        PROVE  Booking'
    <3>1. \A q \in Procs : SeenIsBooked(q)'
      BY <2>0, <2>3, StartStays DEF BeginTransition, Phases
    <3>2. QED
      BY <2>0, <2>3, <3>1, SettledStays DEF BeginTransition, business, Booking
  <2>4. ASSUME NEW p \in Procs, LockOrder(p) \/ LockWallet(p) \/ LockPayingWallet(p)
        PROVE  Booking'
    <3>1. Open(p) /\ UNCHANGED business
      BY <2>4, PhaseOpen DEF LockOrder, LockWallet, LockPayingWallet, Advance
    <3>2. PICK phase \in Phases :
              /\ tx' = [tx EXCEPT ![p].phase = phase]
              /\ phase \in {"prechecked", "payread", "paylocked"} =>
                   tx[p].phase \in {"prechecked", "payread", "paylocked"}
      BY <2>4 DEF LockOrder, LockWallet, LockPayingWallet, Advance, Phases
    <3>3. tx' = [tx EXCEPT ![p] = [tx[p] EXCEPT !.phase = phase]]
      BY <3>2 DEF TypeOK
    <3>4. /\ tx'[p].order = tx[p].order /\ tx'[p].seen = tx[p].seen
          /\ tx'[p].phase = phase
      BY <3>1, <3>3, OpenType DEF TypeOK
    <3>5. SeenIsBooked(p)'
      BY <2>0, <3>1, <3>2, <3>4, SeenStays
    <3>6. \A q \in Procs \ {p} : SeenIsBooked(q)'
      BY <2>0, <3>3, OthersStay
    <3>7. QED
      BY <2>0, <3>1, <3>5, <3>6, SettledStays DEF Booking, business
  <2>5. ASSUME NEW p \in Procs,
               Refuse(p) \/ AbortDuplicate(p) \/ RefuseWalletPay(p) \/ Rollback(p)
                 \/ LogCreation(p)
        PROVE  Booking'
    <3>1. End(p) /\ UNCHANGED status
      BY <2>5 DEF Refuse, AbortDuplicate, RefuseWalletPay, Rollback, LogCreation, business
    <3>2. QED
      BY <2>0, <3>1, EndStays, SettledStays DEF Booking
  <2>6. ASSUME NEW p \in Procs, CommitPlain(p) PROVE Booking'
    <3>1. Open(p) /\ End(p)
      BY <2>6, PhaseOpen DEF CommitPlain
    <3>2. IsSettled(tx[p].next) => IsSettled(tx[p].seen.status)
      BY <2>6 DEF CommitPlain, IsSuccess
    <3>3. IsSettled(tx[p].next) => \A o \in Orders : o = OrderOf(p) => BookedInFull(o)'
      BY <2>0, <3>1, <3>2, BookedStays DEF Booking, SeenIsBooked
    <3>4. SettledIsBooked'
      BY <2>0, <2>6, <3>1, <3>3, WriteStays DEF CommitPlain, RecordTransition
    <3>5. QED
      BY <2>0, <3>1, <3>4, EndStays DEF Booking
  <2>7. ASSUME NEW p \in Procs, CommitTopup(p) PROVE Booking'
    <3>1. Open(p) /\ End(p)
      BY <2>7, PhaseOpen DEF CommitTopup
    <3>2. tx[p].seen.balance + Amount[OrderOf(p)] \in Nat
      BY <3>1, OpenType
    <3>3. \A o \in Orders : o = OrderOf(p) => BookedInFull(o)'
      BY <2>7, <3>1, <3>2, AppendBooks DEF CommitTopup, BookedInFull
    <3>4. SettledIsBooked'
      BY <2>0, <2>7, <3>1, <3>3, WriteStays DEF CommitTopup, RecordTransition
    <3>5. QED
      BY <2>0, <3>1, <3>4, EndStays DEF Booking
  <2>8. ASSUME NEW p \in Procs, CommitTestPayment(p) PROVE Booking'
    <3>1. Open(p) /\ End(p) /\ SeenIsBooked(p)
      BY <2>8, PhaseOpen DEF CommitTestPayment, Booking
    <3>2. \A o \in Orders : o = OrderOf(p) => BookedInFull(o)'
      BY <2>8, <3>1, SideEffectsBook DEF CommitTestPayment, BookedInFull, Payer, OrderOf
    <3>3. SettledIsBooked'
      BY <2>0, <2>8, <3>1, <3>2, WriteStays DEF CommitTestPayment, RecordTransition
    <3>4. QED
      BY <2>0, <3>1, <3>3, EndStays DEF Booking
  <2>9. ASSUME NEW p \in Procs, BeginWalletPay(p) PROVE Booking'
    <3>1. Open(p) /\ UNCHANGED business /\ KindOf[OrderOf(p)] = "WALLET"
      BY <2>9, PhaseOpen DEF BeginWalletPay, Booking, SeenIsBooked
    <3>2. OrderOf(p) \in Orders
      BY <3>1, OpenType
    <3>3. tx' = [tx EXCEPT ![p] = [tx[p] EXCEPT !.phase = "payread",
                                                !.seen = Snapshot(OrderOf(p))]]
      BY <2>9 DEF BeginWalletPay, TypeOK
    <3>4. /\ tx'[p].order = OrderOf(p) /\ tx'[p].phase = "payread"
          /\ tx'[p].seen = Snapshot(OrderOf(p))
      BY <3>1, <3>3, OpenType DEF TypeOK, OrderOf
    <3> DEFINE o == OrderOf(p)
               s == Snapshot(o)
    <3>5. /\ IsSettled(s.status) => BookedInFull(o)
          /\ s.revenue > 0 => revenue[o] > 0
          /\ \A q \in s.paidTo : q \in Parties /\ commission[o][q] > 0
      BY <3>2, FreshSnapshot DEF Booking
    <3>6. SeenIsBooked(p)'
      <4>1. ASSUME NEW r \in Orders, NEW z, r = OrderOf(p), z = s
            PROVE /\ IsSettled(z.status) => BookedInFull(r)'
                  /\ z.revenue > 0 => revenue'[r] > 0
                  /\ \A q \in z.paidTo : commission'[r][q] > 0
                  /\ KindOf[r] = "WALLET"
        BY <2>0, <3>1, <3>5, <4>1, BookedStays DEF Grow
      <4>2. QED
        BY <3>2, <3>4, <4>1 DEF SeenIsBooked, OrderOf, IsSettled
    <3>7. \A q \in Procs \ {p} : SeenIsBooked(q)'
      BY <2>0, <3>3, OthersStay
    <3>8. QED
      BY <2>0, <3>1, <3>6, <3>7, SettledStays DEF Booking, business
  <2>10. ASSUME NEW p \in Procs, CommitWalletPay(p) PROVE Booking'
    <3>1. Open(p) /\ End(p) /\ SeenIsBooked(p) /\ KindOf[OrderOf(p)] = "WALLET"
      BY <2>10, PhaseOpen DEF CommitWalletPay, Booking, SeenIsBooked
    <3>2. \A o \in Orders : o = OrderOf(p) => BookedInFull(o)'
      BY <2>10, <3>1, SideEffectsBook DEF CommitWalletPay, BookedInFull, Payer, OrderOf
    <3>3. SettledIsBooked'
      BY <2>0, <2>10, <3>1, <3>2, WriteStays DEF CommitWalletPay
    <3>4. QED
      BY <2>0, <3>1, <3>3, EndStays DEF Booking
  <2>11. CASE UNCHANGED vars
    <3>1. \A q \in Procs : SeenIsBooked(q)'
      BY <2>0, <2>11, SeenStays DEF vars, Open
    <3>2. QED
      BY <2>0, <2>11, <3>1, SettledStays DEF Booking, vars
  <2>12. QED
    BY <2>1, <2>2, <2>3, <2>4, <2>5, <2>6, <2>7, <2>8, <2>9, <2>10, <2>11
       DEF Next, Step, Finished
<1>3. QED
  <2>1. Booking => SettledIsBooked
    BY DEF Booking
  <2>2. QED
    BY <1>1, <1>2, <2>1, TypeCorrect, PTL DEF Spec
-----------------------------------------------------------------------------
(* CreditOnce.  A credit row is guarded by the unique index; that a debit    *)
(* row is never repeated follows from the fresh order id of each wallet      *)
(* payment, which is what the invariant carries.                             *)

PayPhases == {"prechecked", "payread", "paylocked"}

\* A wallet payment under way owns an order id nobody else has used.
OwnsFreshOrder(p) ==
    tx[p].phase \in PayPhases =>
        /\ KindOf[OrderOf(p)] = "WALLET"
        /\ status[OrderOf(p)] = Absent
        /\ \A q \in Procs \ {p} : tx[q].phase \in PayPhases => OrderOf(q) # OrderOf(p)

TransitionsNotWallet ==
    \A p \in Procs : tx[p].phase \in Phases \ PayPhases => KindOf[OrderOf(p)] # "WALLET"

DebitedIsPaid == \A o \in Orders : Booked(o, "DEBIT") => status[o] # Absent

RowsOnce ==
    /\ CreditOnce
    /\ DebitedIsPaid
    /\ TransitionsNotWallet
    /\ \A p \in Procs : OwnsFreshOrder(p)

\* A new row of a kind its order has not been booked with keeps rows unique,
\* and books nothing else.
LEMMA AppendOnce ==
  ASSUME TypeOK, CreditOnce, NEW p \in Procs, Open(p), NEW after \in Nat,
         NEW entry \in {"CREDIT", "DEBIT"}, MoveFunds(p, entry, after),
         ~Booked(OrderOf(p), entry)
  PROVE  /\ CreditOnce'
         /\ \A o \in Orders : Booked(o, "DEBIT")' =>
               Booked(o, "DEBIT") \/ (entry = "DEBIT" /\ o = OrderOf(p))
<1> DEFINE u == Payer(p)
           row == [order |-> OrderOf(p), entry |-> entry,
                   before |-> tx[p].seen.balance, after |-> after]
           n == Len(ledger[u])
<1>1. u \in Users /\ OrderOf(p) \in Orders /\ row \in Entry /\ u = OwnerOf[OrderOf(p)]
  BY OpenType DEF Entry, Payer, OrderOf
<1>2. ledger[u] \in Seq(Entry) /\ ledger' = [ledger EXCEPT ![u] = Append(@, row)]
  BY <1>1 DEF MoveFunds, TypeOK
<1>3. ledger'[u] = Append(ledger[u], row) /\ \A v \in Users \ {u} : ledger'[v] = ledger[v]
  BY <1>1, <1>2 DEF TypeOK
<1>4. /\ DOMAIN ledger'[u] = 1..(n + 1) /\ DOMAIN ledger[u] = 1..n /\ n \in Nat
      /\ \A i \in 1..n : ledger'[u][i] = ledger[u][i]
      /\ ledger'[u][n + 1] = row
  BY <1>1, <1>2, <1>3
<1>5. row.order = OrderOf(p) /\ row.entry = entry
  OBVIOUS
<1> HIDE DEF row
<1>6. \A i \in 1..n : ~(ledger[u][i].order = OrderOf(p) /\ ledger[u][i].entry = entry)
  BY <1>1, <1>4 DEF Booked
<1>7. CreditOnce'
  <2> SUFFICES ASSUME NEW v \in Users, NEW i \in DOMAIN ledger'[v], NEW j \in DOMAIN ledger'[v],
                      ledger'[v][i].order = ledger'[v][j].order,
                      ledger'[v][i].entry = ledger'[v][j].entry
               PROVE  i = j
    BY DEF CreditOnce
  <2>1. CASE v # u
    BY <1>3, <2>1 DEF CreditOnce
  <2>2. CASE v = u
    <3>1. i \in 1..(n + 1) /\ j \in 1..(n + 1)
      BY <1>4, <2>2
    <3>2. CASE i \in 1..n /\ j \in 1..n
      <4>1. /\ i \in DOMAIN ledger[u] /\ j \in DOMAIN ledger[u]
            /\ ledger[u][i].order = ledger[u][j].order
            /\ ledger[u][i].entry = ledger[u][j].entry
        BY <1>4, <2>2, <3>2
      <4>2. QED
        BY <1>1, <4>1 DEF CreditOnce
    <3>3. CASE i = n + 1 /\ j \in 1..n
      BY <1>4, <1>5, <1>6, <2>2, <3>3
    <3>4. CASE j = n + 1 /\ i \in 1..n
      BY <1>4, <1>5, <1>6, <2>2, <3>4
    <3>5. QED
      BY <1>4, <3>1, <3>2, <3>3, <3>4
  <2>3. QED
    BY <2>1, <2>2
<1>8. ASSUME NEW o \in Orders, Booked(o, "DEBIT")'
      PROVE  Booked(o, "DEBIT") \/ (entry = "DEBIT" /\ o = OrderOf(p))
  <2>1. OwnerOf[o] \in Users
    BY OrderAssumption
  <2>2. CASE OwnerOf[o] # u
    BY <1>3, <1>8, <2>1, <2>2 DEF Booked
  <2>3. CASE OwnerOf[o] = u
    <3>1. PICK i \in DOMAIN ledger'[u] :
              ledger'[u][i].order = o /\ ledger'[u][i].entry = "DEBIT"
      BY <1>8, <2>3 DEF Booked
    <3>2. CASE i \in 1..n
      BY <1>4, <2>3, <3>1, <3>2 DEF Booked
    <3>3. CASE i = n + 1
      BY <1>4, <1>5, <3>1, <3>3
    <3>4. QED
      BY <1>4, <3>1, <3>2, <3>3
  <2>4. QED
    BY <2>2, <2>3
<1>9. QED
  BY <1>7, <1>8

\* Ending a transaction releases its order id; the others keep theirs as long
\* as the orders they own stay absent.
LEMMA OwnersStay ==
  ASSUME TypeOK, RowsOnce, NEW p \in Procs, End(p),
         \A o \in Orders : KindOf[o] = "WALLET" /\ status[o] = Absent /\ status'[o] # Absent
                              => tx[p].phase \in PayPhases /\ o = OrderOf(p)
  PROVE  TransitionsNotWallet' /\ \A q \in Procs : OwnsFreshOrder(q)'
<1>1. tx'[p].phase = "idle" /\ \A q \in Procs \ {p} : tx'[q] = tx[q]
  BY DEF End, TypeOK, Idle
<1>2. TransitionsNotWallet'
  BY <1>1 DEF RowsOnce, TransitionsNotWallet, OrderOf, Phases, PayPhases
<1>3. ASSUME NEW q \in Procs, tx'[q].phase \in PayPhases PROVE OwnsFreshOrder(q)'
  <2>1. q # p /\ tx'[q] = tx[q] /\ OwnsFreshOrder(q)
    BY <1>1, <1>3 DEF PayPhases, RowsOnce
  <2>2. tx[q].order \in Orders /\ KindOf[tx[q].order] = "WALLET" /\ status[tx[q].order] = Absent
    BY <1>3, <2>1, PhaseOpen, OpenType DEF OwnsFreshOrder, OrderOf, PayPhases
  <2>3. status'[tx[q].order] = Absent
    BY <1>3, <2>1, <2>2 DEF OwnsFreshOrder, OrderOf
  <2>4. \A r \in Procs \ {q} : tx'[r].phase \in PayPhases => tx'[r].order # tx'[q].order
    BY <1>1, <1>3, <2>1 DEF OwnsFreshOrder, OrderOf, PayPhases
  <2>5. QED
    BY <2>1, <2>2, <2>3, <2>4 DEF OwnsFreshOrder, OrderOf
<1>4. QED
  BY <1>2, <1>3 DEF OwnsFreshOrder

\* Moving on inside a transaction changes neither its order nor its side.
LEMMA PhaseKeepsOwners ==
  ASSUME TypeOK, RowsOnce, UNCHANGED status, NEW p \in Procs, Open(p),
         \A q \in Procs \ {p} : tx'[q] = tx[q],
         tx'[p].order = tx[p].order,
         tx'[p].phase \in Phases,
         tx'[p].phase \in PayPhases <=> tx[p].phase \in PayPhases
  PROVE  TransitionsNotWallet' /\ \A q \in Procs : OwnsFreshOrder(q)'
<1>1. \A q \in Procs : tx'[q].phase \in PayPhases <=> tx[q].phase \in PayPhases
  OBVIOUS
<1>2. \A q \in Procs : tx'[q].phase \in Phases \ PayPhases => tx[q].phase \in Phases \ PayPhases
  BY OpenType
<1>3. \A q \in Procs : tx'[q].order = tx[q].order
  OBVIOUS
<1>4. TransitionsNotWallet'
  BY <1>2, <1>3 DEF RowsOnce, TransitionsNotWallet, OrderOf
<1>5. ASSUME NEW q \in Procs PROVE OwnsFreshOrder(q)'
  BY <1>1, <1>3 DEF RowsOnce, OwnsFreshOrder, OrderOf
<1>6. QED
  BY <1>4, <1>5

\* A step that adds no ledger row and makes no order absent.
LEMMA QuietRows ==
  ASSUME RowsOnce, UNCHANGED ledger,
         \A o \in Orders : status[o] # Absent => status'[o] # Absent
  PROVE  CreditOnce' /\ DebitedIsPaid'
  BY DEF RowsOnce, CreditOnce, DebitedIsPaid, Booked

\* CreditOnce holds for every interleaving of any number of callers.
THEOREM CreditOnceCorrect == Spec => []CreditOnce
<1>1. Init => RowsOnce
  BY OrderAssumption
     DEF Init, RowsOnce, CreditOnce, DebitedIsPaid, Booked, TransitionsNotWallet,
         OwnsFreshOrder, Idle, Phases, PayPhases
<1>2. TypeOK /\ RowsOnce /\ [Next]_vars => RowsOnce'
  <2> SUFFICES ASSUME TypeOK, RowsOnce, [Next]_vars PROVE RowsOnce'
    OBVIOUS
  <2>1. ASSUME NEW p \in Procs, NEW o \in Orders,
               CreateOrder(p, o) \/ \E next \in RequestedStatuses : BeginTransition(p, o, next)
        PROVE  RowsOnce'
    <3>1. /\ tx'[p].order = o /\ tx'[p].phase \in Phases \ PayPhases /\ KindOf[o] # "WALLET"
          /\ \A q \in Procs \ {p} : tx'[q] = tx[q]
          /\ UNCHANGED ledger
      BY <2>1 DEF CreateOrder, BeginTransition, Start, TypeOK, Phases, PayPhases, business
    <3>2. \A r \in Orders : /\ status[r] # Absent => status'[r] # Absent
                            /\ KindOf[r] = "WALLET" => status'[r] = status[r]
      BY <2>1 DEF CreateOrder, BeginTransition, TypeOK, business, Absent
    <3>3. TransitionsNotWallet'
      BY <3>1 DEF RowsOnce, TransitionsNotWallet, OrderOf
    <3>4. ASSUME NEW q \in Procs, tx'[q].phase \in PayPhases PROVE OwnsFreshOrder(q)'
      <4>1. q # p /\ tx'[q] = tx[q] /\ OwnsFreshOrder(q)
        BY <3>1, <3>4 DEF RowsOnce
      <4>2. tx[q].order \in Orders
        BY <3>4, <4>1, PhaseOpen, OpenType DEF PayPhases, OrderOf
      <4>3. \A r \in Procs \ {q} : tx'[r].phase \in PayPhases => tx'[r].order # tx'[q].order
        BY <3>1, <3>4, <4>1 DEF OwnsFreshOrder, OrderOf
      <4>4. QED
        BY <3>2, <3>4, <4>1, <4>2, <4>3 DEF OwnsFreshOrder, OrderOf
    <3>5. QED
      BY <3>1, <3>2, <3>3, <3>4, QuietRows DEF RowsOnce, OwnsFreshOrder
  <2>2. ASSUME NEW p \in Procs, NEW o \in Orders, PrecheckWallet(p, o) PROVE RowsOnce'
    <3>1. /\ tx'[p].order = o /\ tx'[p].phase = "prechecked"
          /\ KindOf[o] = "WALLET" /\ status[o] = Absent
          /\ \A q \in Procs \ {p} : tx'[q] = tx[q]
          /\ \A q \in Procs : Open(q) => tx[q].order # o
          /\ UNCHANGED <<ledger, status>>
      BY <2>2 DEF PrecheckWallet, Start, TypeOK, business, OrderOf
    <3>2. TransitionsNotWallet'
      BY <3>1 DEF RowsOnce, TransitionsNotWallet, OrderOf, PayPhases
    <3>3. \A q \in Procs \ {p} : tx'[q].phase \in PayPhases => tx'[q].order # o
      BY <3>1, PhaseOpen DEF PayPhases
    <3>4. OwnsFreshOrder(p)'
      BY <3>1, <3>3 DEF OwnsFreshOrder, OrderOf
    <3>5. ASSUME NEW q \in Procs \ {p} PROVE OwnsFreshOrder(q)'
      BY <3>1, <3>3 DEF RowsOnce, OwnsFreshOrder, OrderOf
    <3>6. QED
      BY <3>1, <3>2, <3>4, <3>5, QuietRows DEF RowsOnce
  <2>3. ASSUME NEW p \in Procs,
               LockOrder(p) \/ LockWallet(p) \/ LockPayingWallet(p) \/ BeginWalletPay(p)
        PROVE  RowsOnce'
    <3>1. Open(p) /\ UNCHANGED business
      BY <2>3, PhaseOpen DEF LockOrder, LockWallet, LockPayingWallet, BeginWalletPay, Advance
    <3>2. tx[p] \in [phase : Phases, order : Orders, next : Statuses, seen : Snapshots]
      BY <3>1, OpenType
    <3>3. /\ tx'[p].order = tx[p].order /\ tx'[p].phase \in Phases
          /\ tx'[p].phase \in PayPhases <=> tx[p].phase \in PayPhases
          /\ \A q \in Procs \ {p} : tx'[q] = tx[q]
      BY <2>3, <3>2
         DEF LockOrder, LockWallet, LockPayingWallet, BeginWalletPay, Advance, TypeOK,
             Phases, PayPhases
    <3>4. QED
      BY <3>1, <3>3, PhaseKeepsOwners, QuietRows DEF business, RowsOnce
  <2>4. ASSUME NEW p \in Procs,
               \/ Refuse(p) \/ AbortDuplicate(p) \/ RefuseWalletPay(p) \/ Rollback(p)
               \/ LogCreation(p) \/ CommitPlain(p) \/ CommitTestPayment(p)
        PROVE  RowsOnce'
    <3>1. End(p) /\ UNCHANGED ledger
      BY <2>4 DEF Refuse, AbortDuplicate, RefuseWalletPay, Rollback, LogCreation,
                  CommitPlain, CommitTestPayment, business
    <3>2. \/ UNCHANGED status
          \/ Open(p) /\ RecordTransition(p) /\ tx[p].phase \in Phases \ PayPhases
      BY <2>4, PhaseOpen
         DEF Refuse, AbortDuplicate, RefuseWalletPay, Rollback, LogCreation,
             CommitPlain, CommitTestPayment, business, Phases, PayPhases
    <3>3. \A r \in Orders : /\ status[r] # Absent => status'[r] # Absent
                            /\ KindOf[r] = "WALLET" => status'[r] = status[r]
      <4>1. CASE UNCHANGED status
        BY <4>1
      <4>2. CASE Open(p) /\ RecordTransition(p) /\ tx[p].phase \in Phases \ PayPhases
        <5>1. tx[p].next # Absent /\ OrderOf(p) \in Orders /\ KindOf[OrderOf(p)] # "WALLET"
          BY <4>2, OpenType DEF Statuses, Absent, RowsOnce, TransitionsNotWallet
        <5>2. QED
          BY <4>2, <5>1 DEF RecordTransition, TypeOK
      <4>3. QED
        BY <3>2, <4>1, <4>2
    <3>4. QED
      BY <3>1, <3>3, OwnersStay, QuietRows DEF RowsOnce
  <2>5. ASSUME NEW p \in Procs, CommitTopup(p) PROVE RowsOnce'
    <3>1. Open(p) /\ End(p) /\ OrderOf(p) \in Orders /\ tx[p].next \in Statuses
      BY <2>5, PhaseOpen, OpenType DEF CommitTopup
    <3>2. tx[p].seen.balance + Amount[OrderOf(p)] \in Nat
      BY <3>1, OpenType
    <3>3. \A r \in Orders : /\ status[r] # Absent => status'[r] # Absent
                            /\ KindOf[r] = "WALLET" => status'[r] = status[r]
      BY <2>5, <3>1 DEF CommitTopup, RecordTransition, TypeOK, Statuses, Absent
    <3>4. CreditOnce' /\ \A o \in Orders : Booked(o, "DEBIT")' => Booked(o, "DEBIT")
      BY <2>5, <3>1, <3>2, AppendOnce DEF CommitTopup, RowsOnce
    <3>5. QED
      BY <3>1, <3>3, <3>4, OwnersStay DEF RowsOnce, DebitedIsPaid
  <2>6. ASSUME NEW p \in Procs, CommitWalletPay(p) PROVE RowsOnce'
    <3>1. Open(p) /\ End(p) /\ OrderOf(p) \in Orders /\ tx[p].phase \in PayPhases
      BY <2>6, PhaseOpen, OpenType DEF CommitWalletPay, PayPhases
    <3>2. status[OrderOf(p)] = Absent /\ ~Booked(OrderOf(p), "DEBIT")
      BY <3>1 DEF RowsOnce, OwnsFreshOrder, DebitedIsPaid
    <3>3. tx[p].seen.balance - Amount[OrderOf(p)] \in Nat
      BY <2>6, <3>1, OpenType DEF CommitWalletPay, Covered
    <3>4. /\ status'[OrderOf(p)] = "SUCCESS"
          /\ \A r \in Orders \ {OrderOf(p)} : status'[r] = status[r]
      BY <2>6, <3>1 DEF CommitWalletPay, TypeOK
    <3>5. /\ CreditOnce'
          /\ \A o \in Orders : Booked(o, "DEBIT")' => Booked(o, "DEBIT") \/ o = OrderOf(p)
      BY <2>6, <3>1, <3>2, <3>3, AppendOnce DEF CommitWalletPay, RowsOnce
    <3>6. DebitedIsPaid'
      BY <3>4, <3>5 DEF RowsOnce, DebitedIsPaid, Absent
    <3>7. QED
      BY <3>1, <3>4, <3>5, <3>6, OwnersStay DEF RowsOnce
  <2>7. CASE UNCHANGED vars
    BY <2>7 DEF vars, RowsOnce, CreditOnce, DebitedIsPaid, Booked, TransitionsNotWallet,
                OwnsFreshOrder, OrderOf
  <2>8. QED
    BY <2>1, <2>2, <2>3, <2>4, <2>5, <2>6, <2>7 DEF Next, Step, Finished
<1>3. QED
  <2>1. RowsOnce => CreditOnce
    BY DEF RowsOnce
  <2>2. QED
    BY <1>1, <1>2, <2>1, TypeCorrect, PTL DEF Spec
-----------------------------------------------------------------------------
(* BalanceIsLastEntry.  The wallet row and its ledger row are written by one *)
(* operation, MoveFunds, from one number; no other step writes either.       *)

\* After a wallet movement the payer's ledger ends with the new row, and the
\* other ledgers are as they were.
LEMMA AppendedRow ==
  ASSUME TypeOK, NEW p \in Procs, Open(p), NEW after \in Nat,
         NEW entry \in {"CREDIT", "DEBIT"}, MoveFunds(p, entry, after)
  PROVE  /\ Payer(p) \in Users
         /\ balance'[Payer(p)] = after
         /\ Len(ledger[Payer(p)]) \in Nat
         /\ Len(ledger'[Payer(p)]) = Len(ledger[Payer(p)]) + 1
         /\ ledger'[Payer(p)][Len(ledger[Payer(p)]) + 1].before = tx[p].seen.balance
         /\ ledger'[Payer(p)][Len(ledger[Payer(p)]) + 1].after = after
         /\ \A i \in 1..Len(ledger[Payer(p)]) : ledger'[Payer(p)][i] = ledger[Payer(p)][i]
         /\ \A v \in Users \ {Payer(p)} : balance'[v] = balance[v] /\ ledger'[v] = ledger[v]
<1> DEFINE u == Payer(p)
           row == [order |-> OrderOf(p), entry |-> entry,
                   before |-> tx[p].seen.balance, after |-> after]
<1>1. u \in Users /\ row \in Entry
  BY OpenType DEF Entry
<1>2. ledger[u] \in Seq(Entry) /\ ledger' = [ledger EXCEPT ![u] = Append(@, row)]
  BY <1>1 DEF MoveFunds, TypeOK
<1>3. ledger'[u] = Append(ledger[u], row) /\ \A v \in Users \ {u} : ledger'[v] = ledger[v]
  BY <1>1, <1>2 DEF TypeOK
<1>4. balance'[u] = after /\ \A v \in Users \ {u} : balance'[v] = balance[v]
  BY <1>1 DEF MoveFunds, TypeOK
<1> HIDE DEF row
<1>5. /\ Len(ledger[u]) \in Nat
      /\ Len(ledger'[u]) = Len(ledger[u]) + 1
      /\ ledger'[u][Len(ledger[u]) + 1] = row
      /\ \A i \in 1..Len(ledger[u]) : ledger'[u][i] = ledger[u][i]
  BY <1>1, <1>2, <1>3
<1>6. row.before = tx[p].seen.balance /\ row.after = after
  BY DEF row
<1>7. QED
  BY <1>1, <1>3, <1>4, <1>5, <1>6

\* A wallet movement leaves every balance at the end of its ledger.
LEMMA MovementEndsThere ==
  ASSUME TypeOK, BalanceIsLastEntry, NEW p \in Procs, Open(p), NEW after \in Nat,
         NEW entry \in {"CREDIT", "DEBIT"}, MoveFunds(p, entry, after)
  PROVE  BalanceIsLastEntry'
<1> DEFINE u == Payer(p)
           n == Len(ledger[u])
<1>1. /\ balance'[u] = after
      /\ n \in Nat
      /\ Len(ledger'[u]) = n + 1
      /\ ledger'[u][n + 1].after = after
      /\ \A v \in Users \ {u} : balance'[v] = balance[v] /\ ledger'[v] = ledger[v]
  BY AppendedRow
<1>2. ledger'[u] # <<>>
  <2>1. Len(ledger'[u]) # 0
    BY <1>1
  <2>2. Len(<<>>) = 0
    OBVIOUS
  <2>3. QED
    BY <2>1, <2>2
<1>3. ledger'[u][Len(ledger'[u])].after = after
  BY <1>1
<1>4. QED
  BY <1>1, <1>2, <1>3 DEF BalanceIsLastEntry

\* What a step does to the wallets: nothing, or one movement by a caller that
\* has a transaction open, to a balance that is not negative.
LEMMA WalletSteps ==
  ASSUME TypeOK, [Next]_vars
  PROVE  \/ UNCHANGED <<balance, ledger>>
         \/ \E p \in Procs, after \in Nat, entry \in {"CREDIT", "DEBIT"} :
               Open(p) /\ MoveFunds(p, entry, after)
<1>1. ASSUME NEW p \in Procs, CommitTopup(p)
      PROVE  \E after \in Nat, entry \in {"CREDIT", "DEBIT"} : Open(p) /\ MoveFunds(p, entry, after)
  <2>1. Open(p)
    BY <1>1, PhaseOpen DEF CommitTopup
  <2>2. tx[p].seen.balance + Amount[OrderOf(p)] \in Nat
    BY <2>1, OpenType
  <2>3. MoveFunds(p, "CREDIT", tx[p].seen.balance + Amount[OrderOf(p)])
    BY <1>1 DEF CommitTopup
  <2>4. QED
    BY <2>1, <2>2, <2>3
<1>2. ASSUME NEW p \in Procs, CommitWalletPay(p)
      PROVE  \E after \in Nat, entry \in {"CREDIT", "DEBIT"} : Open(p) /\ MoveFunds(p, entry, after)
  <2>1. Open(p)
    BY <1>2, PhaseOpen DEF CommitWalletPay
  <2>2. tx[p].seen.balance - Amount[OrderOf(p)] \in Nat
    BY <1>2, <2>1, OpenType DEF CommitWalletPay, Covered
  <2>3. MoveFunds(p, "DEBIT", tx[p].seen.balance - Amount[OrderOf(p)])
    BY <1>2 DEF CommitWalletPay
  <2>4. QED
    BY <2>1, <2>2, <2>3
<1>3. ASSUME NEW p \in Procs,
             \/ \E o \in Orders : CreateOrder(p, o) \/ PrecheckWallet(p, o)
             \/ \E o \in Orders, next \in RequestedStatuses : BeginTransition(p, o, next)
             \/ Rollback(p)
      PROVE  UNCHANGED <<balance, ledger>>
  BY <1>3 DEF CreateOrder, PrecheckWallet, BeginTransition, Rollback, business
<1>4. ASSUME NEW p \in Procs,
             \/ LogCreation(p) \/ LockOrder(p) \/ Refuse(p) \/ CommitPlain(p)
             \/ LockWallet(p) \/ AbortDuplicate(p) \/ CommitTestPayment(p)
             \/ BeginWalletPay(p) \/ LockPayingWallet(p) \/ RefuseWalletPay(p)
      PROVE  UNCHANGED <<balance, ledger>>
  BY <1>4
     DEF LogCreation, LockOrder, Refuse, CommitPlain, LockWallet, AbortDuplicate,
         CommitTestPayment, BeginWalletPay, LockPayingWallet, RefuseWalletPay, Advance, business
<1>5. QED
  BY <1>1, <1>2, <1>3, <1>4 DEF Next, Step, Finished, vars

\* A user's balance is the one the newest ledger row ends at, for every
\* interleaving: a lost update of applySuccessEffect loses both or neither.
THEOREM BalanceIsLastEntryCorrect == Spec => []BalanceIsLastEntry
<1>1. Init => BalanceIsLastEntry
  BY DEF Init, BalanceIsLastEntry
<1>2. TypeOK /\ BalanceIsLastEntry /\ [Next]_vars => BalanceIsLastEntry'
  <2> SUFFICES ASSUME TypeOK, BalanceIsLastEntry, [Next]_vars PROVE BalanceIsLastEntry'
    OBVIOUS
  <2>1. CASE UNCHANGED <<balance, ledger>>
    BY <2>1 DEF BalanceIsLastEntry
  <2>2. ASSUME NEW p \in Procs, NEW after \in Nat, NEW entry \in {"CREDIT", "DEBIT"},
               Open(p), MoveFunds(p, entry, after)
        PROVE  BalanceIsLastEntry'
    BY <2>2, MovementEndsThere
  <2>3. QED
    BY <2>1, <2>2, WalletSteps
<1>3. QED
  BY <1>1, <1>2, TypeCorrect, PTL DEF Spec
-----------------------------------------------------------------------------
(* SharesMatchRevenue.  Each row is inserted if the snapshot lacks it, so a  *)
(* race can book an order twice; but every snapshot was taken of a state in  *)
(* which the revenue row and the commissions were either all there or all    *)
(* missing, so a transaction inserts all of them or none.                    *)

SeenAgrees(p) ==
    Open(p) => \A q \in PartiesOf[OrderOf(p)] :
                   q \in tx[p].seen.paidTo <=> tx[p].seen.revenue > 0

SharesTogether == SharesMatchRevenue /\ \A p \in Procs : SeenAgrees(p)

\* A snapshot of matching books sees them match.
LEMMA SnapshotAgrees ==
  ASSUME TypeOK, SharesMatchRevenue, NEW o \in Orders
  PROVE  \A q \in PartiesOf[o] : q \in Snapshot(o).paidTo <=> Snapshot(o).revenue > 0
<1>1. PartiesOf[o] \subseteq Parties
  BY OrderAssumption
<1>2. QED
  BY <1>1 DEF Snapshot, SharesMatchRevenue

\* Side effects computed from such a snapshot keep the books matching.
LEMMA SideEffectsTogether ==
  ASSUME TypeOK, SharesMatchRevenue, NEW p \in Procs, Open(p), SeenAgrees(p), SideEffects(p)
  PROVE  SharesMatchRevenue'
<1> DEFINE o == OrderOf(p)
<1>1. o \in Orders /\ PartiesOf[o] \subseteq Parties
  BY OpenType
<1>2. \A r \in Orders \ {o} : revenue'[r] = revenue[r] /\ commission'[r] = commission[r]
  BY <1>1 DEF SideEffects, TypeOK
<1>3. revenue'[o] = IF tx[p].seen.revenue > 0 THEN revenue[o] ELSE revenue[o] + 1
  BY <1>1 DEF SideEffects, TypeOK
<1>4. \A q \in Parties :
        commission'[o][q] = IF q \in PartiesOf[o] \ tx[p].seen.paidTo
                            THEN commission[o][q] + 1 ELSE commission[o][q]
  BY <1>1 DEF SideEffects, TypeOK
<1>5. ASSUME NEW q \in PartiesOf[o] PROVE commission'[o][q] = revenue'[o]
  <2>1. /\ q \in Parties /\ commission[o][q] = revenue[o]
        /\ q \in tx[p].seen.paidTo <=> tx[p].seen.revenue > 0
    BY <1>1 DEF SharesMatchRevenue, SeenAgrees
  <2>2. CASE tx[p].seen.revenue > 0
    BY <1>3, <1>4, <2>1, <2>2
  <2>3. CASE ~(tx[p].seen.revenue > 0)
    BY <1>3, <1>4, <2>1, <2>3
  <2>4. QED
    BY <2>2, <2>3
<1>6. QED
  BY <1>2, <1>5 DEF SharesMatchRevenue

\* What a step does to a transaction: it leaves its order and snapshot alone,
\* ends it, or gives it a snapshot of the state the step starts from.
LEMMA SnapshotSteps ==
  ASSUME TypeOK, [Next]_vars, NEW p \in Procs, Open(p)'
  PROVE  \/ Open(p) /\ tx'[p].order = tx[p].order /\ tx'[p].seen = tx[p].seen
         \/ \E o \in Orders : tx'[p].order = o /\ tx'[p].seen = Snapshot(o)
<1> DEFINE Goal == \/ Open(p) /\ tx'[p].order = tx[p].order /\ tx'[p].seen = tx[p].seen
                   \/ \E o \in Orders : tx'[p].order = o /\ tx'[p].seen = Snapshot(o)
<1>1. CASE tx'[p] = tx[p]
  BY <1>1 DEF Open
<1>2. ASSUME NEW r \in Procs, NEW o \in Orders, NEW phase, NEW next, Start(r, o, phase, next)
      PROVE  Goal
  BY <1>1, <1>2 DEF Start, TypeOK
<1>3. ASSUME NEW r \in Procs, NEW phase, Open(r), Advance(r, phase)
      PROVE  Goal
  <2>1. tx[r] \in [phase : Phases, order : Orders, next : Statuses, seen : Snapshots]
    BY <1>3, OpenType
  <2>2. QED
    BY <1>1, <1>3, <2>1 DEF Advance, TypeOK
<1>4. ASSUME NEW r \in Procs, BeginWalletPay(r)
      PROVE  Goal
  <2>1. Open(r)
    BY <1>4, PhaseOpen DEF BeginWalletPay
  <2>2. /\ tx[r] \in [phase : Phases, order : Orders, next : Statuses, seen : Snapshots]
        /\ OrderOf(r) \in Orders
    BY <2>1, OpenType
  <2>3. QED
    BY <1>1, <1>4, <2>2 DEF BeginWalletPay, TypeOK, OrderOf
<1>5. ASSUME NEW r \in Procs, End(r) PROVE Goal
  BY <1>1, <1>5 DEF End, TypeOK, Open
<1>6. CASE tx' = tx
  BY <1>1, <1>6
<1>7. ASSUME NEW r \in Procs, NEW o \in Orders, CreateOrder(r, o) \/ PrecheckWallet(r, o)
      PROVE  Goal
  BY <1>2, <1>7 DEF CreateOrder, PrecheckWallet
<1>8. ASSUME NEW r \in Procs, NEW o \in Orders, NEW next \in RequestedStatuses,
             BeginTransition(r, o, next)
      PROVE  Goal
  BY <1>2, <1>8 DEF BeginTransition
<1>9. ASSUME NEW r \in Procs, LockOrder(r) \/ LockWallet(r) \/ LockPayingWallet(r)
      PROVE  Goal
  BY <1>3, <1>9, PhaseOpen DEF LockOrder, LockWallet, LockPayingWallet
<1>10. ASSUME NEW r \in Procs,
              \/ LogCreation(r) \/ Refuse(r) \/ CommitPlain(r) \/ CommitTopup(r)
              \/ AbortDuplicate(r) \/ CommitTestPayment(r) \/ RefuseWalletPay(r)
              \/ CommitWalletPay(r) \/ Rollback(r)
       PROVE  Goal
  BY <1>5, <1>10
     DEF LogCreation, Refuse, CommitPlain, CommitTopup, AbortDuplicate, CommitTestPayment,
         RefuseWalletPay, CommitWalletPay, Rollback
<1>11. QED
  BY <1>4, <1>6, <1>7, <1>8, <1>9, <1>10 DEF Next, Step, Finished, vars

\* No race books the revenue of an order without the commissions of its
\* parties, or more often than them.
THEOREM SharesMatchRevenueCorrect == Spec => []SharesMatchRevenue
<1>1. Init => SharesTogether
  BY OrderAssumption DEF Init, SharesTogether, SharesMatchRevenue, SeenAgrees, Open
<1>2. TypeOK /\ SharesTogether /\ [Next]_vars => SharesTogether'
  <2> SUFFICES ASSUME TypeOK, SharesTogether, [Next]_vars PROVE SharesTogether'
    OBVIOUS
  <2>1. SharesMatchRevenue'
    <3>1. CASE UNCHANGED <<revenue, commission>>
      BY <3>1 DEF SharesTogether, SharesMatchRevenue
    <3>2. ASSUME NEW p \in Procs, CommitTestPayment(p) \/ CommitWalletPay(p)
          PROVE  SharesMatchRevenue'
      <4>1. Open(p) /\ SideEffects(p)
        BY <3>2, PhaseOpen DEF CommitTestPayment, CommitWalletPay
      <4>2. QED
        BY <4>1, SideEffectsTogether DEF SharesTogether
    <3>3. QED
      BY <3>1, <3>2
         DEF Next, Step, Finished, vars, business, Start, Advance, CreateOrder, LogCreation,
             BeginTransition, LockOrder, Refuse, CommitPlain, LockWallet, CommitTopup,
             AbortDuplicate, PrecheckWallet, BeginWalletPay, LockPayingWallet,
             RefuseWalletPay, Rollback
  <2>2. ASSUME NEW p \in Procs, Open(p)'
        PROVE  \A q \in PartiesOf[tx'[p].order] :
                   q \in tx'[p].seen.paidTo <=> tx'[p].seen.revenue > 0
    <3>1. CASE Open(p) /\ tx'[p].order = tx[p].order /\ tx'[p].seen = tx[p].seen
      BY <3>1 DEF SharesTogether, SeenAgrees, OrderOf
    <3>2. CASE \E o \in Orders : tx'[p].order = o /\ tx'[p].seen = Snapshot(o)
      BY <3>2, SnapshotAgrees DEF SharesTogether
    <3>3. QED
      BY <2>2, <3>1, <3>2, SnapshotSteps
  <2>3. QED
    BY <2>1, <2>2 DEF SharesTogether, SeenAgrees, OrderOf
<1>3. QED
  <2>1. SharesTogether => SharesMatchRevenue
    BY DEF SharesTogether
  <2>2. QED
    BY <1>1, <1>2, <2>1, TypeCorrect, PTL DEF Spec
-----------------------------------------------------------------------------
(* What EveryTxEnds rests on, apart from fairness: the row locks exclude     *)
(* each other, and an order row is always locked before a wallet row, so     *)
(* never do all open transactions wait.                                      *)

\* No two transactions hold the same order row or the same wallet row.
LocksAreExclusive ==
    \A p, q \in Procs :
        /\ \A o \in Orders : HoldsOrder(p, o) /\ HoldsOrder(q, o) => p = q
        /\ \A u \in Users : HoldsWallet(p, u) /\ HoldsWallet(q, u) => p = q

OrderFree(p) == \A q \in Procs : ~HoldsOrder(q, OrderOf(p))
WalletFree(p) == \A q \in Procs : ~HoldsWallet(q, Payer(p))

\* The guards of the steps of p's transaction: it waits for nothing but a row.
CanStep(p) ==
    \/ tx[p].phase \in {"logging", "prechecked", "paylocked"}
    \/ tx[p].phase = "read" /\ OrderFree(p)
    \/ /\ tx[p].phase = "locked"
       /\ Decision(p) = "applied" /\ IsSuccess(tx[p].seen.status, tx[p].next) => WalletFree(p)
    \/ tx[p].phase = "effects" /\ KindOf[OrderOf(p)] \in {"TOPUP", "TEST"}
    \/ tx[p].phase = "payread" /\ WalletFree(p)

\* As long as transactions are open, one of them can take its next step.
SomeoneProceeds == (\E p \in Procs : Open(p)) => \E p \in Procs : Open(p) /\ CanStep(p)

LockInv == LocksAreExclusive /\ TransitionsNotWallet

\* A step of p that takes no row keeps the locks exclusive,
LEMMA NoLockTaken ==
  ASSUME LocksAreExclusive, NEW p \in Procs,
         \A q \in Procs \ {p} : tx'[q] = tx[q],
         tx'[p].phase \notin {"locked", "effects", "paylocked"}
  PROVE  LocksAreExclusive'
  BY DEF LocksAreExclusive, HoldsOrder, HoldsWallet, Payer

\* and so does one that waits for the row it takes.
LEMMA LockTaken ==
  ASSUME TypeOK, LocksAreExclusive, NEW p \in Procs,
         LockOrder(p) \/ LockWallet(p) \/ LockPayingWallet(p)
  PROVE  LocksAreExclusive'
<1>1. /\ \A q \in Procs \ {p} : tx'[q] = tx[q]
      /\ tx'[p].order = tx[p].order
      /\ tx'[p].phase = CASE tx[p].phase = "read"    -> "locked"
                          [] tx[p].phase = "locked"  -> "effects"
                          [] tx[p].phase = "payread" -> "paylocked"
  <2>1. Open(p)
    BY PhaseOpen DEF LockOrder, LockWallet, LockPayingWallet
  <2>2. tx[p] \in [phase : Phases, order : Orders, next : Statuses, seen : Snapshots]
    BY <2>1, OpenType
  <2>3. PICK phase : /\ Advance(p, phase)
                     /\ \/ tx[p].phase = "read" /\ phase = "locked"
                        \/ tx[p].phase = "locked" /\ phase = "effects"
                        \/ tx[p].phase = "payread" /\ phase = "paylocked"
    BY DEF LockOrder, LockWallet, LockPayingWallet
  <2>4. /\ tx'[p] = [tx[p] EXCEPT !.phase = phase]
        /\ \A q \in Procs \ {p} : tx'[q] = tx[q]
    BY <2>3 DEF Advance, TypeOK
  <2>5. QED
    BY <2>2, <2>3, <2>4
<1>2. \A q \in Procs \ {p} :
         /\ \A o \in Orders : HoldsOrder(q, o)' <=> HoldsOrder(q, o)
         /\ \A u \in Users : HoldsWallet(q, u)' <=> HoldsWallet(q, u)
  BY <1>1 DEF HoldsOrder, HoldsWallet, Payer
<1>3. CASE LockOrder(p)
  <2>1. /\ \A o \in Orders : HoldsOrder(p, o)' => \A q \in Procs : ~HoldsOrder(q, o)
        /\ \A u \in Users : ~HoldsWallet(p, u)'
    BY <1>1, <1>3 DEF LockOrder, HoldsOrder, HoldsWallet, OrderOf
  <2>2. QED
    BY <1>2, <2>1 DEF LocksAreExclusive
<1>4. CASE LockWallet(p) \/ LockPayingWallet(p)
  <2>1. /\ \A o \in Orders : HoldsOrder(p, o)' => HoldsOrder(p, o)
        /\ \A u \in Users : HoldsWallet(p, u)' => \A q \in Procs : ~HoldsWallet(q, u)
    BY <1>1, <1>4 DEF LockWallet, LockPayingWallet, HoldsOrder, HoldsWallet, Payer
  <2>2. QED
    BY <1>2, <2>1 DEF LocksAreExclusive
<1>5. QED
  BY <1>3, <1>4

\* What p's step leaves in the transactions: those of the others, and of its own
\* one that is over, one just begun, or the same one further on.
Turn(p) ==
    /\ \A q \in Procs \ {p} : tx'[q] = tx[q]
    /\ \/ tx'[p] = Idle
       \/ /\ tx'[p].phase \in {"logging", "read"}
          /\ KindOf[tx'[p].order] # "WALLET"
       \/ tx'[p].phase \in {"prechecked", "payread"}
       \/ /\ LockOrder(p) \/ LockWallet(p) \/ LockPayingWallet(p)
          /\ tx'[p].order = tx[p].order
          /\ \/ /\ tx[p].phase \in {"read", "locked"}
                /\ tx'[p].phase \in {"locked", "effects"}
             \/ tx'[p].phase = "paylocked"

\* Every step that changes transactions is some caller's turn.
LEMMA TurnOf ==
  ASSUME TypeOK, Next, tx' # tx
  PROVE  \E p \in Procs : Turn(p)
<1> USE DEF Turn
<1>1. ASSUME NEW p \in Procs, End(p) PROVE Turn(p)
  BY <1>1 DEF End, TypeOK
<1>2. ASSUME NEW p \in Procs, NEW o \in Orders, NEW next, NEW phase \in {"logging", "read"},
             KindOf[o] # "WALLET", Start(p, o, phase, next)
      PROVE  Turn(p)
  BY <1>2 DEF Start, TypeOK
<1>3. ASSUME NEW p \in Procs, NEW o \in Orders, PrecheckWallet(p, o) PROVE Turn(p)
  BY <1>3 DEF PrecheckWallet, Start, TypeOK
<1>4. ASSUME NEW p \in Procs, BeginWalletPay(p) PROVE Turn(p)
  <2>1. tx[p] \in [phase : Phases, order : Orders, next : Statuses, seen : Snapshots]
    BY <1>4, PhaseOpen, OpenType DEF BeginWalletPay
  <2>2. /\ tx'[p] = [tx[p] EXCEPT !.phase = "payread", !.seen = Snapshot(OrderOf(p))]
        /\ \A q \in Procs \ {p} : tx'[q] = tx[q]
    BY <1>4 DEF BeginWalletPay, TypeOK
  <2>3. QED
    BY <2>1, <2>2
<1>5. ASSUME NEW p \in Procs, LockOrder(p) \/ LockWallet(p) \/ LockPayingWallet(p)
      PROVE  Turn(p)
  <2>1. tx[p] \in [phase : Phases, order : Orders, next : Statuses, seen : Snapshots]
    BY <1>5, PhaseOpen, OpenType DEF LockOrder, LockWallet, LockPayingWallet
  <2>2. PICK phase : /\ Advance(p, phase)
                     /\ \/ tx[p].phase \in {"read", "locked"} /\ phase \in {"locked", "effects"}
                        \/ phase = "paylocked"
    BY <1>5 DEF LockOrder, LockWallet, LockPayingWallet
  <2>3. /\ tx'[p] = [tx[p] EXCEPT !.phase = phase]
        /\ \A q \in Procs \ {p} : tx'[q] = tx[q]
    BY <2>2 DEF Advance, TypeOK
  <2>4. QED
    BY <1>5, <2>1, <2>2, <2>3
<1>6. PICK p \in Procs :
         \/ \E o \in Orders : CreateOrder(p, o) \/ PrecheckWallet(p, o)
         \/ \E o \in Orders, next \in RequestedStatuses : BeginTransition(p, o, next)
         \/ Step(p) \/ Rollback(p)
  BY DEF Next, Finished, vars
<1>7. Turn(p)
  <2>1. ASSUME NEW o \in Orders, CreateOrder(p, o) PROVE Turn(p)
    BY <1>2, <2>1 DEF CreateOrder
  <2>2. ASSUME NEW o \in Orders, NEW next, BeginTransition(p, o, next) PROVE Turn(p)
    BY <1>2, <2>2 DEF BeginTransition
  <2>3. CASE Rollback(p)
    BY <1>1, <2>3 DEF Rollback
  <2>4. CASE Step(p)
    BY <1>1, <1>4, <1>5, <2>4
       DEF Step, LogCreation, Refuse, CommitPlain, CommitTopup, AbortDuplicate,
           CommitTestPayment, RefuseWalletPay, CommitWalletPay
  <2>5. QED
    BY <1>3, <1>6, <2>1, <2>2, <2>3, <2>4
<1>8. QED
  BY <1>7

\* Of all steps only those that wait for a row take one, and what is settled
\* through applyOrderTransition is never a wallet payment.
LEMMA LockStep == TypeOK /\ LockInv /\ [Next]_vars => LockInv'
<1> SUFFICES ASSUME TypeOK, LockInv, [Next]_vars PROVE LockInv'
  OBVIOUS
<1>1. CASE tx' = tx
  BY <1>1 DEF LockInv, LocksAreExclusive, TransitionsNotWallet, HoldsOrder, HoldsWallet,
              Payer, OrderOf
<1>2. CASE tx' # tx
  <2>1. PICK p \in Procs : Turn(p)
    BY <1>2, TurnOf DEF vars
  <2>2. LocksAreExclusive'
    BY <2>1, NoLockTaken, LockTaken DEF Turn, LockInv, Idle
  <2>3. ASSUME NEW q \in Procs, tx'[q].phase \in Phases \ PayPhases
        PROVE  KindOf[tx'[q].order] # "WALLET"
    <3>1. CASE q = p
      BY <2>1, <2>3, <3>1 DEF Turn, LockInv, TransitionsNotWallet, OrderOf,
                                  Phases, PayPhases, Idle
    <3>2. CASE q # p
      BY <2>1, <2>3, <3>2 DEF Turn, LockInv, TransitionsNotWallet, OrderOf
    <3>3. QED
      BY <3>1, <3>2
  <2>4. QED
    BY <2>2, <2>3 DEF LockInv, TransitionsNotWallet, OrderOf
<1>3. QED
  BY <1>1, <1>2

\* Row locks exclude each other, for any number of callers.
THEOREM LocksAreExclusiveCorrect == Spec => []LocksAreExclusive
<1>1. Init => LockInv
  BY DEF Init, LockInv, LocksAreExclusive, TransitionsNotWallet, HoldsOrder, HoldsWallet,
         Idle, Phases
<1>2. LockInv => LocksAreExclusive
  BY DEF LockInv
<1>3. QED
  BY <1>1, <1>2, LockStep, TypeCorrect, PTL DEF Spec

\* No set of callers waits on one another: a transaction that holds a wallet
\* row can finish, one that only holds an order row waits for a wallet row at
\* most, and one that holds nothing for either.
THEOREM NoDeadlock == Spec => []SomeoneProceeds
<1>1. TypeOK /\ LockInv => SomeoneProceeds
  <2> SUFFICES ASSUME TypeOK, LockInv, NEW r \in Procs, Open(r)
               PROVE  \E p \in Procs : Open(p) /\ CanStep(p)
    BY DEF SomeoneProceeds
  <2>1. ASSUME NEW p \in Procs, tx[p].phase \in {"effects", "paylocked"}
        PROVE  Open(p) /\ CanStep(p)
    <3>1. Open(p)
      BY <2>1, PhaseOpen
    <3>2. tx[p].phase = "effects" => KindOf[OrderOf(p)] \in {"TOPUP", "TEST"}
      BY <3>1, OpenType, OrderAssumption
         DEF LockInv, TransitionsNotWallet, Phases, PayPhases
    <3>3. QED
      BY <2>1, <3>1, <3>2 DEF CanStep
  <2>2. ASSUME \A q \in Procs : tx[q].phase \notin {"effects", "paylocked"},
               NEW p \in Procs, tx[p].phase = "locked"
        PROVE  Open(p) /\ CanStep(p)
    BY <2>2, PhaseOpen DEF CanStep, WalletFree, HoldsWallet
  <2>3. ASSUME \A q \in Procs : tx[q].phase \notin {"effects", "paylocked", "locked"}
        PROVE  CanStep(r)
    <3>1. OrderFree(r) /\ WalletFree(r)
      BY <2>3 DEF OrderFree, WalletFree, HoldsOrder, HoldsWallet
    <3>2. tx[r].phase \in Phases
      BY OpenType
    <3>3. QED
      BY <2>3, <3>1, <3>2 DEF CanStep, Phases
  <2>4. QED
    BY <2>1, <2>2, <2>3
<1>2. Init => LockInv
  BY DEF Init, LockInv, LocksAreExclusive, TransitionsNotWallet, HoldsOrder, HoldsWallet,
         Idle, Phases
<1>3. QED
  BY <1>1, <1>2, LockStep, TypeCorrect, PTL DEF Spec
=============================================================================
