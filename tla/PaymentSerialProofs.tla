------------------------- MODULE PaymentSerialProofs -------------------------
(***************************************************************************)
(* What PaymentOrders guarantees when the callers of one user take turns   *)
(* (SerialSpec), for every set of callers, users, orders and parties: the  *)
(* ledger and the audit trail are chains, every effect is booked at most   *)
(* once, a paid order stays paid, and the two transactions implement       *)
(* SettleOnce.  Callers of different users may interleave as they like.    *)
(* The runs of two callers of one user show that the assumption is needed. *)
(***************************************************************************)
EXTENDS PaymentOrdersProofs

-----------------------------------------------------------------------------
(* Why callers of different users do not disturb each other.                 *)

\* Whatever a caller does.
Acts(p) ==
    \/ \E o \in Orders : CreateOrder(p, o) \/ PrecheckWallet(p, o)
    \/ \E o \in Orders, next \in RequestedStatuses : BeginTransition(p, o, next)
    \/ Step(p)
    \/ Rollback(p)

\* Every step is a caller's or changes nothing.
LEMMA NextActs == [Next]_vars => UNCHANGED vars \/ \E p \in Procs : Acts(p)
  BY DEF Next, Acts, Finished

\* The rows a transaction on order o reads or writes stay as they are.
Untouched(o) ==
    /\ status'[o] = status[o]
    /\ events'[o] = events[o]
    /\ revenue'[o] = revenue[o]
    /\ commission'[o] = commission[o]
    /\ balance'[OwnerOf[o]] = balance[OwnerOf[o]]

\* A transaction writes nothing outside the rows of its payer.
LEMMA WritesPayerOnly ==
  ASSUME TypeOK, NEW p \in Procs, Open(p), Step(p) \/ Rollback(p)
  PROVE  /\ \A q \in Procs \ {p} : tx'[q] = tx[q]
         /\ \A o \in Orders : OwnerOf[o] # Payer(p) => Untouched(o)
<1>1. OrderOf(p) \in Orders /\ Payer(p) = OwnerOf[OrderOf(p)]
  BY OpenType DEF Payer, OrderOf
<1>2. CASE UNCHANGED business
  BY <1>2
     DEF business, Untouched, TypeOK, Step, Rollback, End, Advance, LogCreation, LockOrder, Refuse,
         CommitPlain, LockWallet, CommitTopup, AbortDuplicate, CommitTestPayment,
         BeginWalletPay, LockPayingWallet, RefuseWalletPay, CommitWalletPay
<1>3. CASE LogCreation(p)
  BY <1>1, <1>3 DEF LogCreation, End, TypeOK, Untouched
<1>4. CASE CommitPlain(p)
  BY <1>1, <1>4 DEF CommitPlain, RecordTransition, End, TypeOK, Untouched
<1>5. CASE CommitTopup(p)
  BY <1>1, <1>5 DEF CommitTopup, RecordTransition, MoveFunds, End, TypeOK, Untouched
<1>6. CASE CommitTestPayment(p)
  BY <1>1, <1>6 DEF CommitTestPayment, RecordTransition, SideEffects, End, TypeOK, Untouched
<1>7. CASE CommitWalletPay(p)
  BY <1>1, <1>7 DEF CommitWalletPay, MoveFunds, SideEffects, End, TypeOK, Untouched
<1>8. QED
  BY <1>2, <1>3, <1>4, <1>5, <1>6, <1>7
     DEF Step, Rollback, Advance, LockOrder, Refuse, LockWallet, AbortDuplicate,
         BeginWalletPay, LockPayingWallet, RefuseWalletPay

\* So when the callers of one user take turns, a caller's step leaves the rows
\* of every other open transaction alone.
LEMMA OthersUntouched ==
  ASSUME TypeOK, OneCallerPerUser, OneCallerPerUser', NEW p \in Procs, Acts(p),
         NEW q \in Procs \ {p}
  PROVE  tx'[q] = tx[q] /\ (Open(q) => Untouched(OrderOf(q)))
<1>1. ASSUME NEW o \in Orders, CreateOrder(p, o)
      PROVE  tx'[q] = tx[q] /\ (Open(q) => Untouched(OrderOf(q)))
  <2>1. /\ tx'[q] = tx[q] /\ tx'[p] # Idle /\ tx'[p].order = o
        /\ \A r \in Orders \ {o} : Untouched(r)
    BY <1>1 DEF CreateOrder, Start, TypeOK, Idle, Untouched
  <2>2. Open(q) => OrderOf(q) \in Orders /\ OwnerOf[OrderOf(q)] # OwnerOf[o]
    BY <2>1, OpenType DEF OneCallerPerUser, Open, Payer, OrderOf
  <2>3. QED
    BY <2>1, <2>2
<1>2. ASSUME NEW o \in Orders,
             PrecheckWallet(p, o) \/ \E next \in RequestedStatuses : BeginTransition(p, o, next)
      PROVE  tx'[q] = tx[q] /\ (Open(q) => Untouched(OrderOf(q)))
  BY <1>2 DEF PrecheckWallet, BeginTransition, Start, TypeOK, Untouched, business
<1>3. CASE Step(p) \/ Rollback(p)
  <2>1. Open(p)
    BY <1>3, PhaseOpen
       DEF Step, Rollback, LogCreation, LockOrder, Refuse, CommitPlain, LockWallet,
           CommitTopup, AbortDuplicate, CommitTestPayment, BeginWalletPay, LockPayingWallet,
           RefuseWalletPay, CommitWalletPay
  <2>2. Open(q) => OrderOf(q) \in Orders /\ OwnerOf[OrderOf(q)] # Payer(p)
    BY <2>1, OpenType DEF OneCallerPerUser, Payer, OrderOf
  <2>3. QED
    BY <1>3, <2>1, <2>2, WritesPayerOnly
<1>4. QED
  BY <1>1, <1>2, <1>3 DEF Acts

\* The transactions of SerialSpec are those of Spec, taking turns.
LEMMA SerialTurns == SerialSpec => Spec /\ []OneCallerPerUser
<1>1. Init => OneCallerPerUser
  BY DEF Init, OneCallerPerUser, Open
<1>2. OneCallerPerUser /\ [Next /\ OneCallerPerUser']_vars => OneCallerPerUser'
  BY DEF OneCallerPerUser, Open, Payer, vars
<1>3. [Next /\ OneCallerPerUser']_vars => [Next]_vars
  OBVIOUS
<1>4. QED
  BY <1>1, <1>2, <1>3, PTL DEF SerialSpec, Spec
-----------------------------------------------------------------------------
(* The invariant.                                                            *)

\* An open transaction's snapshot is the committed state, and it works on an
\* order of the kind and status its caller chose.
FreshTx(p) ==
    Open(p) =>
        /\ tx[p].phase # "logging" => tx[p].seen = Snapshot(OrderOf(p))
        /\ tx[p].phase \in {"logging", "read", "locked", "effects"} =>
              KindOf[OrderOf(p)] # "WALLET" /\ status[OrderOf(p)] # Absent
        /\ tx[p].phase \in {"prechecked", "payread", "paylocked"} =>
              KindOf[OrderOf(p)] = "WALLET" /\ status[OrderOf(p)] = Absent
        /\ tx[p].phase = "effects" =>
              IsSuccess(tx[p].seen.status, tx[p].next)
        /\ tx[p].phase \in {"payread", "paylocked", "prechecked"} => tx[p].next = "SUCCESS"

\* Nothing is booked for an order that is not settled.
UnsettledIsUnbooked ==
    \A o \in Orders : ~IsSettled(status[o]) =>
        revenue[o] = 0 /\ \A q \in Parties : commission[o][q] = 0

SerialInv == EffectOnce /\ UnsettledIsUnbooked /\ \A p \in Procs : FreshTx(p)

\* The exists-checks work on a fresh snapshot: revenue and shares are booked once.
LEMMA SideEffectsOnce ==
  ASSUME TypeOK, NEW p \in Procs, Open(p), SideEffects(p), EffectOnce,
         tx[p].seen = Snapshot(OrderOf(p))
  PROVE  /\ EffectOnce'
         /\ \A o \in Orders \ {OrderOf(p)} :
               revenue'[o] = revenue[o] /\ commission'[o] = commission[o]
         /\ revenue'[OrderOf(p)] = 1
<1> DEFINE o == OrderOf(p)
<1>1. o \in Orders
  BY OpenType
<1>2. /\ tx[p].seen.revenue = revenue[o]
      /\ tx[p].seen.paidTo = {q \in Parties : commission[o][q] > 0}
  BY DEF Snapshot
<1>3. revenue[o] \in Nat /\ revenue[o] <= 1
  BY <1>1 DEF TypeOK, EffectOnce
<1>4. revenue'[o] = 1 /\ \A r \in Orders \ {o} : revenue'[r] = revenue[r]
  <2>1. /\ revenue'[o] = IF tx[p].seen.revenue > 0 THEN revenue[o] ELSE revenue[o] + 1
        /\ \A r \in Orders \ {o} : revenue'[r] = revenue[r]
    BY <1>1 DEF SideEffects, TypeOK
  <2>2. CASE revenue[o] > 0
    BY <1>2, <1>3, <2>1, <2>2
  <2>3. CASE ~(revenue[o] > 0)
    BY <1>2, <1>3, <2>1, <2>3
  <2>4. QED
    BY <2>1, <2>2, <2>3
<1>5. \A q \in Parties : commission[o][q] \in Nat /\ commission[o][q] <= 1
  BY <1>1 DEF TypeOK, EffectOnce
<1>6. \A q \in Parties : commission'[o][q] <= 1
  <2>1. \A q \in Parties :
          commission'[o][q] = IF q \in PartiesOf[o] \ tx[p].seen.paidTo
                              THEN commission[o][q] + 1 ELSE commission[o][q]
    BY <1>1 DEF SideEffects, TypeOK
  <2> SUFFICES ASSUME NEW q \in Parties PROVE commission'[o][q] <= 1
    OBVIOUS
  <2>2. CASE q \in tx[p].seen.paidTo
    BY <1>5, <2>1, <2>2
  <2>3. CASE q \notin tx[p].seen.paidTo
    <3>1. commission[o][q] = 0
      BY <1>2, <1>5, <2>3
    <3>2. QED
      BY <2>1, <3>1
  <2>4. QED
    BY <2>2, <2>3
<1>7. \A r \in Orders \ {o} : commission'[r] = commission[r]
  BY <1>1 DEF SideEffects, TypeOK
<1>8. QED
  BY <1>1, <1>4, <1>6, <1>7 DEF EffectOnce

\* A step that writes only bookkeeping leaves every snapshot as it was.
LEMMA SnapshotStays ==
  ASSUME UNCHANGED business
  PROVE  \A o \in Orders : Snapshot(o)' = Snapshot(o)
  BY DEF business, Snapshot

\* A step that writes no table keeps the books right.
LEMMA QuietKeepsBooks ==
  ASSUME SerialInv, UNCHANGED business
  PROVE  EffectOnce' /\ UnsettledIsUnbooked'
  BY DEF SerialInv, EffectOnce, UnsettledIsUnbooked, business, IsSettled

\* A caller is up to date when it has no transaction.
LEMMA IdleIsFresh ==
  ASSUME TypeOK, NEW w \in Procs, End(w)
  PROVE  FreshTx(w)'
  BY DEF End, TypeOK, FreshTx, Open

\* The invariant of callers that take turns holds initially,
LEMMA SerialInitially == Init => SerialInv
  BY OrderAssumption DEF Init, SerialInv, EffectOnce, UnsettledIsUnbooked, FreshTx, Open

\* the step of a caller keeps it as far as the books and this caller go,
LEMMA SerialStep ==
  ASSUME NEW w \in Procs, TypeOK, SerialInv, Acts(w)
  PROVE  EffectOnce' /\ UnsettledIsUnbooked' /\ FreshTx(w)'
<1> DEFINE Kept == EffectOnce' /\ UnsettledIsUnbooked' /\ FreshTx(w)'
<1>1. ASSUME NEW o \in Orders, CreateOrder(w, o) PROVE Kept
  <2>1. tx'[w].phase = "logging" /\ tx'[w].order = o
    BY <1>1 DEF CreateOrder, Start, TypeOK
  <2>2. status'[o] = "PENDING" /\ \A r \in Orders \ {o} : status'[r] = status[r]
    BY <1>1 DEF CreateOrder, TypeOK
  <2>3. FreshTx(w)'
    BY <1>1, <2>1, <2>2 DEF CreateOrder, FreshTx, OrderOf, Absent
  <2>4. ~IsSettled(status[o])
    BY <1>1 DEF CreateOrder, IsSettled, SettledStatuses, Absent
  <2>5. EffectOnce' /\ UnsettledIsUnbooked'
    BY <1>1, <2>2, <2>4 DEF CreateOrder, SerialInv, EffectOnce, UnsettledIsUnbooked, IsSettled
  <2>6. QED
    BY <2>3, <2>5 DEF SerialInv
<1>2. ASSUME NEW o \in Orders,
             PrecheckWallet(w, o) \/ \E next \in RequestedStatuses : BeginTransition(w, o, next)
      PROVE  Kept
  <2>1. UNCHANGED business
    BY <1>2 DEF PrecheckWallet, BeginTransition
  <2>2. /\ tx'[w].seen = Snapshot(o) /\ tx'[w].order = o
        /\ \/ tx'[w].phase = "read" /\ KindOf[o] # "WALLET" /\ status[o] # Absent
           \/ /\ tx'[w].phase = "prechecked" /\ KindOf[o] = "WALLET" /\ status[o] = Absent
              /\ tx'[w].next = "SUCCESS"
    BY <1>2 DEF PrecheckWallet, BeginTransition, Start, TypeOK
  <2>3. status'[o] = status[o] /\ Snapshot(o)' = Snapshot(o)
    BY <2>1, SnapshotStays DEF business
  <2>4. FreshTx(w)'
    BY <2>2, <2>3 DEF FreshTx, OrderOf
  <2>5. QED
    BY <2>1, <2>4, QuietKeepsBooks DEF SerialInv
<1>3. ASSUME LockOrder(w) \/ LockWallet(w) \/ LockPayingWallet(w) \/ BeginWalletPay(w)
      PROVE  Kept
  <2>1. Open(w) /\ UNCHANGED business
    BY <1>3, PhaseOpen DEF LockOrder, LockWallet, LockPayingWallet, BeginWalletPay, Advance
  <2>2. OrderOf(w) \in Orders /\ FreshTx(w)
    BY <2>1, OpenType DEF SerialInv
  <2>3. tx[w].seen = Snapshot(OrderOf(w))
    BY <1>3, <2>1, <2>2 DEF FreshTx, LockOrder, LockWallet, LockPayingWallet, BeginWalletPay
  <2>4. /\ tx'[w].order = tx[w].order /\ tx'[w].next = tx[w].next
        /\ tx'[w].seen = Snapshot(OrderOf(w))
        /\ \/ tx[w].phase = "read" /\ tx'[w].phase = "locked"
           \/ /\ tx[w].phase = "locked" /\ tx'[w].phase = "effects"
              /\ IsSuccess(tx[w].seen.status, tx[w].next)
           \/ tx[w].phase = "prechecked" /\ tx'[w].phase = "payread"
           \/ tx[w].phase = "payread" /\ tx'[w].phase = "paylocked"
    <3>1. tx[w] \in [phase : Phases, order : Orders, next : Statuses, seen : Snapshots]
      BY <2>1, OpenType
    <3>2. QED
      BY <1>3, <2>3, <3>1
         DEF LockOrder, LockWallet, LockPayingWallet, BeginWalletPay, Advance, TypeOK, OrderOf
  <2>5. \A o \in Orders : Snapshot(o)' = Snapshot(o) /\ status'[o] = status[o]
    BY <2>1, SnapshotStays DEF business
  <2>6. FreshTx(w)'
    BY <2>2, <2>1, <2>3, <2>4, <2>5 DEF FreshTx, OrderOf, IsSuccess, IsSettled
  <2>7. QED
    BY <2>1, <2>6, QuietKeepsBooks DEF SerialInv
<1>4. ASSUME Refuse(w) \/ AbortDuplicate(w) \/ RefuseWalletPay(w) \/ Rollback(w)
      PROVE  Kept
  <2>1. End(w) /\ UNCHANGED business
    BY <1>4 DEF Refuse, AbortDuplicate, RefuseWalletPay, Rollback
  <2>2. QED
    BY <2>1, IdleIsFresh, QuietKeepsBooks DEF SerialInv
<1>5. CASE LogCreation(w)
  <2>1. End(w) /\ UNCHANGED <<status, revenue, commission>>
    BY <1>5 DEF LogCreation
  <2>2. QED
    BY <2>1, IdleIsFresh DEF SerialInv, EffectOnce, UnsettledIsUnbooked, IsSettled
<1>6. CASE CommitPlain(w)
  <2>1. Open(w) /\ End(w) /\ OrderOf(w) \in Orders /\ FreshTx(w)
    BY <1>6, PhaseOpen, OpenType DEF CommitPlain, SerialInv
  <2>2. tx[w].seen.status = status[OrderOf(w)]
    BY <1>6, <2>1 DEF CommitPlain, FreshTx, Snapshot
  <2>3. IsSettled(status[OrderOf(w)]) => IsSettled(tx[w].next)
    BY <1>6, <2>2 DEF CommitPlain, Decision, Verdict
  <2>4. /\ status'[OrderOf(w)] = tx[w].next
        /\ \A r \in Orders \ {OrderOf(w)} : status'[r] = status[r]
    BY <1>6, <2>1 DEF CommitPlain, RecordTransition, TypeOK
  <2>5. EffectOnce' /\ UnsettledIsUnbooked'
    BY <1>6, <2>1, <2>3, <2>4
       DEF CommitPlain, SerialInv, EffectOnce, UnsettledIsUnbooked, IsSettled
  <2>6. QED
    BY <2>1, <2>5, IdleIsFresh DEF SerialInv
<1>7. CASE CommitTopup(w)
  <2>1. Open(w) /\ End(w) /\ OrderOf(w) \in Orders /\ FreshTx(w)
    BY <1>7, PhaseOpen, OpenType DEF CommitTopup, SerialInv
  <2>2. IsSettled(tx[w].next)
    BY <1>7, <2>1 DEF CommitTopup, FreshTx, IsSuccess
  <2>3. /\ status'[OrderOf(w)] = tx[w].next
        /\ \A r \in Orders \ {OrderOf(w)} : status'[r] = status[r]
    BY <1>7, <2>1 DEF CommitTopup, RecordTransition, TypeOK
  <2>4. EffectOnce' /\ UnsettledIsUnbooked'
    BY <1>7, <2>2, <2>3
       DEF CommitTopup, SerialInv, EffectOnce, UnsettledIsUnbooked, IsSettled
  <2>5. QED
    BY <2>1, <2>4, IdleIsFresh DEF SerialInv
<1>8. CASE CommitTestPayment(w) \/ CommitWalletPay(w)
  <2>1. Open(w) /\ End(w) /\ OrderOf(w) \in Orders /\ FreshTx(w) /\ SideEffects(w)
    BY <1>8, PhaseOpen, OpenType DEF CommitTestPayment, CommitWalletPay, SerialInv
  <2>2. tx[w].seen = Snapshot(OrderOf(w))
    BY <1>8, <2>1 DEF CommitTestPayment, CommitWalletPay, FreshTx
  <2>3. /\ IsSettled(status'[OrderOf(w)])
        /\ \A r \in Orders \ {OrderOf(w)} : status'[r] = status[r]
    BY <1>8, <2>1 DEF CommitTestPayment, CommitWalletPay, RecordTransition, TypeOK, FreshTx,
                      IsSuccess, IsSettled, SettledStatuses
  <2>4. /\ EffectOnce'
        /\ \A o \in Orders \ {OrderOf(w)} :
               revenue'[o] = revenue[o] /\ commission'[o] = commission[o]
    BY <2>1, <2>2, SideEffectsOnce DEF SerialInv
  <2>5. UnsettledIsUnbooked'
    <3> SUFFICES ASSUME NEW r \in Orders, ~IsSettled(status'[r])
                 PROVE  revenue'[r] = 0 /\ \A q \in Parties : commission'[r][q] = 0
      BY DEF UnsettledIsUnbooked, IsSettled
    <3>1. r \in Orders \ {OrderOf(w)}
      BY <2>3
    <3>2. QED
      BY <2>3, <2>4, <3>1 DEF SerialInv, UnsettledIsUnbooked
  <2>6. QED
    BY <2>1, <2>4, <2>5, IdleIsFresh DEF SerialInv
<1>9. QED
  BY <1>1, <1>2, <1>3, <1>4, <1>5, <1>6, <1>7, <1>8 DEF Acts, Step

\* and no step of a caller touches what a caller of another user looks at.
LEMMA StaysFresh ==
  ASSUME TypeOK, NEW q \in Procs, FreshTx(q), tx'[q] = tx[q],
         Open(q) => Untouched(OrderOf(q))
  PROVE  FreshTx(q)'
<1> SUFFICES ASSUME Open(q)' PROVE FreshTx(q)'
  BY DEF FreshTx
<1>1. Open(q) /\ OrderOf(q) \in Orders
  BY OpenType DEF Open
<1>2. tx'[q].order = tx[q].order /\ status'[OrderOf(q)] = status[OrderOf(q)]
  BY <1>1 DEF Untouched
<1>3. Snapshot(tx[q].order)' = Snapshot(tx[q].order)
  BY <1>1 DEF Untouched, Snapshot, OrderOf
<1>4. QED
  BY <1>1, <1>2, <1>3 DEF FreshTx, OrderOf, IsSuccess, IsSettled

\* Every step of callers that take turns keeps the invariant.
LEMMA SerialInductive ==
  ASSUME TypeOK, SerialInv, OneCallerPerUser, OneCallerPerUser', [Next]_vars
  PROVE  SerialInv'
<1>1. ASSUME NEW p \in Procs, Acts(p) PROVE SerialInv'
  <2>1. EffectOnce' /\ UnsettledIsUnbooked' /\ FreshTx(p)'
    BY <1>1, SerialStep
  <2>2. ASSUME NEW q \in Procs \ {p} PROVE FreshTx(q)'
    <3>1. tx'[q] = tx[q] /\ (Open(q) => Untouched(OrderOf(q)))
      BY <1>1, OthersUntouched
    <3>2. QED
      BY <3>1, StaysFresh DEF SerialInv
  <2>3. QED
    BY <2>1, <2>2 DEF SerialInv
<1>2. CASE UNCHANGED vars
  <2>1. UNCHANGED business /\ tx' = tx
    BY <1>2 DEF vars, business
  <2>2. ASSUME NEW q \in Procs PROVE FreshTx(q)'
    <3>1. Open(q) => Untouched(OrderOf(q))
      BY <2>1 DEF business, Untouched
    <3>2. QED
      BY <2>1, <3>1, StaysFresh DEF SerialInv
  <2>3. QED
    BY <2>1, <2>2, QuietKeepsBooks DEF SerialInv
<1>3. QED
  BY <1>1, <1>2, NextActs

\* What the callers of SerialSpec keep.
LEMMA SerialAlways == SerialSpec => [](TypeOK /\ OneCallerPerUser /\ SerialInv)
<1>1. TypeOK /\ SerialInv /\ OneCallerPerUser /\ OneCallerPerUser' /\ [Next]_vars => SerialInv'
  BY SerialInductive
<1>2. QED
  BY <1>1, SerialInitially, SerialTurns, TypeCorrect, PTL DEF Spec

\* Callers that take turns per user book the revenue of an order and each
\* commission at most once, whatever they are asked to apply and however often.
THEOREM SerialEffectOnce == SerialSpec => []EffectOnce
<1>1. SerialInv => EffectOnce
  BY DEF SerialInv
<1>2. QED
  BY <1>1, SerialAlways, PTL

\* They never take a paid order out of the settled statuses.
THEOREM SerialKeepsSettlement == SerialSpec => SettlementIsFinal
<1> DEFINE Kept == \A o \in Orders : IsSettled(status[o]) => IsSettled(status'[o])
<1>1. TypeOK /\ SerialInv /\ [Next]_vars => [Kept]_vars
  <2> SUFFICES ASSUME TypeOK, SerialInv, Next, NEW o \in Orders, IsSettled(status[o])
               PROVE  IsSettled(status'[o])
    BY Zenon
  <2>1. CASE status'[o] = status[o]
    BY <2>1
  <2>2. ASSUME NEW w \in Procs, NEW r \in Orders, CreateOrder(w, r) PROVE IsSettled(status'[o])
    BY <2>2 DEF CreateOrder, TypeOK, IsSettled, SettledStatuses, Absent
  <2>3. ASSUME NEW w \in Procs, CommitPlain(w) PROVE IsSettled(status'[o])
    <3>1. Open(w) /\ OrderOf(w) \in Orders /\ FreshTx(w)
      BY <2>3, PhaseOpen, OpenType DEF CommitPlain, SerialInv
    <3>2. tx[w].seen.status = status[OrderOf(w)]
      BY <2>3, <3>1 DEF CommitPlain, FreshTx, Snapshot
    <3>3. IsSettled(status[OrderOf(w)]) => IsSettled(tx[w].next)
      BY <2>3, <3>2 DEF CommitPlain, Decision, Verdict
    <3>4. QED
      BY <2>3, <3>1, <3>3 DEF CommitPlain, RecordTransition, TypeOK
  <2>4. ASSUME NEW w \in Procs, CommitTopup(w) \/ CommitTestPayment(w) PROVE IsSettled(status'[o])
    <3>1. Open(w) /\ OrderOf(w) \in Orders /\ FreshTx(w)
      BY <2>4, PhaseOpen, OpenType DEF CommitTopup, CommitTestPayment, SerialInv
    <3>2. IsSettled(tx[w].next)
      BY <2>4, <3>1 DEF CommitTopup, CommitTestPayment, FreshTx, IsSuccess
    <3>3. QED
      BY <2>4, <3>1, <3>2 DEF CommitTopup, CommitTestPayment, RecordTransition, TypeOK
  <2>5. ASSUME NEW w \in Procs, CommitWalletPay(w) PROVE IsSettled(status'[o])
    <3>1. Open(w) /\ OrderOf(w) \in Orders
      BY <2>5, PhaseOpen, OpenType DEF CommitWalletPay
    <3>2. QED
      BY <2>5, <3>1 DEF CommitWalletPay, TypeOK, IsSettled, SettledStatuses
  <2>6. QED
    BY <2>1, <2>2, <2>3, <2>4, <2>5
       DEF Next, Step, Finished, vars, business, Advance, LogCreation, BeginTransition,
           LockOrder, Refuse, LockWallet, AbortDuplicate, PrecheckWallet, BeginWalletPay,
           LockPayingWallet, RefuseWalletPay, Rollback
<1>2. QED
  BY <1>1, SerialAlways, SerialTurns, PTL DEF Spec, SettlementIsFinal
-----------------------------------------------------------------------------
(* LedgerChained.  A movement starts from the balance of its snapshot, which *)
(* is the wallet's, which is where the newest ledger row ends.               *)

\* A movement from the wallet's own balance extends the chain.
LEMMA MovementChains ==
  ASSUME TypeOK, BalanceIsLastEntry, LedgerChained, NEW p \in Procs, Open(p),
         NEW after \in Nat, NEW entry \in {"CREDIT", "DEBIT"}, MoveFunds(p, entry, after),
         tx[p].seen.balance = balance[Payer(p)]
  PROVE  LedgerChained'
<1> DEFINE u == Payer(p)
           n == Len(ledger[u])
<1>1. /\ u \in Users /\ n \in Nat
      /\ Len(ledger'[u]) = n + 1
      /\ ledger'[u][n + 1].before = balance[u]
      /\ \A i \in 1..n : ledger'[u][i] = ledger[u][i]
      /\ \A v \in Users \ {u} : ledger'[v] = ledger[v]
  BY AppendedRow
<1>2. ASSUME NEW i \in 2..(n + 1) PROVE ledger'[u][i].before = ledger'[u][i-1].after
  <2>1. CASE i \in 2..n
    <3>1. i \in 1..n /\ i - 1 \in 1..n
      BY <1>1, <2>1
    <3>2. QED
      BY <1>1, <2>1, <3>1 DEF LedgerChained
  <2>2. CASE i = n + 1
    <3>1. n \in 1..n /\ i - 1 = n
      BY <1>1, <1>2, <2>2
    <3>2. ledger[u] # <<>>
      BY <3>1
    <3>3. balance[u] = ledger[u][n].after
      BY <1>1, <3>2 DEF BalanceIsLastEntry
    <3>4. QED
      BY <1>1, <2>2, <3>1, <3>3
  <2>3. QED
    BY <1>1, <2>1, <2>2
<1>3. ASSUME NEW v \in Users, NEW i \in 2..Len(ledger'[v])
      PROVE  ledger'[v][i].before = ledger'[v][i-1].after
  <2>1. CASE v = u
    BY <1>1, <1>2, <1>3, <2>1
  <2>2. CASE v # u
    BY <1>1, <1>3, <2>2 DEF LedgerChained
  <2>3. QED
    BY <2>1, <2>2
<1>4. QED
  BY <1>3 DEF LedgerChained

\* When the callers of one user take turns, no credit or debit is computed
\* from a stale balance: each ledger row starts where the one before it ended.
THEOREM SerialChainsLedger == SerialSpec => []LedgerChained
<1>1. Init => LedgerChained
  BY DEF Init, LedgerChained
<1>2. TypeOK /\ SerialInv /\ BalanceIsLastEntry /\ LedgerChained /\ [Next]_vars => LedgerChained'
  <2> SUFFICES ASSUME TypeOK, SerialInv, BalanceIsLastEntry, LedgerChained, [Next]_vars
               PROVE  LedgerChained'
    OBVIOUS
  <2>1. CASE UNCHANGED ledger
    BY <2>1 DEF LedgerChained
  <2>2. ASSUME NEW p \in Procs, CommitTopup(p) PROVE LedgerChained'
    <3>1. Open(p) /\ FreshTx(p)
      BY <2>2, PhaseOpen DEF CommitTopup, SerialInv
    <3>2. tx[p].seen.balance = balance[Payer(p)]
      BY <2>2, <3>1 DEF CommitTopup, FreshTx, Snapshot, Payer, OrderOf
    <3>3. tx[p].seen.balance + Amount[OrderOf(p)] \in Nat
      BY <3>1, OpenType
    <3>4. QED
      BY <2>2, <3>1, <3>2, <3>3, MovementChains DEF CommitTopup
  <2>3. ASSUME NEW p \in Procs, CommitWalletPay(p) PROVE LedgerChained'
    <3>1. Open(p) /\ FreshTx(p)
      BY <2>3, PhaseOpen DEF CommitWalletPay, SerialInv
    <3>2. tx[p].seen.balance = balance[Payer(p)]
      BY <2>3, <3>1 DEF CommitWalletPay, FreshTx, Snapshot, Payer, OrderOf
    <3>3. tx[p].seen.balance - Amount[OrderOf(p)] \in Nat
      BY <2>3, <3>1, OpenType DEF CommitWalletPay, Covered
    <3>4. QED
      BY <2>3, <3>1, <3>2, <3>3, MovementChains DEF CommitWalletPay
  <2>4. QED
    BY <2>1, <2>2, <2>3
       DEF Next, Step, Finished, vars, business, Start, Advance, CreateOrder, LogCreation,
           BeginTransition, LockOrder, Refuse, CommitPlain, LockWallet, AbortDuplicate,
           CommitTestPayment, PrecheckWallet, BeginWalletPay, LockPayingWallet,
           RefuseWalletPay, Rollback
<1>3. QED
  BY <1>1, <1>2, SerialAlways, SerialTurns, BalanceIsLastEntryCorrect, PTL DEF Spec
-----------------------------------------------------------------------------
(* AuditChained.  Not inductive: an event starts from the status its         *)
(* snapshot holds, so the trail has to end at the order's status.  It does,  *)
(* except that the creation of an order may not be logged yet, or never be.  *)

\* The rows tr are a trail that ends at status st.
Trails(tr, st) ==
    /\ tr # <<>> => st # Absent /\ tr[Len(tr)].to = st
    /\ \A i \in 2..Len(tr) : tr[i].from = tr[i-1].to

\* createOrder between its two writes is the first to write to the trail.
Unlogged(p) ==
    tx[p].phase = "logging" =>
        events[OrderOf(p)] = <<>> /\ status[OrderOf(p)] = tx[p].next

TrailInv == (\A o \in Orders : Trails(events[o], status[o])) /\ \A p \in Procs : Unlogged(p)

\* An event that starts where the trail ends extends it.
LEMMA AppendTrail ==
  ASSUME NEW tr \in Seq(Event), NEW st, Trails(tr, st), NEW e \in Event,
         tr = <<>> \/ e.from = st, e.to # Absent
  PROVE  Trails(Append(tr, e), e.to)
<1> DEFINE n == Len(tr)
           new == Append(tr, e)
<1>1. /\ n \in Nat /\ Len(new) = n + 1 /\ new[n + 1] = e
      /\ \A i \in 1..n : new[i] = tr[i]
  OBVIOUS
<1> HIDE DEF new
<1>2. ASSUME NEW i \in 2..(n + 1) PROVE new[i].from = new[i-1].to
  <2>1. CASE i \in 2..n
    <3>1. i \in 1..n /\ i - 1 \in 1..n
      BY <1>1, <2>1
    <3>2. QED
      BY <1>1, <2>1, <3>1 DEF Trails
  <2>2. CASE i = n + 1
    <3>1. n \in 1..n /\ i - 1 = n
      BY <1>1, <1>2, <2>2
    <3>2. tr # <<>>
      BY <3>1
    <3>3. QED
      BY <1>1, <2>2, <3>1, <3>2 DEF Trails
  <2>3. QED
    BY <1>1, <2>1, <2>2
<1>3. new[Len(new)].to = e.to
  BY <1>1
<1>4. QED
  BY <1>1, <1>2, <1>3 DEF Trails, new

\* What a caller's step does to the trail of its order,
LEMMA TrailStep ==
  ASSUME TypeOK, SerialInv, TrailInv, NEW p \in Procs, Acts(p)
  PROVE  (\A o \in Orders : Trails(events'[o], status'[o])) /\ Unlogged(p)'
<1> DEFINE Kept == (\A o \in Orders : Trails(events'[o], status'[o])) /\ Unlogged(p)'
<1>1. CASE UNCHANGED <<status, events>> /\ tx'[p].phase # "logging"
  BY <1>1 DEF TrailInv, Unlogged
<1>2. ASSUME NEW o \in Orders, CreateOrder(p, o) PROVE Kept
  <2>1. /\ tx'[p].phase = "logging" /\ tx'[p].order = o /\ tx'[p].next = "PENDING"
        /\ status'[o] = "PENDING" /\ \A r \in Orders \ {o} : status'[r] = status[r]
        /\ events' = events
    BY <1>2 DEF CreateOrder, Start, TypeOK
  <2>2. events[o] = <<>>
    BY <1>2 DEF CreateOrder, TrailInv, Trails
  <2>3. Trails(<<>>, "PENDING")
    BY DEF Trails
  <2>4. \A r \in Orders : Trails(events'[r], status'[r])
    BY <2>1, <2>2, <2>3 DEF TrailInv
  <2>5. QED
    BY <2>1, <2>2, <2>4 DEF Unlogged, OrderOf
<1>3. CASE LogCreation(p)
  <2>1. Open(p)
    BY <1>3, PhaseOpen DEF LogCreation
  <2>2. /\ OrderOf(p) \in Orders /\ tx[p].next \in Statuses
        /\ events[OrderOf(p)] = <<>> /\ status[OrderOf(p)] = tx[p].next
    BY <1>3, <2>1, OpenType DEF LogCreation, TrailInv, Unlogged
  <2> DEFINE e == [from |-> Absent, to |-> tx[p].next]
  <2>3. e \in Event /\ e.to = status[OrderOf(p)] /\ e.to # Absent
    BY <2>2 DEF Event, OrderStatuses, Statuses, Absent
  <2>4. events'[OrderOf(p)] = Append(events[OrderOf(p)], e)
    BY <1>3, <2>2 DEF LogCreation, TypeOK
  <2> HIDE DEF e
  <2>5. Trails(events'[OrderOf(p)], status[OrderOf(p)])
    BY <2>2, <2>3, <2>4, AppendTrail DEF TrailInv, TypeOK
  <2>6. /\ status' = status /\ tx'[p].phase = "idle"
        /\ \A r \in Orders \ {OrderOf(p)} : events'[r] = events[r]
    BY <1>3 DEF LogCreation, End, TypeOK, Idle
  <2>7. QED
    BY <2>5, <2>6 DEF TrailInv, Unlogged
<1>4. CASE CommitPlain(p) \/ CommitTopup(p) \/ CommitTestPayment(p)
  <2>1. Open(p) /\ End(p) /\ RecordTransition(p) /\ FreshTx(p)
    BY <1>4, PhaseOpen DEF CommitPlain, CommitTopup, CommitTestPayment, SerialInv
  <2>2. /\ OrderOf(p) \in Orders /\ tx[p].next \in Statuses
        /\ tx[p].seen.status = status[OrderOf(p)]
        /\ tx[p].seen.status \in OrderStatuses
    BY <1>4, <2>1, OpenType DEF CommitPlain, CommitTopup, CommitTestPayment, FreshTx, Snapshot
  <2> DEFINE e == [from |-> tx[p].seen.status, to |-> tx[p].next]
  <2>3. e \in Event /\ e.from = status[OrderOf(p)] /\ e.to = tx[p].next /\ e.to # Absent
    BY <2>2 DEF Event, Statuses, Absent
  <2>4. events'[OrderOf(p)] = Append(events[OrderOf(p)], e) /\ status'[OrderOf(p)] = tx[p].next
    BY <2>1, <2>2 DEF RecordTransition, TypeOK
  <2> HIDE DEF e
  <2>5. Trails(events'[OrderOf(p)], status'[OrderOf(p)])
    BY <2>2, <2>3, <2>4, AppendTrail DEF TrailInv, TypeOK
  <2>6. /\ tx'[p].phase = "idle"
        /\ \A r \in Orders \ {OrderOf(p)} : events'[r] = events[r] /\ status'[r] = status[r]
    BY <2>1, <2>2 DEF RecordTransition, End, TypeOK, Idle
  <2>7. QED
    BY <2>5, <2>6 DEF TrailInv, Unlogged
<1>5. CASE CommitWalletPay(p)
  <2>1. Open(p) /\ FreshTx(p) /\ OrderOf(p) \in Orders
    BY <1>5, PhaseOpen, OpenType DEF CommitWalletPay, SerialInv
  <2>2. /\ status[OrderOf(p)] = Absent /\ tx'[p].phase = "idle" /\ events' = events
        /\ \A r \in Orders \ {OrderOf(p)} : status'[r] = status[r]
    BY <1>5, <2>1 DEF CommitWalletPay, FreshTx, End, TypeOK, Idle
  <2>3. events[OrderOf(p)] = <<>>
    BY <2>1, <2>2 DEF TrailInv, Trails
  <2>4. \A st : Trails(<<>>, st)
    BY DEF Trails
  <2>5. QED
    BY <2>2, <2>3, <2>4 DEF TrailInv, Unlogged
<1>6. ASSUME NEW o \in Orders,
             PrecheckWallet(p, o) \/ \E next \in RequestedStatuses : BeginTransition(p, o, next)
      PROVE  Kept
  <2>1. UNCHANGED <<status, events>> /\ tx'[p].phase # "logging"
    BY <1>6 DEF PrecheckWallet, BeginTransition, Start, TypeOK, business
  <2>2. QED
    BY <1>1, <2>1
<1>7. CASE \/ LockOrder(p) \/ LockWallet(p) \/ LockPayingWallet(p) \/ BeginWalletPay(p)
           \/ Refuse(p) \/ AbortDuplicate(p) \/ RefuseWalletPay(p) \/ Rollback(p)
  <2>1. UNCHANGED <<status, events>>
    BY <1>7
       DEF LockOrder, LockWallet, LockPayingWallet, BeginWalletPay, Advance, Refuse,
           AbortDuplicate, RefuseWalletPay, Rollback, business
  <2>2. CASE End(p)
    BY <1>1, <2>1, <2>2 DEF End, TypeOK, Idle
  <2>3. CASE LockOrder(p) \/ LockWallet(p) \/ LockPayingWallet(p) \/ BeginWalletPay(p)
    <3>1. Open(p)
      BY <2>3, PhaseOpen DEF LockOrder, LockWallet, LockPayingWallet, BeginWalletPay
    <3>2. tx[p] \in [phase : Phases, order : Orders, next : Statuses, seen : Snapshots]
      BY <3>1, OpenType
    <3>3. tx'[p].phase # "logging"
      BY <2>3, <3>2 DEF LockOrder, LockWallet, LockPayingWallet, BeginWalletPay, Advance, TypeOK
    <3>4. QED
      BY <1>1, <2>1, <3>3
  <2>4. QED
    BY <1>7, <2>2, <2>3 DEF Refuse, AbortDuplicate, RefuseWalletPay, Rollback
<1>8. QED
  BY <1>2, <1>3, <1>4, <1>5, <1>6, <1>7 DEF Acts, Step

\* When the callers of one user take turns, the audit trail of every order is
\* a path through the statuses it really had.
THEOREM SerialChainsAudit == SerialSpec => []AuditChained
<1>1. Init => TrailInv
  BY DEF Init, TrailInv, Trails, Unlogged, Idle
<1>2. TypeOK /\ SerialInv /\ OneCallerPerUser /\ OneCallerPerUser' /\ TrailInv /\ [Next]_vars
        => TrailInv'
  <2> SUFFICES ASSUME TypeOK, SerialInv, OneCallerPerUser, OneCallerPerUser', TrailInv,
                      [Next]_vars
               PROVE  TrailInv'
    OBVIOUS
  <2>1. ASSUME NEW p \in Procs, Acts(p) PROVE TrailInv'
    <3>1. (\A o \in Orders : Trails(events'[o], status'[o])) /\ Unlogged(p)'
      BY <2>1, TrailStep
    <3>2. ASSUME NEW q \in Procs \ {p}, tx'[q].phase = "logging" PROVE Unlogged(q)'
      <4>1. tx'[q] = tx[q] /\ (Open(q) => Untouched(OrderOf(q)))
        BY <2>1, OthersUntouched
      <4>2. Untouched(OrderOf(q)) /\ Unlogged(q)
        BY <3>2, <4>1, PhaseOpen DEF TrailInv
      <4>3. QED
        BY <3>2, <4>1, <4>2 DEF Unlogged, Untouched, OrderOf
    <3>3. QED
      BY <3>1, <3>2 DEF TrailInv, Trails, Unlogged
  <2>2. CASE UNCHANGED vars
    BY <2>2 DEF vars, TrailInv, Trails, Unlogged, OrderOf
  <2>3. QED
    BY <2>1, <2>2, NextActs
<1>3. TrailInv => AuditChained
  BY DEF TrailInv, Trails, AuditChained
<1>4. QED
  BY <1>1, <1>2, <1>3, SerialAlways, SerialTurns, PTL DEF Spec
-----------------------------------------------------------------------------
(* The refinement of SettleOnce.                                             *)

\* How a status write looks to the abstract specification.
LEMMA OutcomeWrite ==
  ASSUME TypeOK, NEW o \in Orders, NEW s, status' = [status EXCEPT ![o] = s]
  PROVE  Outcome' = [Outcome EXCEPT ![o] = OutcomeOf(s)]
<1>1. status'[o] = s /\ \A r \in Orders \ {o} : status'[r] = status[r]
  BY DEF TypeOK
<1>2. Outcome' = [r \in Orders |-> OutcomeOf(status'[r])]
  BY DEF Outcome, OutcomeOf, IsSettled
<1>3. \A r \in Orders : OutcomeOf(status'[r]) = IF r = o THEN OutcomeOf(s) ELSE Outcome[r]
  BY <1>1 DEF Outcome
<1>4. [Outcome EXCEPT ![o] = OutcomeOf(s)]
        = [r \in Orders |-> IF r = o THEN OutcomeOf(s) ELSE Outcome[r]]
  BY DEF Outcome
<1>5. QED
  BY <1>2, <1>3, <1>4

\* The credits of a wallet after a ledger row was added.
LEMMA CreditRows ==
  ASSUME TypeOK, NEW p \in Procs, Open(p), NEW after \in Nat,
         NEW entry \in {"CREDIT", "DEBIT"}, MoveFunds(p, entry, after)
  PROVE  \A o \in Orders :
            Booked(o, "CREDIT")' <=>
              Booked(o, "CREDIT") \/ (entry = "CREDIT" /\ o = OrderOf(p))
<1> DEFINE u == Payer(p)
           row == [order |-> OrderOf(p), entry |-> entry,
                   before |-> tx[p].seen.balance, after |-> after]
<1>1. u \in Users /\ OrderOf(p) \in Orders /\ row \in Entry
  BY OpenType DEF Entry
<1>2. ledger[u] \in Seq(Entry) /\ ledger' = [ledger EXCEPT ![u] = Append(@, row)]
  BY <1>1 DEF MoveFunds, TypeOK
<1>3. ledger'[u] = Append(ledger[u], row) /\ \A v \in Users \ {u} : ledger'[v] = ledger[v]
  BY <1>1, <1>2 DEF TypeOK
<1>4. /\ DOMAIN ledger'[u] = 1..(Len(ledger[u]) + 1)
      /\ DOMAIN ledger[u] = 1..Len(ledger[u])
      /\ Len(ledger[u]) \in Nat
      /\ \A i \in DOMAIN ledger[u] : ledger'[u][i] = ledger[u][i]
      /\ ledger'[u][Len(ledger[u]) + 1] = row
  BY <1>1, <1>2, <1>3
<1>5. row.order = OrderOf(p) /\ row.entry = entry
  OBVIOUS
<1> HIDE DEF row
<1> SUFFICES ASSUME NEW o \in Orders
             PROVE  Booked(o, "CREDIT")' <=>
                      Booked(o, "CREDIT") \/ (entry = "CREDIT" /\ o = OrderOf(p))
  OBVIOUS
<1>6. OwnerOf[o] \in Users /\ (o = OrderOf(p) => OwnerOf[o] = u)
  BY OrderAssumption DEF Payer, OrderOf
<1>7. CASE OwnerOf[o] # u
  BY <1>3, <1>6, <1>7 DEF Booked
<1>8. CASE OwnerOf[o] = u
  <2>1. Booked(o, "CREDIT")' <=>
          \E i \in DOMAIN ledger'[u] : ledger'[u][i].order = o /\ ledger'[u][i].entry = "CREDIT"
    BY <1>8 DEF Booked
  <2>2. \A i : i \in DOMAIN ledger'[u] <=> i \in DOMAIN ledger[u] \/ i = Len(ledger[u]) + 1
    BY <1>4
  <2>3. QED
    BY <1>4, <1>5, <1>8, <2>1, <2>2 DEF Booked
<1>9. QED
  BY <1>7, <1>8

\* Booking one more effect for o, and for no other order.
LEMMA EffectWrite ==
  ASSUME NEW o \in Orders,
         \A r \in Orders \ {o} : EffectCount'[r] = EffectCount[r],
         EffectCount'[o] = EffectCount[o] + 1
  PROVE  EffectCount' = [EffectCount EXCEPT ![o] = @ + 1]
<1>1. EffectCount' = [r \in Orders |-> EffectCount'[r]] /\ DOMAIN EffectCount = Orders
  BY DEF EffectCount, Booked
<1>2. [EffectCount EXCEPT ![o] = @ + 1]
        = [r \in Orders |-> IF r = o THEN EffectCount[o] + 1 ELSE EffectCount[r]]
  BY DEF EffectCount
<1>3. QED
  BY <1>1, <1>2

\* No booking, no abstract effect.
LEMMA EffectQuiet ==
  ASSUME UNCHANGED <<ledger, revenue>>
  PROVE  EffectCount' = EffectCount
  BY DEF EffectCount, Booked

\* A status write that is not a first settlement.
LEMMA PlainRefines ==
  ASSUME NEW w \in Procs, TypeOK, SerialInv, CommitPlain(w)
  PROVE  [Ideal!Next]_(Ideal!vars)
<1> DEFINE o == OrderOf(w)
           cur == status[o]
           new == tx[w].next
<1>1. Open(w) /\ o \in Orders /\ FreshTx(w) /\ new \in Statuses
  BY PhaseOpen, OpenType DEF CommitPlain, SerialInv
<1>2. tx[w].seen.status = cur /\ cur # Absent /\ cur \in Statuses
  BY <1>1 DEF CommitPlain, FreshTx, Snapshot, TypeOK, OrderStatuses
<1>3. /\ ~(IsSettled(cur) /\ ~IsSettled(new))
      /\ IsSettled(new) => IsSettled(cur)
      /\ ~IsSettled(new) => ~(StatusRank[new] < StatusRank[cur])
  BY <1>2 DEF CommitPlain, Decision, Verdict, IsSuccess
<1>4. \/ OutcomeOf(new) = OutcomeOf(cur)
      \/ OutcomeOf(cur) = "open" /\ OutcomeOf(new) = "failed"
  <2>1. CASE IsSettled(new)
    BY <1>2, <1>3, <2>1 DEF OutcomeOf, IsSettled, SettledStatuses, Absent
  <2>2. CASE ~IsSettled(new)
    BY <1>1, <1>2, <1>3, <2>2
       DEF OutcomeOf, IsSettled, SettledStatuses, Absent, Statuses, StatusRank
  <2>3. QED
    BY <2>1, <2>2
<1>5. Outcome' = [Outcome EXCEPT ![o] = OutcomeOf(new)]
  BY <1>1, OutcomeWrite DEF CommitPlain, RecordTransition
<1>6. EffectCount' = EffectCount /\ balance' = balance
  BY EffectQuiet DEF CommitPlain
<1>7. Outcome[o] = OutcomeOf(cur) /\ DOMAIN Outcome = Orders
  BY <1>1 DEF Outcome
<1>8. CASE OutcomeOf(new) = OutcomeOf(cur)
  <2>1. Outcome' = Outcome
    BY <1>1, <1>5, <1>7, <1>8 DEF Outcome
  <2>2. QED
    BY <1>6, <2>1 DEF Ideal!vars
<1>9. CASE OutcomeOf(cur) = "open" /\ OutcomeOf(new) = "failed"
  <2>1. Ideal!Fail(o)
    BY <1>1, <1>5, <1>6, <1>7, <1>9 DEF Ideal!Fail
  <2>2. QED
    BY <1>1, <2>1 DEF Ideal!Next
<1>10. QED
  BY <1>4, <1>8, <1>9

\* The commit of a top-up settles its order,
LEMMA TopupRefines ==
  ASSUME NEW w \in Procs, TypeOK, SerialInv, CommitTopup(w)
  PROVE  Ideal!Next
<1> DEFINE o == OrderOf(w)
           new == tx[w].next
<1>1. Open(w) /\ o \in Orders /\ FreshTx(w) /\ new \in Statuses /\ Payer(w) \in Users
  BY PhaseOpen, OpenType DEF CommitTopup, SerialInv
<1>2. /\ tx[w].seen.status = status[o] /\ tx[w].seen.balance = balance[Payer(w)]
      /\ status[o] # Absent /\ IsSettled(new) /\ ~IsSettled(status[o])
  BY <1>1 DEF CommitTopup, FreshTx, Snapshot, IsSuccess, Payer, OrderOf
<1>3. Outcome' = [Outcome EXCEPT ![o] = "settled"]
  <2>1. Outcome' = [Outcome EXCEPT ![o] = OutcomeOf(new)]
    BY <1>1, OutcomeWrite DEF CommitTopup, RecordTransition
  <2>2. OutcomeOf(new) = "settled"
    BY <1>2 DEF OutcomeOf, IsSettled, SettledStatuses, Absent
  <2>3. QED
    BY <2>1, <2>2
<1>4. Outcome[o] \in {"open", "failed"}
  BY <1>1, <1>2 DEF Outcome, OutcomeOf
<1>5. balance' = [balance EXCEPT ![OwnerOf[o]] = @ + Amount[o]]
  BY <1>1, <1>2 DEF CommitTopup, MoveFunds, Payer, OrderOf
<1>6. EffectCount' = [EffectCount EXCEPT ![o] = @ + 1]
  <2>1. tx[w].seen.balance + Amount[o] \in Nat
    BY <1>1, OpenType
  <2>2. \A r \in Orders : Booked(r, "CREDIT")' <=> Booked(r, "CREDIT") \/ r = o
    BY <1>1, <2>1, CreditRows DEF CommitTopup
  <2>3. KindOf[o] = "TOPUP" /\ ~Booked(o, "CREDIT") /\ revenue' = revenue
    BY DEF CommitTopup
  <2>4. \A r \in Orders : EffectCount'[r] = IF KindOf[r] = "TOPUP"
                                            THEN IF Booked(r, "CREDIT")' THEN 1 ELSE 0
                                            ELSE revenue'[r]
    BY DEF EffectCount
  <2>5. \A r \in Orders : EffectCount[r] = IF KindOf[r] = "TOPUP"
                                           THEN IF Booked(r, "CREDIT") THEN 1 ELSE 0
                                           ELSE revenue[r]
    BY DEF EffectCount
  <2>6. EffectCount[o] = 0 /\ EffectCount'[o] = 1
    BY <1>1, <2>2, <2>3, <2>4, <2>5
  <2>7. \A r \in Orders \ {o} : EffectCount'[r] = EffectCount[r]
    BY <2>2, <2>3, <2>4, <2>5
  <2>8. QED
    BY <1>1, <2>6, <2>7, EffectWrite
<1>7. Ideal!Settle(o)
  BY <1>3, <1>4, <1>5, <1>6 DEF Ideal!Settle, CommitTopup
<1>8. QED
  BY <1>1, <1>7 DEF Ideal!Next

\* so is that of a test payment,
LEMMA TestPaymentRefines ==
  ASSUME NEW w \in Procs, TypeOK, SerialInv, CommitTestPayment(w)
  PROVE  Ideal!Next
<1> DEFINE o == OrderOf(w)
           new == tx[w].next
<1>1. Open(w) /\ o \in Orders /\ FreshTx(w) /\ new \in Statuses
  BY PhaseOpen, OpenType DEF CommitTestPayment, SerialInv
<1>2. /\ tx[w].seen = Snapshot(o) /\ tx[w].seen.status = status[o]
      /\ status[o] # Absent /\ IsSettled(new) /\ ~IsSettled(status[o])
  BY <1>1 DEF CommitTestPayment, FreshTx, Snapshot, IsSuccess
<1>3. Outcome' = [Outcome EXCEPT ![o] = "settled"]
  <2>1. Outcome' = [Outcome EXCEPT ![o] = OutcomeOf(new)]
    BY <1>1, OutcomeWrite DEF CommitTestPayment, RecordTransition
  <2>2. OutcomeOf(new) = "settled"
    BY <1>2 DEF OutcomeOf, IsSettled, SettledStatuses, Absent
  <2>3. QED
    BY <2>1, <2>2
<1>4. Outcome[o] \in {"open", "failed"}
  BY <1>1, <1>2 DEF Outcome, OutcomeOf
<1>5. EffectCount' = [EffectCount EXCEPT ![o] = @ + 1]
  <2>1. revenue[o] = 0 /\ KindOf[o] = "TEST" /\ ledger' = ledger
    BY <1>1, <1>2 DEF SerialInv, UnsettledIsUnbooked, CommitTestPayment
  <2>2. revenue'[o] = 1 /\ \A r \in Orders \ {o} : revenue'[r] = revenue[r]
    BY <1>1, <1>2, SideEffectsOnce DEF CommitTestPayment, SerialInv
  <2>3. EffectCount[o] = 0 /\ EffectCount'[o] = 1
    BY <1>1, <2>1, <2>2 DEF EffectCount
  <2>4. \A r \in Orders \ {o} : EffectCount'[r] = EffectCount[r]
    BY <2>1, <2>2 DEF EffectCount, Booked
  <2>5. QED
    BY <1>1, <2>3, <2>4, EffectWrite
<1>6. Ideal!Settle(o)
  BY <1>3, <1>4, <1>5 DEF Ideal!Settle, CommitTestPayment
<1>7. QED
  BY <1>1, <1>6 DEF Ideal!Next

\* and a wallet payment places and settles its order in one step.
LEMMA WalletPayRefines ==
  ASSUME NEW w \in Procs, TypeOK, SerialInv, CommitWalletPay(w)
  PROVE  Ideal!Next
<1> DEFINE o == OrderOf(w)
<1>1. Open(w) /\ o \in Orders /\ FreshTx(w) /\ Payer(w) \in Users
  BY PhaseOpen, OpenType DEF CommitWalletPay, SerialInv
<1>2. /\ tx[w].seen = Snapshot(o) /\ tx[w].seen.balance = balance[OwnerOf[o]]
      /\ status[o] = Absent /\ KindOf[o] = "WALLET"
  BY <1>1 DEF CommitWalletPay, FreshTx, Snapshot
<1>3. Outcome' = [Outcome EXCEPT ![o] = "settled"]
  <2>1. Outcome' = [Outcome EXCEPT ![o] = OutcomeOf("SUCCESS")]
    BY <1>1, OutcomeWrite DEF CommitWalletPay
  <2>2. OutcomeOf("SUCCESS") = "settled"
    BY DEF OutcomeOf, IsSettled, SettledStatuses, Absent
  <2>3. QED
    BY <2>1, <2>2
<1>4. Outcome[o] = "none"
  BY <1>1, <1>2 DEF Outcome, OutcomeOf, IsSettled, SettledStatuses, Absent
<1>5. /\ balance' = [balance EXCEPT ![OwnerOf[o]] = @ - Amount[o]]
      /\ balance[OwnerOf[o]] >= Amount[o]
  BY <1>1, <1>2 DEF CommitWalletPay, MoveFunds, Payer, OrderOf, Covered
<1>6. EffectCount' = [EffectCount EXCEPT ![o] = @ + 1]
  <2>1. revenue[o] = 0
    BY <1>1, <1>2 DEF SerialInv, UnsettledIsUnbooked, IsSettled, SettledStatuses, Absent
  <2>2. revenue'[o] = 1 /\ \A r \in Orders \ {o} : revenue'[r] = revenue[r]
    BY <1>1, <1>2, SideEffectsOnce DEF CommitWalletPay, SerialInv
  <2>3. tx[w].seen.balance - Amount[o] \in Nat
    BY <1>1, OpenType DEF CommitWalletPay, Covered
  <2>4. \A r \in Orders : Booked(r, "CREDIT")' <=> Booked(r, "CREDIT")
    BY <1>1, <2>3, CreditRows DEF CommitWalletPay
  <2>5. EffectCount[o] = 0 /\ EffectCount'[o] = 1
    BY <1>1, <1>2, <2>1, <2>2 DEF EffectCount
  <2>6. \A r \in Orders \ {o} : EffectCount'[r] = EffectCount[r]
    <3>1. \A r \in Orders : EffectCount'[r] = IF KindOf[r] = "TOPUP"
                                              THEN IF Booked(r, "CREDIT")' THEN 1 ELSE 0
                                              ELSE revenue'[r]
      BY DEF EffectCount
    <3>2. \A r \in Orders : EffectCount[r] = IF KindOf[r] = "TOPUP"
                                             THEN IF Booked(r, "CREDIT") THEN 1 ELSE 0
                                             ELSE revenue[r]
      BY DEF EffectCount
    <3>3. QED
      BY <2>2, <2>4, <3>1, <3>2
  <2>7. QED
    BY <1>1, <2>5, <2>6, EffectWrite
<1>7. Ideal!PayFromWallet(o)
  BY <1>2, <1>3, <1>4, <1>5, <1>6 DEF Ideal!PayFromWallet
<1>8. QED
  BY <1>1, <1>7 DEF Ideal!Next

\* When the callers of one user take turns, the snapshot-reading, lock-taking
\* transactions of PaymentsService implement SettleOnce: every order is settled at most once,
\* its effect is booked in the same step, and the wallet moves by exactly the
\* order's amount.
THEOREM SerialRefines == SerialSpec => IdealSpec
<1>1. Init => Ideal!Init
  <2> SUFFICES ASSUME Init PROVE Ideal!Init
    OBVIOUS
  <2>1. Outcome = [o \in Orders |-> "none"]
    BY DEF Init, Outcome, OutcomeOf, IsSettled, SettledStatuses, Absent
  <2>2. EffectCount = [o \in Orders |-> 0]
    BY OrderAssumption DEF Init, EffectCount, Booked
  <2>3. QED
    BY <2>1, <2>2 DEF Init, Ideal!Init
<1>2. TypeOK /\ SerialInv /\ [Next]_vars => [Ideal!Next]_(Ideal!vars)
  <2> SUFFICES ASSUME TypeOK, SerialInv, [Next]_vars PROVE [Ideal!Next]_(Ideal!vars)
    OBVIOUS
  <2>1. CASE UNCHANGED <<status, ledger, revenue, balance>>
    BY <2>1, EffectQuiet DEF Ideal!vars, Outcome, OutcomeOf, IsSettled
  <2>2. ASSUME NEW w \in Procs, NEW o \in Orders, CreateOrder(w, o) PROVE Ideal!Next
    <3>1. Outcome' = [Outcome EXCEPT ![o] = "open"]
      <4>1. Outcome' = [Outcome EXCEPT ![o] = OutcomeOf("PENDING")]
        BY <2>2, OutcomeWrite DEF CreateOrder
      <4>2. OutcomeOf("PENDING") = "open"
        BY DEF OutcomeOf, IsSettled, SettledStatuses, Absent
      <4>3. QED
        BY <4>1, <4>2
    <3>2. Outcome[o] = "none" /\ EffectCount' = EffectCount
      BY <2>2, EffectQuiet
         DEF CreateOrder, Outcome, OutcomeOf, IsSettled, SettledStatuses, Absent
    <3>3. Ideal!Place(o)
      BY <2>2, <3>1, <3>2 DEF CreateOrder, Ideal!Place
    <3>4. QED
      BY <3>3 DEF Ideal!Next
  <2>3. ASSUME NEW w \in Procs, CommitPlain(w) PROVE [Ideal!Next]_(Ideal!vars)
    BY <2>3, PlainRefines
  <2>4. ASSUME NEW w \in Procs, CommitTopup(w) PROVE [Ideal!Next]_(Ideal!vars)
    BY <2>4, TopupRefines
  <2>5. ASSUME NEW w \in Procs, CommitTestPayment(w) PROVE [Ideal!Next]_(Ideal!vars)
    BY <2>5, TestPaymentRefines
  <2>6. ASSUME NEW w \in Procs, CommitWalletPay(w) PROVE [Ideal!Next]_(Ideal!vars)
    BY <2>6, WalletPayRefines
  <2>7. QED
    BY <2>1, <2>2, <2>3, <2>4, <2>5, <2>6
       DEF Next, Step, Finished, vars, business, Advance, LogCreation, BeginTransition,
           LockOrder, Refuse, LockWallet, AbortDuplicate, PrecheckWallet, BeginWalletPay,
           LockPayingWallet, RefuseWalletPay, Rollback
<1>3. QED
  BY <1>1, <1>2, SerialAlways, SerialTurns, PTL DEF Spec, IdealSpec, Ideal!Spec
=============================================================================
