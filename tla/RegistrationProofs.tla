------------------------- MODULE RegistrationProofs -------------------------
(***************************************************************************)
(* Proofs about Registration, for any number of requests, applicants,      *)
(* pending registrations and places.                                       *)
(***************************************************************************)
EXTENDS Registration, FiniteSetTheorems, TLAPS

\* What a request must find when it goes on with record r.
Fits(r) ==
    /\ r.at = "limit" => r.read \in 1..MaxLimit
    /\ r.at = "wrong" => r.read < MaxAttempts
    /\ r.at \in {"wrong", "right", "consume"} => r.row \in 1..made
    /\ r.at \in {"insert", "register", "profile"} => r.who \in Applicants
    /\ r.at = "profile" => r.read \in 1..Len(address)
    /\ r.at = "register" => r.row \in {NoRow} \cup 1..made
-----------------------------------------------------------------------------
(* Types.                                                                    *)

\* One request moves on.
LEMMA Going ==
    ASSUME RequestsOK, made \in Nat, NEW p \in Procs, NEW r \in PcRecords, Fits(r), Go(p, r),
           requests' \in 0..MaxRequests, made' \in Nat, made' >= made,
           Len(address) \in Nat, Len(address') \in Nat, Len(address') >= Len(address)
    PROVE  RequestsOK'
  <1>1. pc' \in [Procs -> PcRecords] /\ pc'[p] = r /\ \A q \in Procs \ {p} : pc'[q] = pc[q]
    BY DEF RequestsOK, Go
  <1>2. 1..made \subseteq 1..made' /\ 1..Len(address) \subseteq 1..Len(address')
    OBVIOUS
  <1>3. ASSUME NEW q \in Procs
        PROVE  /\ At(q, "limit")' => pc'[q].read \in 1..MaxLimit
               /\ At(q, "wrong")' => pc'[q].read < MaxAttempts
               /\ pc'[q].at \in {"wrong", "right", "consume"} => pc'[q].row \in 1..made'
               /\ pc'[q].at \in {"insert", "register", "profile"} => pc'[q].who \in Applicants
               /\ At(q, "profile")' => pc'[q].read \in 1..Len(address')
               /\ At(q, "register")' => pc'[q].row \in {NoRow} \cup 1..made'
    <2>1. CASE q = p
      BY <2>1, <1>1, <1>2 DEF Fits, At
    <2>2. CASE q # p
      BY <2>2, <1>1, <1>2 DEF RequestsOK, At
    <2> QED
      BY <2>1, <2>2
  <1> QED
    BY <1>1, <1>3 DEF RequestsOK

\* A request begins.
LEMMA Starting ==
    ASSUME TypeOK, NEW p \in Procs, NEW r \in PcRecords, Fits(r), Start(p, r), made' = made, address' = address
    PROVE  RequestsOK'
  <1>1. requests' \in 0..MaxRequests
    BY RegistrationAssumption DEF TypeOK, RequestsOK, Start, Receive
  <1>2. made \in Nat /\ Len(address) \in Nat
    BY RegistrationAssumption DEF TypeOK, PendingOK, AccountsOK
  <1> QED
    BY <1>1, <1>2, Going DEF TypeOK, Start

\* A request ends.
LEMMA Ending ==
    ASSUME TypeOK, NEW p \in Procs, Go(p, Idle), UNCHANGED <<made, requests, address>>
    PROVE  RequestsOK'
  <1>1. Idle \in PcRecords /\ Fits(Idle)
    BY DEF Idle, PcRecords, Steps, Fits
  <1>2. made \in Nat /\ Len(address) \in Nat
    BY RegistrationAssumption DEF TypeOK, PendingOK, AccountsOK
  <1> QED
    BY <1>1, <1>2, Going DEF TypeOK, RequestsOK

\* What the record of a request holds.
LEMMA Records ==
    ASSUME TypeOK, NEW p \in Procs
    PROVE  /\ pc[p].read \in Nat
           /\ 1..made \subseteq Rows /\ made \in Nat /\ NoRow \notin 1..made
           /\ pc[p].at \in {"wrong", "right", "consume"} => pc[p].row \in Rows
           /\ pc[p] \in PcRecords
  <1>1. 1..made \subseteq Rows /\ made \in Nat /\ NoRow \notin 1..made
    BY RegistrationAssumption DEF TypeOK, PendingOK, Rows, NoRow
  <1>2. pc[p] \in PcRecords
    BY DEF TypeOK, RequestsOK
  <1> QED
    BY <1>1, <1>2 DEF TypeOK, RequestsOK, PcRecords

\* There are finitely many requests under way.
LEMMA RegisteringFinite == IsFiniteSet(Registering) /\ Cardinality(Registering) \in Nat
  <1>1. IsFiniteSet(Registering)
    BY RegistrationAssumption, FS_Subset DEF Registering
  <1> QED
    BY <1>1, FS_CardinalityType
\* Every step keeps the state well-typed.
LEMMA TypeStep == TypeOK /\ [Next]_vars => TypeOK'
  <1> SUFFICES ASSUME TypeOK, [Next]_vars PROVE TypeOK'
    OBVIOUS
  <1>0. made \in Nat /\ 1..made \subseteq Rows
    BY RegistrationAssumption DEF TypeOK, PendingOK, Rows
  <1>1. ASSUME NEW p \in Procs, NEW e \in Applicants, BeginStart(p, e) PROVE TypeOK'
    <2> DEFINE x == [Idle EXCEPT !.at = "insert", !.who = e]
    <2>1. x \in PcRecords /\ Fits(x)
      BY <1>1, <1>0 DEF BeginStart, Open, Idle, PcRecords, Steps, Fits, TypeOK, PendingOK
    <2>2. RequestsOK'
      BY <1>1, <2>1, Starting DEF BeginStart, pending, accounts
    <2>3. PendingOK' /\ AccountsOK' /\ HistoryOK'
      BY <1>1 DEF BeginStart, accounts, history, origins, TypeOK, PendingOK, AccountsOK, HistoryOK
    <2> QED
      BY <2>2, <2>3 DEF TypeOK
  <1>2. ASSUME NEW p \in Procs, Insert(p) PROVE TypeOK'
    <2>1. made' = made + 1 /\ made' \in 0..MaxRows /\ made + 1 \in Rows
      BY <1>2, <1>0, RegistrationAssumption DEF Insert, TypeOK, PendingOK, Rows
    <2>2. pc[p].who \in Applicants
      BY <1>2 DEF Insert, TypeOK, RequestsOK, At
    <2>3. Idle \in PcRecords /\ Fits(Idle)
      BY DEF Idle, PcRecords, Steps, Fits
    <2>4. RequestsOK'
      BY <1>2, <1>0, <2>1, <2>3, Going DEF Insert, TypeOK, RequestsOK, accounts
    <2>5. 1..made \subseteq 1..made' /\ 1..made' = 1..made \cup {made + 1}
      BY <1>0, <2>1
    <2>6. \A r \in 1..made' : owner'[r] \in Applicants
      BY <1>2, <1>0, <2>1, <2>2, <2>5 DEF Insert, TypeOK, PendingOK
    <2>7. PendingOK'
      BY <1>2, <2>1, <2>2, <2>5, <2>6 DEF Insert, TypeOK, PendingOK
    <2>8. AccountsOK' /\ HistoryOK'
      BY <1>2 DEF Insert, accounts, history, origins, TypeOK, AccountsOK, HistoryOK
    <2> QED
      BY <2>4, <2>7, <2>8 DEF TypeOK
  <1>3. ASSUME NEW r \in Rows, Close(r) PROVE TypeOK'
    BY <1>3 DEF Close, Open, accounts, history, origins, TypeOK, PendingOK, AccountsOK, RequestsOK, HistoryOK, At
  <1>4. ASSUME NEW p \in Procs, NEW r \in Rows, NEW right \in BOOLEAN, BeginVerify(p, r, right) PROVE TypeOK'
    <2> DEFINE x == [Idle EXCEPT !.at = IF right THEN "right" ELSE "wrong",
                                 !.row = r, !.read = attempts[r]]
    <2>1. attempts[r] \in Nat /\ attempts[r] < MaxAttempts /\ r \in 1..made
      BY <1>4 DEF BeginVerify, Open, TypeOK, PendingOK
    <2>2. x \in PcRecords /\ Fits(x)
      BY <2>1 DEF Idle, PcRecords, Steps, Fits
    <2>3. RequestsOK'
      BY <1>4, <2>2, Starting DEF BeginVerify, pending, accounts
    <2>4. overlapped' \subseteq Rows
      BY <1>4 DEF BeginVerify, Note, TypeOK, HistoryOK
    <2>5. proven' \subseteq Applicants
      BY <1>4, <2>1 DEF BeginVerify, TypeOK, PendingOK, HistoryOK
    <2>6. PendingOK' /\ AccountsOK' /\ HistoryOK'
      BY <1>4, <2>4, <2>5 DEF BeginVerify, pending, accounts, TypeOK, PendingOK, AccountsOK, HistoryOK
    <2> QED
      BY <2>3, <2>6 DEF TypeOK
  <1>5. ASSUME NEW p \in Procs, CountAttempt(p) PROVE TypeOK'
    <2>1. pc[p].row \in Rows /\ pc[p].read + 1 \in 0..MaxAttempts
      BY <1>5, Records, RegistrationAssumption DEF CountAttempt, TypeOK, RequestsOK, At
    <2>2. RequestsOK'
      BY <1>5, Ending DEF CountAttempt, accounts
    <2>3. PendingOK'
      BY <1>5, <2>1 DEF CountAttempt, TypeOK, PendingOK
    <2>4. AccountsOK' /\ HistoryOK'
      BY <1>5, <2>1 DEF CountAttempt, accounts, TypeOK, AccountsOK, HistoryOK, origins
    <2> QED
      BY <2>2, <2>3, <2>4 DEF TypeOK
  <1>6. ASSUME NEW p \in Procs, MarkVerified(p) PROVE TypeOK'
    <2>1. pc[p].row \in 1..made
      BY <1>6 DEF MarkVerified, TypeOK, RequestsOK, At
    <2>2. RequestsOK'
      BY <1>6, Ending DEF MarkVerified, accounts
    <2>3. PendingOK' /\ AccountsOK' /\ HistoryOK'
      BY <1>6, <2>1 DEF MarkVerified, accounts, history, origins, TypeOK, PendingOK, AccountsOK, HistoryOK
    <2> QED
      BY <2>2, <2>3 DEF TypeOK
  <1>7. ASSUME NEW r \in Rows, Resend(r) PROVE TypeOK'
    <2>1. requests' \in 0..MaxRequests
      BY <1>7, RegistrationAssumption DEF Resend, Receive, TypeOK, RequestsOK
    <2>2. RequestsOK'
      BY <1>7, <2>1 DEF Resend, accounts, TypeOK, RequestsOK, At
    <2>3. PendingOK'
      BY <1>7, RegistrationAssumption DEF Resend, TypeOK, PendingOK
    <2>4. overlapped' \subseteq Rows
      BY <1>7 DEF Resend, Note, TypeOK, HistoryOK
    <2>5. AccountsOK' /\ HistoryOK'
      BY <1>7, <2>4 DEF Resend, accounts, TypeOK, AccountsOK, HistoryOK, origins
    <2> QED
      BY <2>2, <2>3, <2>5 DEF TypeOK
  <1>8. ASSUME NEW p \in Procs, NEW r \in Rows, BeginComplete(p, r) PROVE TypeOK'
    <2> DEFINE x == [Idle EXCEPT !.at = "register", !.row = r, !.who = owner[r]]
    <2>1. x \in PcRecords /\ Fits(x)
      BY <1>8, <1>0 DEF BeginComplete, Open, Idle, PcRecords, Steps, Fits, TypeOK, PendingOK
    <2>2. RequestsOK'
      BY <1>8, <2>1, Starting DEF BeginComplete, pending, accounts
    <2>3. crowd' \in Nat
      BY <1>8, RegisteringFinite DEF BeginComplete, Crowd, TypeOK, HistoryOK
    <2>4. PendingOK' /\ AccountsOK' /\ HistoryOK'
      BY <1>8, <2>3 DEF BeginComplete, pending, accounts, TypeOK, PendingOK, AccountsOK, HistoryOK, origins
    <2> QED
      BY <2>2, <2>4 DEF TypeOK
  <1>9. ASSUME NEW p \in Procs, NEW e \in Applicants, BeginRegister(p, e) PROVE TypeOK'
    <2> DEFINE x == [Idle EXCEPT !.at = "register", !.who = e]
    <2>1. x \in PcRecords /\ Fits(x)
      BY <1>9, <1>0 DEF BeginRegister, Open, Idle, PcRecords, Steps, Fits, TypeOK, PendingOK
    <2>2. RequestsOK'
      BY <1>9, <2>1, Starting DEF BeginRegister, pending, accounts
    <2>3. crowd' \in Nat
      BY <1>9, RegisteringFinite DEF BeginRegister, Crowd, TypeOK, HistoryOK
    <2>4. PendingOK' /\ AccountsOK' /\ HistoryOK'
      BY <1>9, <2>3 DEF BeginRegister, pending, accounts, TypeOK, PendingOK, AccountsOK, HistoryOK, origins
    <2> QED
      BY <2>2, <2>4 DEF TypeOK
  <1>10. ASSUME NEW p \in Procs, Register(p) PROVE TypeOK'
    <2>1. pc[p].who \in Applicants /\ pc[p] \in PcRecords
      BY <1>10 DEF Register, TypeOK, RequestsOK, At
    <2>0. /\ address' \in Seq(Applicants) /\ Len(address') = Len(address) + 1 /\ Len(address) \in Nat
          /\ registered' \in Seq(Applicants) /\ Len(registered') = Len(registered) + 1
      BY <1>10, <2>1 DEF Register, TypeOK, AccountsOK, HistoryOK
    <2>2. RequestsOK'
      <3>3. Idle \in PcRecords /\ Fits(Idle)
        BY DEF Idle, PcRecords, Steps, Fits
      <3>1. CASE pc[p].row = NoRow
        BY <1>10, <1>0, <2>0, <3>1, <3>3, Going DEF Register, pending, TypeOK, RequestsOK
      <3>2. CASE pc[p].row # NoRow
        <4> DEFINE x == [pc[p] EXCEPT !.at = "consume"]
        <4>1. pc[p].row \in 1..made
          BY <1>10, <3>2 DEF Register, TypeOK, RequestsOK, At
        <4>2. x \in PcRecords /\ Fits(x)
          BY <2>1, <4>1 DEF PcRecords, Steps, Fits
        <4> QED
          BY <1>10, <1>0, <2>0, <3>2, <4>2, Going DEF Register, pending, TypeOK, RequestsOK
      <3> QED
        BY <3>1, <3>2
    <2>3. PendingOK'
      BY <1>10 DEF Register, pending, TypeOK, PendingOK
    <2>4. AccountsOK' /\ HistoryOK'
      BY <1>10, <2>0 DEF Register, TypeOK, AccountsOK, HistoryOK
    <2> QED
      BY <2>2, <2>3, <2>4 DEF TypeOK
  <1>11. ASSUME NEW p \in Procs, Consume(p) PROVE TypeOK'
    <2>1. pc[p].row \in 1..made
      BY <1>11 DEF Consume, TypeOK, RequestsOK, At
    <2>2. RequestsOK'
      BY <1>11, Ending DEF Consume, accounts
    <2>3. PendingOK' /\ AccountsOK' /\ HistoryOK'
      BY <1>11, <2>1 DEF Consume, accounts, history, origins, TypeOK, PendingOK, AccountsOK, HistoryOK
    <2> QED
      BY <2>2, <2>3 DEF TypeOK
  <1>12. ASSUME NEW p \in Procs, NEW n \in 1..MaxLimit, BeginLimit(p, n) PROVE TypeOK'
    <2> DEFINE x == [Idle EXCEPT !.at = "limit", !.read = n]
    <2>0. n \in Nat
      BY RegistrationAssumption
    <2>1. x \in PcRecords /\ Fits(x)
      BY <2>0 DEF Idle, PcRecords, Steps, Fits
    <2>2. RequestsOK'
      BY <1>12, <2>1, Starting DEF BeginLimit, pending, accounts
    <2>3. PendingOK' /\ AccountsOK' /\ HistoryOK'
      BY <1>12 DEF BeginLimit, pending, accounts, history, origins, TypeOK, PendingOK, AccountsOK, HistoryOK
    <2> QED
      BY <2>2, <2>3 DEF TypeOK
  <1>13. ASSUME NEW p \in Procs, WriteLimit(p) PROVE TypeOK'
    <2>1. RequestsOK'
      BY <1>13, Ending DEF WriteLimit, pending, accounts
    <2>2. pc[p].read \in 1..MaxLimit
      BY <1>13 DEF WriteLimit, TypeOK, RequestsOK
    <2>3. undercut' \in BOOLEAN
      BY <1>13 DEF WriteLimit
    <2>4. PendingOK' /\ AccountsOK' /\ HistoryOK'
      BY <1>13, <2>2, <2>3 DEF WriteLimit, pending, accounts, TypeOK, PendingOK, AccountsOK, HistoryOK, origins
    <2> QED
      BY <2>1, <2>4 DEF TypeOK
  <1>14. ASSUME NEW p \in Procs, Break(p) PROVE TypeOK'
    <2>1. RequestsOK'
      BY <1>14, Ending DEF Break, pending, accounts
    <2>2. PendingOK' /\ AccountsOK' /\ HistoryOK'
      BY <1>14 DEF Break, pending, accounts, history, origins, TypeOK, PendingOK, AccountsOK, HistoryOK
    <2> QED
      BY <2>1, <2>2 DEF TypeOK
  <1>15. ASSUME NEW p \in Procs, NEW a \in DOMAIN address, NEW e \in Applicants, BeginProfile(p, a, e)
         PROVE  TypeOK'
    <2> DEFINE x == [Idle EXCEPT !.at = "profile", !.read = a, !.who = e]
    <2>1. a \in 1..Len(address) /\ a \in Nat
      BY DEF TypeOK, AccountsOK
    <2>2. x \in PcRecords /\ Fits(x)
      BY <2>1 DEF Idle, PcRecords, Steps, Fits
    <2>3. RequestsOK'
      BY <1>15, <2>2, Starting DEF BeginProfile, pending, accounts
    <2>4. PendingOK' /\ AccountsOK' /\ HistoryOK'
      BY <1>15 DEF BeginProfile, pending, accounts, history, origins, TypeOK, PendingOK, AccountsOK, HistoryOK
    <2> QED
      BY <2>3, <2>4 DEF TypeOK
  <1>16. ASSUME NEW p \in Procs, WriteProfile(p) PROVE TypeOK'
    <2>1. pc[p].read \in 1..Len(address) /\ pc[p].who \in Applicants
      BY <1>16 DEF WriteProfile, TypeOK, RequestsOK, At
    <2>2. address' \in Seq(Applicants) /\ Len(address') = Len(address) /\ Len(address) \in Nat
      BY <1>16, <2>1 DEF WriteProfile, TypeOK, AccountsOK
    <2>3. Idle \in PcRecords /\ Fits(Idle) /\ Go(p, Idle) /\ UNCHANGED <<made, requests>>
      BY <1>16 DEF WriteProfile, pending, Idle, PcRecords, Steps, Fits
    <2>4. RequestsOK'
      BY <1>0, <2>2, <2>3, Going DEF TypeOK, RequestsOK
    <2>5. PendingOK'
      BY <1>16 DEF WriteProfile, pending, TypeOK, PendingOK
    <2>6. AccountsOK' /\ HistoryOK'
      BY <1>16, <2>1, <2>2 DEF WriteProfile, TypeOK, AccountsOK, HistoryOK
    <2> QED
      BY <2>4, <2>5, <2>6 DEF TypeOK
  <1>17. CASE UNCHANGED vars
    BY <1>17 DEF TypeOK, PendingOK, AccountsOK, RequestsOK, HistoryOK, At, vars, pending,
       accounts, history, origins
  <1> QED
    BY <1>1, <1>2, <1>3, <1>4, <1>5, <1>6, <1>7, <1>8, <1>9, <1>10, <1>11, <1>12, <1>13, <1>14,
       <1>15, <1>16, <1>17 DEF Next, Request, Step

\* Nobody has registered yet.
LEMMA TypeInit == Init => TypeOK
  <1> SUFFICES ASSUME Init PROVE TypeOK
    OBVIOUS
  <1>1. Idle \in PcRecords
    BY DEF Idle, PcRecords, Steps
  <1>2. RequestsOK
    BY <1>1, RegistrationAssumption DEF Init, RequestsOK, Idle, At
  <1>3. PendingOK
    <2>1. made = 0 /\ 1..made = {}
      BY DEF Init
    <2> QED
      BY <2>1, RegistrationAssumption DEF Init, PendingOK
  <1>4. AccountsOK /\ HistoryOK
    <2>1. address = <<>> /\ registered = <<>> /\ Len(address) = 0 /\ Len(registered) = 0
      BY DEF Init
    <2>2. confirmed = {} /\ moved = {}
      BY DEF Init
    <2> QED
      <3>1. address \in Seq(Applicants) /\ registered \in Seq(Applicants)
        BY <2>1
      <3> QED
        BY <2>1, <2>2, <3>1, RegistrationAssumption DEF Init, AccountsOK, HistoryOK
  <1> QED
    BY <1>2, <1>3, <1>4 DEF TypeOK

\* Every reachable state is well-typed.
THEOREM TypeCorrect == Spec => []TypeOK
  BY TypeInit, TypeStep, PTL DEF Spec
-----------------------------------------------------------------------------
(* Guesses at a code.                                                        *)

Guess(p, r) == pc[p].row = r /\ pc[p].at \in {"wrong", "right"}

\* The attempts of a row are its guesses, and who is about to count one more has
\* read all of them.
Counted ==
    \A r \in Rows \ overlapped :
        /\ guesses[r] = attempts[r]
        /\ \A p, q \in Procs : Guess(p, r) /\ Guess(q, r) => p = q
        /\ \A p \in Procs : Guess(p, r) => pc[p].read = attempts[r]
\* Every step keeps Counted.
LEMMA CountedStep == TypeOK /\ Counted /\ [Next]_vars => Counted'
  <1> SUFFICES ASSUME TypeOK, Counted, [Next]_vars PROVE Counted'
    OBVIOUS
  <1>0. /\ pc \in [Procs -> PcRecords]
        /\ attempts \in [Rows -> 0..MaxAttempts] /\ guesses \in [Rows -> Nat]
        /\ overlapped \subseteq Rows
        /\ \A p \in Procs : pc[p].read \in Nat
    BY Records DEF TypeOK, PendingOK, RequestsOK, HistoryOK
  <1>1. ASSUME NEW p \in Procs, NEW e \in Applicants, BeginStart(p, e) PROVE Counted'
    BY <1>0, <1>1 DEF Counted, Guess, At, BeginStart, Start, Receive, Go, Idle, pending, accounts,
       history, origins
  <1>2. ASSUME NEW p \in Procs, Insert(p) PROVE Counted'
    BY <1>0, <1>2 DEF Counted, Guess, At, Insert, Go, Idle, pending, accounts, history, origins
  <1>3. ASSUME NEW r \in Rows, Close(r) PROVE Counted'
    BY <1>0, <1>3 DEF Counted, Guess, At, Close, Open, pending, accounts, history, origins
  <1>4. ASSUME NEW p \in Procs, NEW r \in Rows, NEW right \in BOOLEAN, BeginVerify(p, r, right) PROVE Counted'
    BY <1>0, <1>4 DEF Counted, Guess, At, BeginVerify, Open, Note, Guessing, Start, Receive, Go,
       Idle, pending, accounts, history, origins
  <1>5. ASSUME NEW p \in Procs, CountAttempt(p) PROVE Counted'
    BY <1>0, <1>5 DEF Counted, Guess, At, CountAttempt, Go, Idle, pending, accounts, history, origins
  <1>6. ASSUME NEW p \in Procs, MarkVerified(p) PROVE Counted'
    BY <1>0, <1>6 DEF Counted, Guess, At, MarkVerified, Go, Idle, pending, accounts, history, origins
  <1>7. ASSUME NEW r \in Rows, Resend(r) PROVE Counted'
    BY <1>0, <1>7 DEF Counted, Guess, At, Resend, Open, Note, Guessing, Receive, pending,
       accounts, history, origins
  <1>8. ASSUME NEW p \in Procs, NEW r \in Rows, BeginComplete(p, r) PROVE Counted'
    BY <1>0, <1>8 DEF Counted, Guess, At, BeginComplete, Open, Crowd, Start, Receive, Go, Idle,
       pending, accounts, history, origins
  <1>9. ASSUME NEW p \in Procs, NEW e \in Applicants, BeginRegister(p, e) PROVE Counted'
    BY <1>0, <1>9 DEF Counted, Guess, At, BeginRegister, Crowd, Start, Receive, Go, Idle, pending,
       accounts, history, origins
  <1>10. ASSUME NEW p \in Procs, Register(p) PROVE Counted'
    BY <1>0, <1>10 DEF Counted, Guess, At, Register, Go, Idle, pending, accounts, history, origins
  <1>11. ASSUME NEW p \in Procs, Consume(p) PROVE Counted'
    BY <1>0, <1>11 DEF Counted, Guess, At, Consume, Go, Idle, pending, accounts, history, origins
  <1>12. ASSUME NEW p \in Procs, NEW n \in 1..MaxLimit, BeginLimit(p, n) PROVE Counted'
    BY <1>0, <1>12 DEF Counted, Guess, At, BeginLimit, Start, Receive, Go, Idle, pending,
       accounts, history, origins
  <1>13. ASSUME NEW p \in Procs, WriteLimit(p) PROVE Counted'
    BY <1>0, <1>13 DEF Counted, Guess, At, WriteLimit, Go, Idle, pending, accounts, history, origins
  <1>14. ASSUME NEW p \in Procs, Break(p) PROVE Counted'
    BY <1>0, <1>14 DEF Counted, Guess, At, Break, Go, Idle, pending, accounts, history, origins
  <1>15. ASSUME NEW p \in Procs, NEW a \in DOMAIN address, NEW e \in Applicants, BeginProfile(p, a, e)
         PROVE  Counted'
    BY <1>0, <1>15 DEF Counted, Guess, At, BeginProfile, Start, Receive, Go, Idle, pending, accounts,
       history, origins
  <1>16. ASSUME NEW p \in Procs, WriteProfile(p) PROVE Counted'
    BY <1>0, <1>16 DEF Counted, Guess, At, WriteProfile, Go, Idle, pending
  <1>17. CASE UNCHANGED vars
    BY <1>17 DEF Counted, Guess, At, vars, pending, accounts, history, origins
  <1> QED
    BY <1>1, <1>2, <1>3, <1>4, <1>5, <1>6, <1>7, <1>8, <1>9, <1>10, <1>11, <1>12, <1>13, <1>14,
       <1>15, <1>16, <1>17 DEF Next, Request, Step

\* As long as guesses overlap neither each other nor a resend, no code can be
\* guessed at wrongly more than MaxAttempts times.
THEOREM GuessesAreLimitedCorrect == Spec => []GuessesAreLimited
  <1>1. Init => Counted
    BY DEF Init, Counted, Guess, Idle
  <1>2. TypeOK /\ Counted => GuessesAreLimited
    BY RegistrationAssumption DEF TypeOK, PendingOK, Counted, GuessesAreLimited
  <1> QED
    BY <1>1, <1>2, TypeCorrect, CountedStep, PTL DEF Spec
-----------------------------------------------------------------------------
(* Confirmed addresses.                                                      *)

\* Whoever verified a registration, or is about to, gave back a code of its
\* address; so did whoever is about to get an account for it.
Proven ==
    /\ \A r \in verified : owner[r] \in proven
    /\ \A p \in Procs : At(p, "right") => owner[pc[p].row] \in proven
    /\ \A p \in Procs : At(p, "register") /\ pc[p].row # NoRow => pc[p].who \in proven
    /\ \A a \in confirmed : /\ registered[a] \in proven
                            /\ a \notin moved => address[a] \in proven
\* Every step keeps Proven.
LEMMA ProvenStep == TypeOK /\ Proven /\ [Next]_vars => Proven'
  <1> SUFFICES ASSUME TypeOK, Proven, [Next]_vars PROVE Proven'
    OBVIOUS
  <1>0. /\ pc \in [Procs -> PcRecords]
        /\ made \in Nat /\ verified \subseteq 1..made /\ made + 1 \notin 1..made
        /\ owner \in [Rows -> Applicants \cup {"none"}]
        /\ \A p \in Procs : At(p, "right") => pc[p].row \in 1..made
        /\ confirmed \subseteq 1..Len(address)
    BY RegistrationAssumption DEF TypeOK, PendingOK, AccountsOK, RequestsOK, At
  <1>1. ASSUME NEW p \in Procs, NEW e \in Applicants, BeginStart(p, e) PROVE Proven'
    BY <1>0, <1>1 DEF Proven, At, BeginStart, Start, Receive, Go, Idle, pending, accounts, history, origins
  <1>2. ASSUME NEW p \in Procs, Insert(p) PROVE Proven'
    BY <1>0, <1>2 DEF Proven, At, Insert, Go, Idle, pending, accounts, history, origins
  <1>3. ASSUME NEW r \in Rows, Close(r) PROVE Proven'
    BY <1>0, <1>3 DEF Proven, At, Close, Open, pending, accounts, history, origins
  <1>4. ASSUME NEW p \in Procs, NEW r \in Rows, NEW right \in BOOLEAN, BeginVerify(p, r, right) PROVE Proven'
    BY <1>0, <1>4 DEF Proven, At, BeginVerify, Open, Note, Guessing, Start, Receive, Go, Idle,
       pending, accounts, history, origins
  <1>5. ASSUME NEW p \in Procs, CountAttempt(p) PROVE Proven'
    BY <1>0, <1>5 DEF Proven, At, CountAttempt, Go, Idle, pending, accounts, history, origins
  <1>6. ASSUME NEW p \in Procs, MarkVerified(p) PROVE Proven'
    BY <1>0, <1>6 DEF Proven, At, MarkVerified, Go, Idle, pending, accounts, history, origins
  <1>7. ASSUME NEW r \in Rows, Resend(r) PROVE Proven'
    BY <1>0, <1>7 DEF Proven, At, Resend, Open, Note, Guessing, Receive, pending, accounts,
       history, origins
  <1>8. ASSUME NEW p \in Procs, NEW r \in Rows, BeginComplete(p, r) PROVE Proven'
    BY <1>0, <1>8 DEF Proven, At, BeginComplete, Open, Crowd, Start, Receive, Go, Idle, pending,
       accounts, history, origins
  <1>9. ASSUME NEW p \in Procs, NEW e \in Applicants, BeginRegister(p, e) PROVE Proven'
    BY <1>0, <1>9 DEF Proven, At, BeginRegister, Crowd, Start, Receive, Go, Idle, pending,
       accounts, history, origins
  <1>10. ASSUME NEW p \in Procs, Register(p) PROVE Proven'
    <2> DEFINE n == Len(address) + 1
    <2>1. pc[p].who \in Applicants
      BY <1>10 DEF Register, TypeOK, RequestsOK, At
    <2>2. /\ address'[n] = pc[p].who /\ \A a \in 1..Len(address) : address'[a] = address[a]
          /\ registered'[n] = pc[p].who /\ \A a \in 1..Len(address) : registered'[a] = registered[a]
      BY <1>10, <2>1 DEF Register, TypeOK, AccountsOK, HistoryOK
    <2>3. ASSUME NEW a \in confirmed'
          PROVE  registered'[a] \in proven' /\ (a \notin moved' => address'[a] \in proven')
      <3>1. CASE a \in confirmed
        BY <1>10, <1>0, <2>2, <3>1 DEF Register, Proven
      <3>2. CASE a \notin confirmed
        <4>1. a = n /\ pc[p].row # NoRow
          BY <1>10, <3>2 DEF Register
        <4> QED
          BY <1>10, <2>2, <4>1 DEF Register, Proven
      <3> QED
        BY <3>1, <3>2
    <2>4. /\ verified' = verified /\ owner' = owner /\ proven' = proven
          /\ \A q \in Procs : pc'[q].at \in {"right", "register"} => pc'[q] = pc[q]
      BY <1>0, <1>10 DEF Register, At, Go, Idle, pending
    <2> QED
      BY <1>0, <2>3, <2>4 DEF Proven, At
  <1>11. ASSUME NEW p \in Procs, Consume(p) PROVE Proven'
    BY <1>0, <1>11 DEF Proven, At, Consume, Go, Idle, pending, accounts, history, origins
  <1>12. ASSUME NEW p \in Procs, NEW n \in 1..MaxLimit, BeginLimit(p, n) PROVE Proven'
    BY <1>0, <1>12 DEF Proven, At, BeginLimit, Start, Receive, Go, Idle, pending, accounts,
       history, origins
  <1>13. ASSUME NEW p \in Procs, WriteLimit(p) PROVE Proven'
    BY <1>0, <1>13 DEF Proven, At, WriteLimit, Go, Idle, pending, accounts, history, origins
  <1>14. ASSUME NEW p \in Procs, Break(p) PROVE Proven'
    BY <1>0, <1>14 DEF Proven, At, Break, Go, Idle, pending, accounts, history, origins
  <1>15. ASSUME NEW p \in Procs, NEW a \in DOMAIN address, NEW e \in Applicants, BeginProfile(p, a, e)
         PROVE  Proven'
    BY <1>0, <1>15 DEF Proven, At, BeginProfile, Start, Receive, Go, Idle, pending, accounts, history, origins
  <1>16. ASSUME NEW p \in Procs, WriteProfile(p) PROVE Proven'
    <2>1. pc[p].read \in 1..Len(address) /\ address \in Seq(Applicants) /\ Len(address) \in Nat
      BY <1>16 DEF WriteProfile, TypeOK, AccountsOK, RequestsOK
    <2>2. \A a \in 1..Len(address) : address'[a] = IF a = pc[p].read THEN pc[p].who ELSE address[a]
      BY <1>16, <2>1 DEF WriteProfile
    <2>3. \A a \in confirmed' : registered'[a] \in proven' /\ (a \notin moved' => address'[a] \in proven')
      BY <1>16, <1>0, <2>2 DEF WriteProfile, Proven
    <2> QED
      BY <1>0, <1>16, <2>3 DEF Proven, At, WriteProfile, Go, Idle, pending
  <1>17. CASE UNCHANGED vars
    BY <1>17 DEF Proven, At, vars, pending, accounts, history, origins
  <1> QED
    BY <1>1, <1>2, <1>3, <1>4, <1>5, <1>6, <1>7, <1>8, <1>9, <1>10, <1>11, <1>12, <1>13, <1>14,
       <1>15, <1>16, <1>17 DEF Next, Request, Step

\* A confirmed account was registered by somebody who gave back a code mailed to
\* its address, and has a proven address unless its profile was updated since.
THEOREM ConfirmedIsProvenCorrect == Spec => []ConfirmedIsProven
  <1>1. Init => Proven
    BY DEF Init, Proven, Idle, At
  <1>2. Proven => ConfirmedIsProven
    BY DEF Proven, ConfirmedIsProven
  <1> QED
    BY <1>1, <1>2, TypeCorrect, ProvenStep, PTL DEF Spec
-----------------------------------------------------------------------------
(* The capacity of the mitra.                                                *)

\* Everybody about to register finds room.
Room ==
    ~undercut => Len(address) + Cardinality(Registering) <= limit + crowd

\* A request that was not about to register is now ...
LEMMA Enters ==
    ASSUME TypeOK, NEW p \in Procs, NEW r, r.at = "register", ~At(p, "register"), Go(p, r)
    PROVE  Cardinality(Registering') = Cardinality(Registering) + 1
  <1>1. Registering' = Registering \cup {p} /\ p \notin Registering
    BY DEF TypeOK, RequestsOK, Registering, At, Go
  <1> QED
    BY <1>1, RegisteringFinite, FS_AddElement

\* ... one that was is not any more ...
LEMMA Leaves ==
    ASSUME TypeOK, NEW p \in Procs, NEW r, r.at # "register", At(p, "register"), Go(p, r)
    PROVE  Cardinality(Registering') = Cardinality(Registering) - 1
  <1>1. Registering' = Registering \ {p} /\ p \in Registering
    BY DEF TypeOK, RequestsOK, Registering, At, Go
  <1> QED
    BY <1>1, RegisteringFinite, FS_RemoveElement

\* ... or it is about something else before and after.
LEMMA Passes ==
    ASSUME TypeOK, NEW p \in Procs, NEW r, r.at # "register", ~At(p, "register"), Go(p, r)
    PROVE  Registering' = Registering
  BY DEF TypeOK, RequestsOK, Registering, At, Go
\* Every step keeps Room.
LEMMA RoomStep == TypeOK /\ Room /\ [Next]_vars => Room'
  <1> SUFFICES ASSUME TypeOK, Room, [Next]_vars PROVE Room'
    OBVIOUS
  <1>0. /\ Len(address) \in Nat /\ Cardinality(Registering) \in Nat
        /\ limit \in Nat /\ crowd \in Nat
        /\ \A p \in Procs : pc[p].read \in Nat
    BY RegisteringFinite, Records, RegistrationAssumption
       DEF TypeOK, AccountsOK, HistoryOK
  <1>1. ASSUME NEW p \in Procs, NEW e \in Applicants, BeginStart(p, e) PROVE Room'
    <2>1. Registering' = Registering
      BY <1>1, Passes DEF BeginStart, Start, Idle, At
    <2> QED
      BY <1>1, <2>1 DEF BeginStart, Room, accounts, history, origins
  <1>2. ASSUME NEW p \in Procs, Insert(p) PROVE Room'
    <2>1. Registering' = Registering
      BY <1>2, Passes DEF Insert, Start, Idle, At
    <2> QED
      BY <1>2, <2>1 DEF Insert, Room, accounts, history, origins
  <1>3. ASSUME NEW r \in Rows, Close(r) PROVE Room'
    BY <1>0, <1>3 DEF Room, Registering, At, Close, Open, pending, accounts, history, origins
  <1>4. ASSUME NEW p \in Procs, NEW r \in Rows, NEW right \in BOOLEAN, BeginVerify(p, r, right) PROVE Room'
    <2> DEFINE x == [Idle EXCEPT !.at = IF right THEN "right" ELSE "wrong",
                                 !.row = r, !.read = attempts[r]]
    <2>1. x.at # "register" /\ Start(p, x)
      BY <1>4 DEF BeginVerify, Idle
    <2>2. Registering' = Registering
      BY <2>1, Passes DEF Start, At
    <2> QED
      BY <1>4, <2>2 DEF BeginVerify, Room, accounts
  <1>5. ASSUME NEW p \in Procs, CountAttempt(p) PROVE Room'
    <2>1. Registering' = Registering
      BY <1>5, Passes DEF CountAttempt, Start, Idle, At
    <2> QED
      BY <1>5, <2>1 DEF CountAttempt, Room, accounts
  <1>6. ASSUME NEW p \in Procs, MarkVerified(p) PROVE Room'
    <2>1. Registering' = Registering
      BY <1>6, Passes DEF MarkVerified, Start, Idle, At
    <2> QED
      BY <1>6, <2>1 DEF MarkVerified, Room, accounts, history, origins
  <1>7. ASSUME NEW r \in Rows, Resend(r) PROVE Room'
    BY <1>0, <1>7 DEF Room, Registering, At, Resend, Open, Note, Guessing, Receive, pending,
       accounts, history, origins
  <1>8. ASSUME NEW p \in Procs, NEW r \in Rows, BeginComplete(p, r) PROVE Room'
    <2> DEFINE x == [Idle EXCEPT !.at = "register", !.row = r, !.who = owner[r]]
    <2>1. x.at = "register" /\ Start(p, x)
      BY <1>8 DEF BeginComplete, Idle
    <2>2. Cardinality(Registering') = Cardinality(Registering) + 1
      BY <2>1, Enters DEF Start, At
    <2>3. Len(address) < limit /\ address' = address /\ limit' = limit
      BY <1>8 DEF BeginComplete, HasCapacity, accounts
    <2>4. crowd' \in Nat /\ crowd' >= Cardinality(Registering)
      BY <1>8, <1>0 DEF BeginComplete, Crowd
    <2> QED
      BY <1>0, <2>2, <2>3, <2>4 DEF Room
  <1>9. ASSUME NEW p \in Procs, NEW e \in Applicants, BeginRegister(p, e) PROVE Room'
    <2> DEFINE x == [Idle EXCEPT !.at = "register", !.who = e]
    <2>1. x.at = "register" /\ Start(p, x)
      BY <1>9 DEF BeginRegister, Idle
    <2>2. Cardinality(Registering') = Cardinality(Registering) + 1
      BY <2>1, Enters DEF Start, At
    <2>3. Len(address) < limit /\ address' = address /\ limit' = limit
      BY <1>9 DEF BeginRegister, HasCapacity, accounts
    <2>4. crowd' \in Nat /\ crowd' >= Cardinality(Registering)
      BY <1>9, <1>0 DEF BeginRegister, Crowd
    <2> QED
      BY <1>0, <2>2, <2>3, <2>4 DEF Room
  <1>10. ASSUME NEW p \in Procs, Register(p) PROVE Room'
    <2> DEFINE x == IF pc[p].row = NoRow THEN Idle ELSE [pc[p] EXCEPT !.at = "consume"]
    <2>1. x.at # "register" /\ Go(p, x)
      BY <1>10, Records DEF Register, Idle, PcRecords
    <2>2. Cardinality(Registering') = Cardinality(Registering) - 1
      BY <1>10, <2>1, Leaves DEF Register
    <2>3. pc[p].who \in Applicants
      BY <1>10 DEF Register, TypeOK, RequestsOK, At
    <2>4. Len(address') = Len(address) + 1
      BY <1>10, <2>3 DEF Register, TypeOK, AccountsOK
    <2>5. UNCHANGED <<limit, undercut, crowd>>
      BY <1>10 DEF Register, history, origins
    <2> QED
      BY <1>0, <2>2, <2>4, <2>5 DEF Room
  <1>11. ASSUME NEW p \in Procs, Consume(p) PROVE Room'
    <2>1. Registering' = Registering
      BY <1>11, Passes DEF Consume, Start, Idle, At
    <2> QED
      BY <1>11, <2>1 DEF Consume, Room, accounts, history, origins
  <1>12. ASSUME NEW p \in Procs, NEW n \in 1..MaxLimit, BeginLimit(p, n) PROVE Room'
    <2>1. Registering' = Registering
      BY <1>12, Passes DEF BeginLimit, Start, Idle, At
    <2> QED
      BY <1>12, <2>1 DEF BeginLimit, Room, accounts, history, origins
  <1>13. ASSUME NEW p \in Procs, WriteLimit(p) PROVE Room'
    <2>1. Registering' = Registering
      BY <1>13, Passes DEF WriteLimit, Idle, At
    <2>2. address' = address /\ crowd' = crowd /\ limit' = pc[p].read
      BY <1>13 DEF WriteLimit, accounts
    <2>3. ASSUME ~undercut'
          PROVE  ~(pc[p].read < Len(address) + Cardinality(Registering))
      BY <1>13, <2>3 DEF WriteLimit
    <2> QED
      BY <1>0, <2>1, <2>2, <2>3 DEF Room
  <1>14. ASSUME NEW p \in Procs, Break(p) PROVE Room'
    <2>1. Registering' \subseteq Registering
      BY <1>14 DEF Break, TypeOK, RequestsOK, Registering, At, Go, Idle
    <2>2. /\ Cardinality(Registering') \in Nat
          /\ Cardinality(Registering') <= Cardinality(Registering)
      BY <2>1, RegisteringFinite, FS_Subset, FS_CardinalityType
    <2>3. UNCHANGED <<address, limit, undercut, crowd>>
      BY <1>14 DEF Break, accounts, history, origins
    <2> QED
      BY <1>0, <2>2, <2>3 DEF Room
  <1>15. ASSUME NEW p \in Procs, NEW a \in DOMAIN address, NEW e \in Applicants, BeginProfile(p, a, e)
         PROVE  Room'
    <2>1. Registering' = Registering
      BY <1>15, Passes DEF BeginProfile, Start, Idle, At
    <2> QED
      BY <1>15, <2>1 DEF BeginProfile, Room, accounts, history, origins
  <1>16. ASSUME NEW p \in Procs, WriteProfile(p) PROVE Room'
    <2>1. Registering' = Registering
      BY <1>16, Passes DEF WriteProfile, Idle, At
    <2>2. Len(address') = Len(address)
      BY <1>16 DEF WriteProfile, TypeOK, AccountsOK
    <2> QED
      BY <1>16, <2>1, <2>2 DEF WriteProfile, Room
  <1>17. CASE UNCHANGED vars
    BY <1>17 DEF Room, Registering, At, vars, pending, accounts, history, origins
  <1> QED
    BY <1>1, <1>2, <1>3, <1>4, <1>5, <1>6, <1>7, <1>8, <1>9, <1>10, <1>11, <1>12, <1>13, <1>14,
       <1>15, <1>16, <1>17 DEF Next, Request, Step

\* The capacity is exceeded by no more than the registrations that overlapped
\* when a place was looked for.
THEOREM CapacityHoldsCorrect == Spec => []CapacityHolds
  <1>1. Init => Room
    <2> SUFFICES ASSUME Init PROVE Room
      OBVIOUS
    <2>1. Registering = {} /\ Len(address) = 0
      BY DEF Init, Registering, Idle, At
    <2> QED
      BY <2>1, FS_EmptySet, RegistrationAssumption DEF Init, Room
  <1>2. TypeOK /\ Room => CapacityHolds
    BY RegisteringFinite, RegistrationAssumption
       DEF TypeOK, AccountsOK, HistoryOK, Room, CapacityHolds
  <1> QED
    BY <1>1, <1>2, TypeCorrect, RoomStep, PTL DEF Spec
=============================================================================
