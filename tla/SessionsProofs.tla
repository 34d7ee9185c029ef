--------------------------- MODULE SessionsProofs ---------------------------
(***************************************************************************)
(* Proofs about Sessions, for any number of requests, sessions, passwords, *)
(* tickets and tokens.                                                     *)
(***************************************************************************)
EXTENDS Sessions, FiniteSetTheorems, TLAPS

\* What a request must find when it goes on with record r.
Fits(r) ==
    /\ r.at \in {"extend", "touch"} => r.session \in Rows
    /\ r.at = "consume" => r.card \in Tickets /\ ticket[r.card] # "absent"
-----------------------------------------------------------------------------
(* Types.                                                                    *)

\* One request moves on: the requests stay well-typed when sessions and
\* tickets only get more.
LEMMA Going ==
    ASSUME RequestsOK, CardsOK, RowsOK, NEW p \in Procs, NEW r \in PcRecords, Fits(r), Go(p, r),
           requests' \in 0..MaxRequests, opened' \in Sessions, opened' >= opened,
           \A t \in Tickets : ticket[t] # "absent" => ticket'[t] # "absent"
    PROVE  RequestsOK'
  <1>1. pc' \in [Procs -> PcRecords] /\ pc'[p] = r /\ \A q \in Procs \ {p} : pc'[q] = pc[q]
    BY DEF RequestsOK, Go
  <1>2. Rows \subseteq Rows'
    BY DEF RowsOK, Rows, Sessions
  <1>3. ASSUME NEW q \in Procs
        PROVE  /\ pc'[q].at \in {"extend", "touch"} => pc'[q].session \in Rows'
               /\ At(q, "consume")' => /\ pc'[q].card \in Tickets
                                       /\ ticket'[pc'[q].card] # "absent"
    <2>1. CASE q = p
      BY <2>1, <1>1, <1>2 DEF Fits, At
    <2>2. CASE q # p
      BY <2>2, <1>1, <1>2 DEF RequestsOK, At
    <2> QED
      BY <2>1, <2>2
  <1> QED
    BY <1>1, <1>3 DEF RequestsOK

\* A request that begins and writes no row.
LEMMA Starting ==
    ASSUME TypeOK, NEW p \in Procs, NEW r \in PcRecords, Fits(r), Start(p, r),
           UNCHANGED <<account, rows, cards, token, history>>
    PROVE  TypeOK'
  <1> USE DEF account, rows, cards, history, evictions
  <1>1. requests' \in 0..MaxRequests
    BY SessionAssumption DEF TypeOK, RequestsOK, Start
  <1>2. opened' \in Sessions /\ opened' >= opened
    BY DEF TypeOK, RowsOK, Sessions
  <1>3. RequestsOK'
    BY <1>1, <1>2, Going DEF TypeOK, Start
  <1>4. AccountOK' /\ RowsOK' /\ CardsOK' /\ HistoryOK'
    BY DEF TypeOK, AccountOK, RowsOK, CardsOK, HistoryOK, Rows
  <1> QED
    BY <1>3, <1>4 DEF TypeOK

\* A request that ends and writes no row but perhaps the passwords.
LEMMA Ending ==
    ASSUME TypeOK, NEW p \in Procs, Go(p, Idle), UNCHANGED <<requests, opened, ticket>>
    PROVE  RequestsOK'
  <1>1. Idle \in PcRecords /\ Fits(Idle)
    BY SessionAssumption DEF Idle, PcRecords, Steps, Passwords, Fits
  <1>2. opened' \in Sessions /\ opened' >= opened
    BY DEF TypeOK, RowsOK, Sessions
  <1> QED
    BY <1>1, <1>2, Going DEF TypeOK, RequestsOK

\* What the record of a request holds.
LEMMA Records ==
    ASSUME TypeOK, NEW p \in Procs
    PROVE  /\ pc[p].key \in Passwords /\ pc[p].late \in BOOLEAN
           /\ pc[p].at \in {"extend", "touch"} => pc[p].session \in Sessions /\ pc[p].session \in Rows
           /\ At(p, "consume") => /\ pc[p].card \in Tickets
                                  /\ source[pc[p].card] \in Sessions
                                  /\ source[pc[p].card] \in Rows
  <1>1. Rows \subseteq Sessions
    BY SessionAssumption DEF TypeOK, RowsOK, Rows, Sessions
  <1>2. pc[p] \in PcRecords
    BY DEF TypeOK, RequestsOK
  <1> QED
    BY <1>1, <1>2 DEF TypeOK, RequestsOK, CardsOK, PcRecords

\* Revoking all sessions.
LEMMA Revoking ==
    ASSUME TypeOK, NEW p \in Procs, RevokeAll(p),
           UNCHANGED <<requests, cards>>, exchanged' = exchanged,
           issuedTwice' = issuedTwice, restored' = restored
    PROVE  RowsOK' /\ RequestsOK' /\ HistoryOK'
  <1> USE DEF RevokeAll, cards
  <1>0. Rows \subseteq Sessions /\ Rows' = Rows
    BY SessionAssumption DEF TypeOK, RowsOK, Rows, Sessions
  <1>1. RowsOK'
    BY <1>0 DEF TypeOK, RowsOK
  <1>2. Idle \in PcRecords
    BY SessionAssumption DEF Idle, PcRecords, Steps, Passwords
  <1>3. ASSUME NEW q \in Procs
        PROVE  /\ Late(q) \in PcRecords /\ Late(q).at = pc[q].at /\ Late(q).session = pc[q].session
               /\ Late(q).card = pc[q].card /\ Late(q).key = pc[q].key
    <2>1. pc[q] \in PcRecords
      BY DEF TypeOK, RequestsOK
    <2>2. (pc[q].late \/ At(q, "upgrade") \/ At(q, "open") \/ At(q, "extend") \/ At(q, "consume"))
          \in BOOLEAN
      OBVIOUS
    <2> QED
      BY <2>1, <2>2 DEF Late, PcRecords
  <1>4. pc' \in [Procs -> PcRecords]
    BY <1>2, <1>3
  <1>5. ASSUME NEW q \in Procs
        PROVE  /\ pc'[q].at \in {"extend", "touch"} => pc'[q].session \in Rows'
               /\ At(q, "consume")' => /\ pc'[q].card \in Tickets
                                       /\ ticket'[pc'[q].card] # "absent"
    <2>1. CASE q = p
      BY <2>1 DEF Idle, At
    <2>2. CASE q # p
      BY <2>2, <1>3, <1>0 DEF TypeOK, RequestsOK, At
    <2> QED
      BY <2>1, <2>2
  <1>6. RequestsOK'
    BY <1>4, <1>5 DEF TypeOK, RequestsOK
  <1>7. HistoryOK'
    BY <1>0 DEF TypeOK, HistoryOK
  <1> QED
    BY <1>1, <1>6, <1>7

\* Every step keeps the state well-typed.
LEMMA TypeStep == TypeOK /\ [Next]_vars => TypeOK'
  <1> SUFFICES ASSUME TypeOK, [Next]_vars PROVE TypeOK'
    OBVIOUS
  <1> USE SessionAssumption
  <1>0. 0 \in Passwords /\ NoSession \in Sessions \cup {NoSession} /\ Rows \subseteq Sessions
    BY DEF Passwords, TypeOK, RowsOK, Rows, Sessions
  <1>1. ASSUME NEW p \in Procs, BeginLogin(p) PROVE TypeOK'
    <2> DEFINE r == [Idle EXCEPT !.at = IF legacy THEN "upgrade" ELSE "open", !.key = password]
    <2>1. r \in PcRecords /\ Fits(r)
      BY <1>0 DEF TypeOK, AccountOK, Idle, PcRecords, Steps, Fits
    <2> QED
      BY <1>1, <2>1, Starting DEF BeginLogin
  <1>2. ASSUME NEW p \in Procs, Upgrade(p) PROVE TypeOK'
    <2> DEFINE r == [pc[p] EXCEPT !.at = "open"]
    <2>1. r \in PcRecords /\ Fits(r) /\ pc[p].key \in Passwords
      BY DEF TypeOK, RequestsOK, PcRecords, Steps, Fits
    <2>2. RequestsOK'
      BY <1>2, <2>1, Going DEF Upgrade, rows, cards, TypeOK, RequestsOK, RowsOK, Sessions
    <2>3. AccountOK' /\ RowsOK' /\ CardsOK'
      BY <1>2, <2>1 DEF Upgrade, rows, cards, TypeOK, AccountOK, RowsOK, CardsOK, Rows
    <2>4. restored' \in BOOLEAN
      BY <1>2 DEF Upgrade
    <2>5. HistoryOK'
      BY <1>2, <2>4 DEF Upgrade, evictions, TypeOK, HistoryOK
    <2> QED
      BY <2>2, <2>3, <2>5 DEF TypeOK
  <1>3. ASSUME NEW p \in Procs, Open(p) PROVE TypeOK'
    <2>1. pc[p].key \in Passwords
      BY Records
    <2>2. opened < MaxSessions /\ opened + 1 \in Sessions /\ opened' = opened + 1
      BY <1>3 DEF Open, CreateAuthSession, TypeOK, RowsOK, Sessions
    <2>3. RowsOK'
      BY <1>3, <2>1, <2>2 DEF Open, CreateAuthSession, TypeOK, RowsOK
    <2>4. Idle \in PcRecords /\ Fits(Idle)
      BY <1>0 DEF Idle, PcRecords, Steps, Fits
    <2>5. RequestsOK'
      <3>1. opened' >= opened
        BY <2>2 DEF TypeOK, RowsOK, Sessions
      <3> QED
        BY <1>3, <2>2, <2>4, <3>1, Going DEF Open, cards, TypeOK, RequestsOK
    <2>6. CardsOK'
      <3>1. Rows \subseteq Rows'
        BY <2>2 DEF TypeOK, RowsOK, Rows, Sessions
      <3> QED
        BY <1>3, <3>1 DEF Open, cards, TypeOK, CardsOK
    <2>7. excused' \subseteq Sessions
      BY <1>3, <2>2 DEF Open, CreateAuthSession, TypeOK, HistoryOK
    <2>8. AccountOK' /\ HistoryOK'
      BY <1>3, <2>7 DEF Open, CreateAuthSession, account, TypeOK, AccountOK, HistoryOK
    <2> QED
      BY <2>3, <2>5, <2>6, <2>8 DEF TypeOK
  <1>4. ASSUME NEW p \in Procs, NEW s \in Sessions, BeginRefresh(p, s) PROVE TypeOK'
    <2> DEFINE r == [Idle EXCEPT !.at = "extend", !.session = s]
    <2>1. r \in PcRecords /\ Fits(r)
      BY <1>4, <1>0 DEF BeginRefresh, Begin, Valid, Idle, PcRecords, Steps, Fits
    <2> QED
      BY <1>4, <2>1, Starting DEF BeginRefresh, Begin
  <1>5. ASSUME NEW p \in Procs, ExtendSession(p) PROVE TypeOK'
    <2>1. pc[p].session \in Sessions
      BY <1>5, Records DEF ExtendSession, At
    <2>2. RequestsOK'
      BY <1>5, Ending DEF ExtendSession, cards
    <2>3. excused' \subseteq Sessions
      BY <1>5, <2>1 DEF ExtendSession, TypeOK, HistoryOK
    <2>4. AccountOK' /\ RowsOK' /\ CardsOK' /\ HistoryOK'
      BY <1>5, <2>3 DEF ExtendSession, account, cards, TypeOK, AccountOK, RowsOK, CardsOK, HistoryOK, Rows
    <2> QED
      BY <2>2, <2>4 DEF TypeOK
  <1>6. ASSUME NEW p \in Procs, NEW s \in Sessions, BeginGuard(p, s) PROVE TypeOK'
    <2> DEFINE r == [Idle EXCEPT !.at = "touch", !.session = s]
    <2>1. r \in PcRecords /\ Fits(r)
      BY <1>6, <1>0 DEF BeginGuard, Begin, Valid, Idle, PcRecords, Steps, Fits
    <2> QED
      BY <1>6, <2>1, Starting DEF BeginGuard, Begin
  <1>7. ASSUME NEW p \in Procs, Touch(p) PROVE TypeOK'
    <2>1. RequestsOK'
      BY <1>7, Ending DEF Touch, cards
    <2>2. AccountOK' /\ RowsOK' /\ CardsOK' /\ HistoryOK'
      BY <1>7 DEF Touch, account, cards, history, evictions, TypeOK, AccountOK, RowsOK, CardsOK,
                  HistoryOK, Rows
    <2> QED
      BY <2>1, <2>2 DEF TypeOK
  <1>8. ASSUME NEW s \in Sessions, Logout(s) PROVE TypeOK'
    BY <1>8 DEF Logout, account, cards, TypeOK, AccountOK, RowsOK, CardsOK, RequestsOK, HistoryOK,
                Rows, At
  <1>9. ASSUME NEW s \in Sessions, NEW t \in Tickets, CreateBridgeTicket(s, t) PROVE TypeOK'
    <2>1. CardsOK'
      BY <1>9 DEF CreateBridgeTicket, Valid, rows, TypeOK, CardsOK, Rows
    <2>2. RequestsOK'
      BY <1>9 DEF CreateBridgeTicket, rows, TypeOK, CardsOK, RequestsOK, Rows, At
    <2>3. AccountOK' /\ RowsOK' /\ HistoryOK'
      BY <1>9 DEF CreateBridgeTicket, account, rows, history, evictions, TypeOK, AccountOK, RowsOK,
                  HistoryOK
    <2> QED
      BY <2>1, <2>2, <2>3 DEF TypeOK
  <1>10. ASSUME NEW p \in Procs, NEW t \in Tickets, BeginExchange(p, t) PROVE TypeOK'
    <2> DEFINE r == [Idle EXCEPT !.at = "consume", !.card = t]
    <2>1. r \in PcRecords /\ Fits(r)
      BY <1>10, <1>0 DEF BeginExchange, Idle, PcRecords, Steps, Fits
    <2> QED
      BY <1>10, <2>1, Starting DEF BeginExchange
  <1>11. ASSUME NEW p \in Procs, Consume(p) PROVE TypeOK'
    <2> DEFINE t == pc[p].card
    <2>1. t \in Tickets /\ source[t] \in Rows /\ key[source[t]] \in Passwords
      BY <1>11, Records DEF Consume, TypeOK, RowsOK
    <2>2. Idle \in PcRecords /\ Fits(Idle)
      BY <1>0 DEF Idle, PcRecords, Steps, Fits
    <2>3. CASE ticket[t] = "consumed"
      <3>1. UNCHANGED <<rows, ticket, evictions, exchanged>>
        BY <1>11, <2>3 DEF Consume
      <3>2. RequestsOK'
        BY <1>11, <3>1, Ending DEF Consume, rows
      <3>3. AccountOK' /\ RowsOK' /\ CardsOK' /\ HistoryOK'
        BY <1>11, <3>1 DEF Consume, account, rows, evictions, TypeOK, AccountOK, RowsOK, CardsOK,
                           HistoryOK, Rows
      <3> QED
        BY <3>2, <3>3 DEF TypeOK
    <2>4. CASE ticket[t] # "consumed"
      <3>1. /\ ticket' = [ticket EXCEPT ![t] = "consumed"]
            /\ CreateAuthSession(p, key[source[t]], source[t])
            /\ exchanged' = [exchanged EXCEPT ![t] = @ + 1]
            /\ Go(p, Idle)
            /\ UNCHANGED <<requests, account, source, token, issuedTwice, restored>>
        BY <1>11, <2>4 DEF Consume
      <3>2. opened < MaxSessions /\ opened + 1 \in Sessions /\ opened' = opened + 1
        BY <3>1 DEF CreateAuthSession, TypeOK, RowsOK, Sessions
      <3>3. RowsOK'
        BY <3>1, <3>2, <2>1 DEF CreateAuthSession, TypeOK, RowsOK
      <3>4. \A u \in Tickets : ticket[u] # "absent" => ticket'[u] # "absent"
        BY <3>1 DEF TypeOK, CardsOK
      <3>5. RequestsOK'
        <4>1. opened' >= opened
          BY <3>2 DEF TypeOK, RowsOK, Sessions
        <4> QED
          BY <3>1, <3>2, <3>4, <4>1, <2>2, Going DEF TypeOK, RequestsOK
      <3>6. ticket[t] # "absent"
        BY <1>11 DEF Consume, TypeOK, RequestsOK
      <3>7. CardsOK'
        <4>1. Rows \subseteq Rows'
          BY <3>2 DEF TypeOK, RowsOK, Rows, Sessions
        <4> QED
          BY <3>1, <3>6, <4>1 DEF TypeOK, CardsOK
      <3>8. excused' \subseteq Sessions
        BY <3>1, <3>2 DEF CreateAuthSession, TypeOK, HistoryOK
      <3>9. AccountOK' /\ HistoryOK'
        BY <3>1, <3>8, <2>1 DEF CreateAuthSession, account, TypeOK, AccountOK, HistoryOK
      <3> QED
        BY <3>3, <3>5, <3>7, <3>9 DEF TypeOK
    <2> QED
      BY <2>3, <2>4
  <1>12. ASSUME NEW p \in Procs, BeginChange(p) PROVE TypeOK'
    <2> DEFINE r == [Idle EXCEPT !.at = "change"]
    <2>1. r \in PcRecords /\ Fits(r)
      BY <1>0 DEF Idle, PcRecords, Steps, Fits
    <2> QED
      BY <1>12, <2>1, Starting DEF BeginChange
  <1>13. ASSUME NEW p \in Procs, ChangePassword(p) PROVE TypeOK'
    <2> DEFINE r == [pc[p] EXCEPT !.at = "revoke"]
    <2>1. r \in PcRecords /\ Fits(r)
      BY DEF TypeOK, RequestsOK, PcRecords, Steps, Fits
    <2>2. RequestsOK'
      BY <1>13, <2>1, Going DEF ChangePassword, rows, cards, TypeOK, RequestsOK, RowsOK, Sessions
    <2>3. chosen + 1 \in Passwords
      BY <1>13 DEF ChangePassword, SetPassword, Choose, TypeOK, AccountOK, Passwords
    <2>4. AccountOK'
      BY <1>13, <2>3 DEF ChangePassword, SetPassword, Choose, AccountOK
    <2>5. RowsOK' /\ CardsOK' /\ HistoryOK'
      BY <1>13 DEF ChangePassword, rows, cards, history, evictions, TypeOK, RowsOK, CardsOK,
                   HistoryOK, Rows
    <2> QED
      BY <2>2, <2>4, <2>5 DEF TypeOK
  <1>14. ASSUME NEW p \in Procs, RevokeUserSessions(p) PROVE TypeOK'
    <2>1. password \in Passwords
      BY DEF TypeOK, AccountOK
    <2>2. RowsOK' /\ RequestsOK' /\ HistoryOK'
      BY <1>14, <2>1, Revoking DEF RevokeUserSessions
    <2>3. AccountOK' /\ CardsOK'
      BY <1>14 DEF RevokeUserSessions, RevokeAll, account, cards, TypeOK, AccountOK, CardsOK, Rows
    <2> QED
      BY <2>2, <2>3 DEF TypeOK
  <1>15. ASSUME NEW p \in Procs, BeginIssue(p) PROVE TypeOK'
    <2> DEFINE r == [Idle EXCEPT !.at = "issue"]
    <2>1. r \in PcRecords /\ Fits(r)
      BY <1>0 DEF Idle, PcRecords, Steps, Fits
    <2>2. requests' \in 0..MaxRequests
      BY <1>15 DEF BeginIssue, Start, TypeOK, RequestsOK
    <2>3. RequestsOK'
      BY <1>15, <2>1, <2>2, Going DEF BeginIssue, Start, rows, cards, TypeOK, RowsOK, Sessions
    <2>4. issuedTwice' \in BOOLEAN
      BY <1>15 DEF BeginIssue
    <2>5. AccountOK' /\ RowsOK' /\ CardsOK' /\ HistoryOK'
      BY <1>15, <2>4 DEF BeginIssue, Spent, account, rows, cards, evictions, TypeOK, AccountOK,
                         RowsOK, CardsOK, HistoryOK, Rows
    <2> QED
      BY <2>3, <2>5 DEF TypeOK
  <1>16. ASSUME NEW p \in Procs, NEW k \in Tokens, Issue(p, k) PROVE TypeOK'
    <2>1. RequestsOK'
      BY <1>16, Ending DEF Issue, rows, cards
    <2>2. AccountOK' /\ RowsOK' /\ CardsOK' /\ HistoryOK'
      BY <1>16 DEF Issue, account, rows, cards, history, evictions, TypeOK, AccountOK, RowsOK,
                   CardsOK, HistoryOK, Rows
    <2> QED
      BY <2>1, <2>2 DEF TypeOK
  <1>17. ASSUME NEW p \in Procs, NEW k \in Tokens, BeginReset(p, k) PROVE TypeOK'
    <2> DEFINE r == [Idle EXCEPT !.at = "reset"]
    <2>1. r \in PcRecords /\ Fits(r)
      BY <1>0 DEF Idle, PcRecords, Steps, Fits
    <2> QED
      BY <1>17, <2>1, Starting DEF BeginReset
  <1>18. ASSUME NEW p \in Procs, ResetPassword(p) PROVE TypeOK'
    <2>1. chosen' \in Passwords /\ password' \in Passwords
      BY <1>18 DEF ResetPassword, SetPassword, Choose, TypeOK, AccountOK, Passwords
    <2>2. RowsOK' /\ RequestsOK' /\ HistoryOK'
      BY <1>18, <2>1, Revoking DEF ResetPassword
    <2>3. AccountOK'
      BY <1>18, <2>1 DEF ResetPassword, SetPassword, AccountOK
    <2>4. CardsOK'
      BY <1>18 DEF ResetPassword, RevokeAll, Spent, cards, TypeOK, CardsOK, Rows
    <2> QED
      BY <2>2, <2>3, <2>4 DEF TypeOK
  <1>19. ASSUME NEW s \in Sessions, Lapse(s) PROVE TypeOK'
    BY <1>19 DEF Lapse, account, cards, history, evictions, TypeOK, AccountOK, RowsOK, CardsOK,
                 RequestsOK, HistoryOK, Rows, At
  <1>20. ASSUME NEW t \in Tickets, LapseTicket(t) PROVE TypeOK'
    <2>1. CardsOK' /\ RequestsOK'
      BY <1>20 DEF LapseTicket, rows, TypeOK, CardsOK, RequestsOK, Rows, At
    <2>2. AccountOK' /\ RowsOK' /\ HistoryOK'
      BY <1>20 DEF LapseTicket, account, rows, history, evictions, TypeOK, AccountOK, RowsOK,
                   HistoryOK
    <2> QED
      BY <2>1, <2>2 DEF TypeOK
  <1>21. ASSUME NEW k \in Tokens, LapseToken(k) PROVE TypeOK'
    BY <1>21 DEF LapseToken, account, rows, cards, history, evictions, TypeOK, AccountOK, RowsOK,
                 CardsOK, RequestsOK, HistoryOK, Rows, At
  <1>22. ASSUME NEW p \in Procs, Break(p) PROVE TypeOK'
    <2>1. RequestsOK'
      BY <1>22, Ending DEF Break, rows, cards
    <2>2. AccountOK' /\ RowsOK' /\ CardsOK' /\ HistoryOK'
      BY <1>22 DEF Break, account, rows, cards, history, evictions, TypeOK, AccountOK, RowsOK,
                   CardsOK, HistoryOK, Rows
    <2> QED
      BY <2>1, <2>2 DEF TypeOK
  <1>23. CASE UNCHANGED vars
    BY <1>23 DEF vars, account, rows, cards, history, evictions, TypeOK, AccountOK, RowsOK, CardsOK,
                 RequestsOK, HistoryOK, Rows, At
  <1> QED
    BY <1>1, <1>2, <1>3, <1>4, <1>5, <1>6, <1>7, <1>8, <1>9, <1>10, <1>11, <1>12, <1>13, <1>14,
       <1>15, <1>16, <1>17, <1>18, <1>19, <1>20, <1>21, <1>22, <1>23 DEF Next, Request, Step

\* The user signed in on one device.
LEMMA TypeInit == Init => TypeOK
  <1> SUFFICES ASSUME Init PROVE TypeOK
    OBVIOUS
  <1>1. 0 \in Passwords /\ 1 \in Sessions
    BY SessionAssumption DEF Passwords, Sessions
  <1>2. Idle \in PcRecords
    BY <1>1 DEF Idle, PcRecords, Steps
  <1>3. RequestsOK
    BY <1>2, SessionAssumption DEF Init, RequestsOK, Idle, At
  <1>4. AccountOK /\ RowsOK /\ CardsOK /\ HistoryOK
    BY <1>1 DEF Init, AccountOK, RowsOK, CardsOK, HistoryOK
  <1> QED
    BY <1>3, <1>4 DEF TypeOK

\* Every reachable state is well-typed.
THEOREM TypeCorrect == Spec => []TypeOK
  BY TypeInit, TypeStep, PTL DEF Spec
-----------------------------------------------------------------------------
(* What was revoked for good stays revoked.                                  *)

\* No request is about to clear the revocation of a session that is gone.
Gone ==
    /\ gone \subseteq revoked
    /\ \A p \in Procs : At(p, "extend") => pc[p].session \notin gone

\* Every step keeps Gone.
LEMMA GoneStep == TypeOK /\ Gone /\ [Next]_vars => Gone'
  <1> SUFFICES ASSUME TypeOK, Gone, [Next]_vars PROVE Gone'
    OBVIOUS
  <1>0. pc \in [Procs -> PcRecords]
    BY DEF TypeOK, RequestsOK
  <1>1. ASSUME NEW p \in Procs, BeginLogin(p) PROVE Gone'
    BY <1>0, <1>1 DEF Gone, At, BeginLogin, Start, Go, Idle, account, rows, cards, history,
       evictions
  <1>2. ASSUME NEW p \in Procs, Upgrade(p) PROVE Gone'
    BY <1>0, <1>2 DEF Gone, At, Upgrade, Go, account, rows, cards, history, evictions
  <1>3. ASSUME NEW p \in Procs, Open(p) PROVE Gone'
    BY <1>0, <1>3 DEF Gone, At, Open, CreateAuthSession, Go, Idle, account, rows, cards, history,
       evictions
  <1>4. ASSUME NEW p \in Procs, NEW s \in Sessions, BeginRefresh(p, s) PROVE Gone'
    BY <1>0, <1>4 DEF Gone, At, BeginRefresh, Begin, Valid, Start, Go, Idle, account, rows, cards,
       history, evictions
  <1>5. ASSUME NEW p \in Procs, ExtendSession(p) PROVE Gone'
    BY <1>0, <1>5 DEF Gone, At, ExtendSession, Go, Idle, account, rows, cards, history, evictions
  <1>6. ASSUME NEW p \in Procs, NEW s \in Sessions, BeginGuard(p, s) PROVE Gone'
    BY <1>0, <1>6 DEF Gone, At, BeginGuard, Begin, Valid, Start, Go, Idle, account, rows, cards,
       history, evictions
  <1>7. ASSUME NEW p \in Procs, Touch(p) PROVE Gone'
    BY <1>0, <1>7 DEF Gone, At, Touch, Go, Idle, account, rows, cards, history, evictions
  <1>8. ASSUME NEW s \in Sessions, Logout(s) PROVE Gone'
    BY <1>0, <1>8 DEF Gone, At, Logout, Valid, Extending, account, rows, cards, history, evictions
  <1>9. ASSUME NEW s \in Sessions, NEW t \in Tickets, CreateBridgeTicket(s, t) PROVE Gone'
    BY <1>0, <1>9 DEF Gone, At, CreateBridgeTicket, Valid, account, rows, cards, history, evictions
  <1>10. ASSUME NEW p \in Procs, NEW t \in Tickets, BeginExchange(p, t) PROVE Gone'
    BY <1>0, <1>10 DEF Gone, At, BeginExchange, Valid, Start, Go, Idle, account, rows, cards,
       history, evictions
  <1>11. ASSUME NEW p \in Procs, Consume(p) PROVE Gone'
    BY <1>0, <1>11 DEF Gone, At, Consume, CreateAuthSession, Go, Idle, account, rows, cards,
       history, evictions
  <1>12. ASSUME NEW p \in Procs, BeginChange(p) PROVE Gone'
    BY <1>0, <1>12 DEF Gone, At, BeginChange, Start, Go, Idle, account, rows, cards, history,
       evictions
  <1>13. ASSUME NEW p \in Procs, ChangePassword(p) PROVE Gone'
    BY <1>0, <1>13 DEF Gone, At, ChangePassword, SetPassword, Choose, Go, account, rows, cards,
       history, evictions
  <1>14. ASSUME NEW p \in Procs, RevokeUserSessions(p) PROVE Gone'
    <2>1. ASSUME NEW q \in Procs, At(q, "extend")'
          PROVE  At(q, "extend") /\ pc'[q].session = pc[q].session
      BY <1>0, <1>14, <2>1 DEF RevokeUserSessions, RevokeAll, Late, Idle, At
    <2> QED
      BY <1>14, <2>1 DEF RevokeUserSessions, RevokeAll, Gone, Extending, At
  <1>15. ASSUME NEW p \in Procs, BeginIssue(p) PROVE Gone'
    BY <1>0, <1>15 DEF Gone, At, BeginIssue, Spent, Start, Go, Idle, account, rows, cards, history,
       evictions
  <1>16. ASSUME NEW p \in Procs, NEW k \in Tokens, Issue(p, k) PROVE Gone'
    BY <1>0, <1>16 DEF Gone, At, Issue, Go, Idle, account, rows, cards, history, evictions
  <1>17. ASSUME NEW p \in Procs, NEW k \in Tokens, BeginReset(p, k) PROVE Gone'
    BY <1>0, <1>17 DEF Gone, At, BeginReset, Start, Go, Idle, account, rows, cards, history,
       evictions
  <1>18. ASSUME NEW p \in Procs, ResetPassword(p) PROVE Gone'
    <2>1. ASSUME NEW q \in Procs, At(q, "extend")'
          PROVE  At(q, "extend") /\ pc'[q].session = pc[q].session
      BY <1>0, <1>18, <2>1 DEF ResetPassword, RevokeAll, Late, Idle, At
    <2> QED
      BY <1>18, <2>1 DEF ResetPassword, RevokeAll, Gone, Extending, At
  <1>19. ASSUME NEW s \in Sessions, Lapse(s) PROVE Gone'
    BY <1>0, <1>19 DEF Gone, At, Lapse, account, rows, cards, history, evictions
  <1>20. ASSUME NEW t \in Tickets, LapseTicket(t) PROVE Gone'
    BY <1>0, <1>20 DEF Gone, At, LapseTicket, account, rows, cards, history, evictions
  <1>21. ASSUME NEW k \in Tokens, LapseToken(k) PROVE Gone'
    BY <1>0, <1>21 DEF Gone, At, LapseToken, account, rows, cards, history, evictions
  <1>22. ASSUME NEW p \in Procs, Break(p) PROVE Gone'
    BY <1>0, <1>22 DEF Gone, At, Break, Go, Idle, account, rows, cards, history, evictions
  <1>23. CASE UNCHANGED vars
    BY <1>23 DEF Gone, At, vars, account, rows, cards, history, evictions
  <1> QED
    BY <1>1, <1>2, <1>3, <1>4, <1>5, <1>6, <1>7, <1>8, <1>9, <1>10, <1>11, <1>12, <1>13, <1>14,
       <1>15, <1>16, <1>17, <1>18, <1>19, <1>20, <1>21, <1>22, <1>23 DEF Next, Request, Step

\* A session that was revoked while nobody was extending it is never accepted
\* again.
THEOREM RevokedIsFinalCorrect == Spec => []RevokedIsFinal
  <1>1. Init => Gone
    BY DEF Init, Gone, Idle, At
  <1>2. Gone => RevokedIsFinal
    BY DEF Gone, RevokedIsFinal
  <1> QED
    BY <1>1, <1>2, TypeCorrect, GoneStep, PTL DEF Spec

-----------------------------------------------------------------------------
(* A ticket opens one session.                                               *)

Once == \A t \in Tickets : /\ exchanged[t] <= 1
                           /\ ticket[t] # "consumed" => exchanged[t] = 0

\* Every step keeps Once.
LEMMA OnceStep == TypeOK /\ Once /\ [Next]_vars => Once'
  <1> SUFFICES ASSUME TypeOK, Once, [Next]_vars PROVE Once'
    OBVIOUS
  <1>0. /\ ticket \in [Tickets -> {"absent", "open", "consumed", "lapsed"}]
        /\ exchanged \in [Tickets -> Nat]
    BY DEF TypeOK, CardsOK, HistoryOK
  <1>1. ASSUME NEW p \in Procs, BeginLogin(p) PROVE Once'
    BY <1>0, <1>1 DEF Once, BeginLogin, Start, Go, Idle, account, rows, cards, history, evictions
  <1>2. ASSUME NEW p \in Procs, Upgrade(p) PROVE Once'
    BY <1>0, <1>2 DEF Once, Upgrade, Go, account, rows, cards, history, evictions
  <1>3. ASSUME NEW p \in Procs, Open(p) PROVE Once'
    BY <1>0, <1>3 DEF Once, Open, CreateAuthSession, Go, Idle, account, rows, cards, history,
       evictions
  <1>4. ASSUME NEW p \in Procs, NEW s \in Sessions, BeginRefresh(p, s) PROVE Once'
    BY <1>0, <1>4 DEF Once, BeginRefresh, Begin, Valid, Start, Go, Idle, account, rows, cards,
       history, evictions
  <1>5. ASSUME NEW p \in Procs, ExtendSession(p) PROVE Once'
    BY <1>0, <1>5 DEF Once, ExtendSession, Go, Idle, account, rows, cards, history, evictions
  <1>6. ASSUME NEW p \in Procs, NEW s \in Sessions, BeginGuard(p, s) PROVE Once'
    BY <1>0, <1>6 DEF Once, BeginGuard, Begin, Valid, Start, Go, Idle, account, rows, cards,
       history, evictions
  <1>7. ASSUME NEW p \in Procs, Touch(p) PROVE Once'
    BY <1>0, <1>7 DEF Once, Touch, Go, Idle, account, rows, cards, history, evictions
  <1>8. ASSUME NEW s \in Sessions, Logout(s) PROVE Once'
    BY <1>0, <1>8 DEF Once, Logout, Valid, Extending, account, rows, cards, history, evictions
  <1>9. ASSUME NEW s \in Sessions, NEW t \in Tickets, CreateBridgeTicket(s, t) PROVE Once'
    BY <1>0, <1>9 DEF Once, CreateBridgeTicket, Valid, account, rows, cards, history, evictions
  <1>10. ASSUME NEW p \in Procs, NEW t \in Tickets, BeginExchange(p, t) PROVE Once'
    BY <1>0, <1>10 DEF Once, BeginExchange, Valid, Start, Go, Idle, account, rows, cards, history,
       evictions
  <1>11. ASSUME NEW p \in Procs, Consume(p) PROVE Once'
    BY <1>0, <1>11 DEF Once, Consume, CreateAuthSession, Go, Idle, account, rows, cards, history,
       evictions
  <1>12. ASSUME NEW p \in Procs, BeginChange(p) PROVE Once'
    BY <1>0, <1>12 DEF Once, BeginChange, Start, Go, Idle, account, rows, cards, history, evictions
  <1>13. ASSUME NEW p \in Procs, ChangePassword(p) PROVE Once'
    BY <1>0, <1>13 DEF Once, ChangePassword, SetPassword, Choose, Go, account, rows, cards, history,
       evictions
  <1>14. ASSUME NEW p \in Procs, RevokeUserSessions(p) PROVE Once'
    BY <1>0, <1>14 DEF Once, RevokeUserSessions, RevokeAll, Late, Extending, Idle, account, rows,
       cards, history, evictions
  <1>15. ASSUME NEW p \in Procs, BeginIssue(p) PROVE Once'
    BY <1>0, <1>15 DEF Once, BeginIssue, Spent, Start, Go, Idle, account, rows, cards, history,
       evictions
  <1>16. ASSUME NEW p \in Procs, NEW k \in Tokens, Issue(p, k) PROVE Once'
    BY <1>0, <1>16 DEF Once, Issue, Go, Idle, account, rows, cards, history, evictions
  <1>17. ASSUME NEW p \in Procs, NEW k \in Tokens, BeginReset(p, k) PROVE Once'
    BY <1>0, <1>17 DEF Once, BeginReset, Start, Go, Idle, account, rows, cards, history, evictions
  <1>18. ASSUME NEW p \in Procs, ResetPassword(p) PROVE Once'
    BY <1>0, <1>18 DEF Once, ResetPassword, SetPassword, Choose, Spent, RevokeAll, Late, Extending,
       Idle, account, rows, cards, history, evictions
  <1>19. ASSUME NEW s \in Sessions, Lapse(s) PROVE Once'
    BY <1>0, <1>19 DEF Once, Lapse, account, rows, cards, history, evictions
  <1>20. ASSUME NEW t \in Tickets, LapseTicket(t) PROVE Once'
    BY <1>0, <1>20 DEF Once, LapseTicket, account, rows, cards, history, evictions
  <1>21. ASSUME NEW k \in Tokens, LapseToken(k) PROVE Once'
    BY <1>0, <1>21 DEF Once, LapseToken, account, rows, cards, history, evictions
  <1>22. ASSUME NEW p \in Procs, Break(p) PROVE Once'
    BY <1>0, <1>22 DEF Once, Break, Go, Idle, account, rows, cards, history, evictions
  <1>23. CASE UNCHANGED vars
    BY <1>23 DEF Once, vars, account, rows, cards, history, evictions
  <1> QED
    BY <1>1, <1>2, <1>3, <1>4, <1>5, <1>6, <1>7, <1>8, <1>9, <1>10, <1>11, <1>12, <1>13, <1>14,
       <1>15, <1>16, <1>17, <1>18, <1>19, <1>20, <1>21, <1>22, <1>23 DEF Next, Request, Step

\* A bridge ticket is exchanged for one session at most, whatever overlaps.
THEOREM TicketOnceCorrect == Spec => []TicketOnce
  <1>1. Init => Once
    BY DEF Init, Once
  <1>2. TypeOK /\ Once => TicketOnce
    BY DEF Once, TicketOnce
  <1> QED
    BY <1>1, <1>2, TypeCorrect, OnceStep, PTL DEF Spec

-----------------------------------------------------------------------------
(* Usable reset links.                                                       *)

\* No request is about to issue a link while another is, or while one is usable.
OneLink ==
    ~issuedTwice =>
        /\ \A p, q \in Procs : At(p, "issue") /\ At(q, "issue") => p = q
        /\ \A p \in Procs, k \in Tokens : At(p, "issue") => token[k] # "open"
        /\ \A j, k \in Tokens : token[j] = "open" /\ token[k] = "open" => j = k

\* Every step keeps OneLink.
LEMMA OneLinkStep == TypeOK /\ OneLink /\ [Next]_vars => OneLink'
  <1> SUFFICES ASSUME TypeOK, OneLink, [Next]_vars PROVE OneLink'
    OBVIOUS
  <1>0. /\ pc \in [Procs -> PcRecords]
        /\ token \in [Tokens -> {"absent", "open", "used"}]
    BY DEF TypeOK, CardsOK, RequestsOK
  <1>1. ASSUME NEW p \in Procs, BeginLogin(p) PROVE OneLink'
    BY <1>0, <1>1 DEF OneLink, At, BeginLogin, Start, Go, Idle, account, rows, cards, history,
       evictions
  <1>2. ASSUME NEW p \in Procs, Upgrade(p) PROVE OneLink'
    BY <1>0, <1>2 DEF OneLink, At, Upgrade, Go, account, rows, cards, history, evictions
  <1>3. ASSUME NEW p \in Procs, Open(p) PROVE OneLink'
    BY <1>0, <1>3 DEF OneLink, At, Open, CreateAuthSession, Go, Idle, account, rows, cards, history,
       evictions
  <1>4. ASSUME NEW p \in Procs, NEW s \in Sessions, BeginRefresh(p, s) PROVE OneLink'
    BY <1>0, <1>4 DEF OneLink, At, BeginRefresh, Begin, Valid, Start, Go, Idle, account, rows,
       cards, history, evictions
  <1>5. ASSUME NEW p \in Procs, ExtendSession(p) PROVE OneLink'
    BY <1>0, <1>5 DEF OneLink, At, ExtendSession, Go, Idle, account, rows, cards, history, evictions
  <1>6. ASSUME NEW p \in Procs, NEW s \in Sessions, BeginGuard(p, s) PROVE OneLink'
    BY <1>0, <1>6 DEF OneLink, At, BeginGuard, Begin, Valid, Start, Go, Idle, account, rows, cards,
       history, evictions
  <1>7. ASSUME NEW p \in Procs, Touch(p) PROVE OneLink'
    BY <1>0, <1>7 DEF OneLink, At, Touch, Go, Idle, account, rows, cards, history, evictions
  <1>8. ASSUME NEW s \in Sessions, Logout(s) PROVE OneLink'
    BY <1>0, <1>8 DEF OneLink, At, Logout, Valid, Extending, account, rows, cards, history,
       evictions
  <1>9. ASSUME NEW s \in Sessions, NEW t \in Tickets, CreateBridgeTicket(s, t) PROVE OneLink'
    BY <1>0, <1>9 DEF OneLink, At, CreateBridgeTicket, Valid, account, rows, cards, history,
       evictions
  <1>10. ASSUME NEW p \in Procs, NEW t \in Tickets, BeginExchange(p, t) PROVE OneLink'
    BY <1>0, <1>10 DEF OneLink, At, BeginExchange, Valid, Start, Go, Idle, account, rows, cards,
       history, evictions
  <1>11. ASSUME NEW p \in Procs, Consume(p) PROVE OneLink'
    BY <1>0, <1>11 DEF OneLink, At, Consume, CreateAuthSession, Go, Idle, account, rows, cards,
       history, evictions
  <1>12. ASSUME NEW p \in Procs, BeginChange(p) PROVE OneLink'
    BY <1>0, <1>12 DEF OneLink, At, BeginChange, Start, Go, Idle, account, rows, cards, history,
       evictions
  <1>13. ASSUME NEW p \in Procs, ChangePassword(p) PROVE OneLink'
    BY <1>0, <1>13 DEF OneLink, At, ChangePassword, SetPassword, Choose, Go, account, rows, cards,
       history, evictions
  <1>14. ASSUME NEW p \in Procs, RevokeUserSessions(p) PROVE OneLink'
    <2>1. ASSUME NEW q \in Procs, At(q, "issue")'
          PROVE  At(q, "issue")
      BY <1>0, <1>14, <2>1 DEF RevokeUserSessions, RevokeAll, Late, Idle, At
    <2> QED
      BY <1>0, <1>14, <2>1 DEF RevokeUserSessions, RevokeAll, Spent, cards, OneLink
  <1>15. ASSUME NEW p \in Procs, BeginIssue(p) PROVE OneLink'
    BY <1>0, <1>15 DEF OneLink, At, BeginIssue, Spent, Start, Go, Idle, account, rows, cards,
       history, evictions
  <1>16. ASSUME NEW p \in Procs, NEW k \in Tokens, Issue(p, k) PROVE OneLink'
    BY <1>0, <1>16 DEF OneLink, At, Issue, Go, Idle, account, rows, cards, history, evictions
  <1>17. ASSUME NEW p \in Procs, NEW k \in Tokens, BeginReset(p, k) PROVE OneLink'
    BY <1>0, <1>17 DEF OneLink, At, BeginReset, Start, Go, Idle, account, rows, cards, history,
       evictions
  <1>18. ASSUME NEW p \in Procs, ResetPassword(p) PROVE OneLink'
    <2>1. ASSUME NEW q \in Procs, At(q, "issue")'
          PROVE  At(q, "issue")
      BY <1>0, <1>18, <2>1 DEF ResetPassword, RevokeAll, Late, Idle, At
    <2> QED
      BY <1>0, <1>18, <2>1 DEF ResetPassword, RevokeAll, Spent, cards, OneLink
  <1>19. ASSUME NEW s \in Sessions, Lapse(s) PROVE OneLink'
    BY <1>0, <1>19 DEF OneLink, At, Lapse, account, rows, cards, history, evictions
  <1>20. ASSUME NEW t \in Tickets, LapseTicket(t) PROVE OneLink'
    BY <1>0, <1>20 DEF OneLink, At, LapseTicket, account, rows, cards, history, evictions
  <1>21. ASSUME NEW k \in Tokens, LapseToken(k) PROVE OneLink'
    BY <1>0, <1>21 DEF OneLink, At, LapseToken, account, rows, cards, history, evictions
  <1>22. ASSUME NEW p \in Procs, Break(p) PROVE OneLink'
    BY <1>0, <1>22 DEF OneLink, At, Break, Go, Idle, account, rows, cards, history, evictions
  <1>23. CASE UNCHANGED vars
    BY <1>23 DEF OneLink, At, vars, account, rows, cards, history, evictions
  <1> QED
    BY <1>1, <1>2, <1>3, <1>4, <1>5, <1>6, <1>7, <1>8, <1>9, <1>10, <1>11, <1>12, <1>13, <1>14,
       <1>15, <1>16, <1>17, <1>18, <1>19, <1>20, <1>21, <1>22, <1>23 DEF Next, Request, Step

\* As long as requests for it do not overlap, one reset link at most is usable.
THEOREM OneResetLinkCorrect == Spec => []OneResetLink
  <1>1. Init => OneLink
    BY DEF Init, OneLink, Idle, At
  <1>2. OneLink => OneResetLink
    <2> SUFFICES ASSUME OneLink, ~issuedTwice
                 PROVE  Cardinality({k \in Tokens : token[k] = "open"}) <= 1
      BY DEF OneResetLink
    <2> DEFINE S == {k \in Tokens : token[k] = "open"}
    <2>1. CASE S = {}
      BY <2>1, FS_EmptySet
    <2>2. CASE S # {}
      <3>1. PICK k : k \in S
        BY <2>2
      <3>2. S = {k}
        BY <3>1 DEF OneLink
      <3> QED
        BY <3>2, FS_Singleton
    <2> QED
      BY <2>1, <2>2
  <1> QED
    BY <1>1, <1>2, TypeCorrect, OneLinkStep, PTL DEF Spec

-----------------------------------------------------------------------------
(* Sessions and the password they go back to.                                *)

\* A session may be accepted as far as its password goes.
Fresh(s) == s \in excused \/ key[s] = chosen

\* Nobody holds a password that was not chosen yet.
Chosen == password <= chosen /\ \A p \in Procs : pc[p].key <= chosen

\* What a request holds for a session is as fresh as the sessions are.
RequestFresh(p) ==
    ~pc[p].late => /\ pc[p].at \in {"upgrade", "open"} => pc[p].key = chosen
                   /\ At(p, "extend") => Fresh(pc[p].session)
                   /\ At(p, "consume") => Fresh(source[pc[p].card])

UpToDate ==
    /\ \A s \in Rows \ revoked : Fresh(s)
    /\ \A p \in Procs : RequestFresh(p)

\* As long as no login brings a password back, the newest one counts, and once the
\* sessions are revoked for it they are all up to date.
Current ==
    /\ Chosen
    /\ ~restored => password = chosen
    /\ ~restored /\ ~unrevoked => UpToDate

\* The ranges that the steps below count on.
LEMMA Ranges ==
    ASSUME TypeOK
    PROVE  /\ pc \in [Procs -> PcRecords]
           /\ password \in Nat /\ chosen \in Nat
           /\ \A s \in Sessions : key[s] \in Nat
           /\ opened \in Nat /\ Rows \subseteq Sessions
           /\ \A p \in Procs : pc[p].key \in Nat /\ pc[p].late \in BOOLEAN
           /\ \A p \in Procs : At(p, "extend") => pc[p].session \in Rows
           /\ \A p \in Procs : At(p, "consume") => /\ pc[p].card \in Tickets
                                                  /\ ticket[pc[p].card] # "absent"
                                                  /\ source[pc[p].card] \in Rows
  <1>1. Passwords \subseteq Nat
    BY SessionAssumption DEF Passwords
  <1>2. opened \in Nat /\ Rows \subseteq Sessions
    BY SessionAssumption DEF TypeOK, RowsOK, Rows, Sessions
  <1>3. password \in Nat /\ chosen \in Nat /\ \A s \in Sessions : key[s] \in Nat
    BY <1>1 DEF TypeOK, AccountOK, RowsOK, HistoryOK
  <1>4. ASSUME NEW p \in Procs
        PROVE  /\ pc[p].key \in Nat /\ pc[p].late \in BOOLEAN
               /\ At(p, "extend") => pc[p].session \in Rows
               /\ At(p, "consume") => pc[p].card \in Tickets /\ source[pc[p].card] \in Rows
    BY <1>1, Records DEF At
  <1>5. /\ pc \in [Procs -> PcRecords]
        /\ \A p \in Procs : At(p, "consume") => ticket[pc[p].card] # "absent"
    BY DEF TypeOK, RequestsOK
  <1> QED
    BY <1>2, <1>3, <1>4, <1>5

\* A new session is as fresh as what it was made from.
LEMMA Opening ==
    ASSUME TypeOK, UpToDate, NEW p \in Procs, NEW k \in Nat, NEW from,
           CreateAuthSession(p, k, from), Go(p, Idle), UNCHANGED <<chosen, source>>,
           pc[p].late \/ from \in excused \/ k = chosen
    PROVE  UpToDate'
  <1> USE Ranges DEF CreateAuthSession
  <1>1. opened' = opened + 1 /\ opened + 1 \in Sessions /\ revoked' = revoked
    BY SessionAssumption DEF Sessions
  <1>2. \A s \in Rows : key'[s] = key[s] /\ (s \in excused => s \in excused')
    BY DEF TypeOK, RowsOK, Rows
  <1>3. key'[opened + 1] = k
    BY <1>1 DEF TypeOK, RowsOK
  <1>4. opened + 1 \in excused' \/ k = chosen
    OBVIOUS
  <1>5. ASSUME NEW s \in Rows' \ revoked' PROVE Fresh(s)'
    <2>1. CASE s \in Rows
      BY <2>1, <1>1, <1>2 DEF UpToDate, Fresh
    <2>2. CASE s = opened + 1
      BY <2>2, <1>1, <1>3, <1>4 DEF Fresh
    <2> QED
      BY <2>1, <2>2, <1>1 DEF Rows
  <1>6. ASSUME NEW q \in Procs PROVE RequestFresh(q)'
    <2>1. CASE q = p
      BY <2>1 DEF RequestFresh, Go, Idle, At
    <2>2. CASE q # p
      <3>1. pc'[q] = pc[q] /\ RequestFresh(q)
        BY <2>2 DEF Go, UpToDate
      <3>2. At(q, "extend") /\ Fresh(pc[q].session) => Fresh(pc[q].session)'
        BY <3>1, <1>1, <1>2 DEF Fresh
      <3>3. At(q, "consume") /\ Fresh(source[pc[q].card]) => Fresh(source[pc[q].card])'
        BY <3>1, <1>1, <1>2 DEF Fresh
      <3> QED
        BY <3>1, <3>2, <3>3, <1>1 DEF RequestFresh, At
    <2> QED
      BY <2>1, <2>2
  <1> QED
    BY <1>1, <1>5, <1>6 DEF UpToDate

\* After all sessions were revoked nobody is owed anything.
LEMMA Revoked ==
    ASSUME TypeOK, Chosen, NEW p \in Procs, RevokeAll(p), password' <= chosen',
           chosen' \in Nat, chosen' >= chosen
    PROVE  Chosen' /\ UpToDate'
  <1> USE Ranges DEF RevokeAll
  <1>1. ASSUME NEW q \in Procs
        PROVE  /\ pc'[q].key <= chosen'
               /\ ~pc'[q].late => pc'[q].at \notin {"upgrade", "open", "extend", "consume"}
    <2>1. CASE q = p
      BY <2>1 DEF Idle
    <2>2. CASE q # p
      <3>1. pc'[q] = Late(q) /\ pc[q] \in PcRecords
        BY <2>2
      <3>2. Late(q).key = pc[q].key /\ Late(q).at = pc[q].at
        BY <3>1 DEF Late, PcRecords
      <3>3. ~Late(q).late => pc[q].at \notin {"upgrade", "open", "extend", "consume"}
        BY <3>1 DEF Late, PcRecords, At
      <3> QED
        BY <3>1, <3>2, <3>3 DEF Chosen
    <2> QED
      BY <2>1, <2>2
  <1>2. Rows' \subseteq revoked'
    BY DEF Rows
  <1> QED
    BY <1>1, <1>2 DEF Chosen, UpToDate, RequestFresh, At

\* Every step keeps Current.
LEMMA CurrentStep == TypeOK /\ Current /\ [Next]_vars => Current'
  <1> SUFFICES ASSUME TypeOK, Current, [Next]_vars PROVE Current'
    OBVIOUS
  <1>0. /\ pc \in [Procs -> PcRecords]
        /\ password \in Nat /\ chosen \in Nat
        /\ \A p \in Procs : pc[p].key \in Nat /\ pc[p].late \in BOOLEAN
        /\ \A p \in Procs : At(p, "extend") => pc[p].session \in Rows
        /\ \A p \in Procs : At(p, "consume") => /\ pc[p].card \in Tickets
                                               /\ ticket[pc[p].card] # "absent"
                                               /\ source[pc[p].card] \in Rows
    BY Ranges
  <1>1. ASSUME NEW p \in Procs, BeginLogin(p) PROVE Current'
    BY <1>0, <1>1 DEF Current, UpToDate, RequestFresh, Chosen, Fresh, Rows, At, BeginLogin, Start,
       Go, Idle, account, rows, cards, history, evictions
  <1>2. ASSUME NEW p \in Procs, Upgrade(p) PROVE Current'
    <2>1. Chosen'
      BY <1>0, <1>2 DEF Current, Chosen, Upgrade, Go, account
    <2>2. ASSUME ~restored' PROVE password' = chosen'
      <3>1. ~restored /\ ~(pc[p].key < password)
        BY <1>2, <2>2 DEF Upgrade
      <3>2. password = chosen /\ pc[p].key <= chosen
        BY <3>1 DEF Current, Chosen
      <3> QED
        BY <1>0, <1>2, <3>1, <3>2 DEF Upgrade
    <2>3. ASSUME ~restored', ~unrevoked' PROVE UpToDate'
      <3>1. UpToDate
        BY <1>2, <2>3 DEF Upgrade, Current, evictions
      <3> QED
        BY <1>0, <1>2, <3>1
           DEF UpToDate, RequestFresh, Fresh, Rows, At, Upgrade, Go, rows, cards, evictions
    <2> QED
      BY <2>1, <2>2, <2>3 DEF Current
  <1>3. ASSUME NEW p \in Procs, Open(p) PROVE Current'
    <2>1. Chosen'
      BY <1>0, <1>3 DEF Current, Chosen, Open, Go, Idle, account
    <2>2. ASSUME ~restored', ~unrevoked' PROVE UpToDate'
      <3>1. UpToDate
        BY <1>3, <2>2 DEF Open, CreateAuthSession, Current
      <3>2. pc[p].late \/ pc[p].key = chosen
        BY <1>3, <3>1 DEF Open, UpToDate, RequestFresh, At
      <3> QED
        BY <1>0, <1>3, <3>1, <3>2, Opening DEF Open, account, cards
    <2> QED
      BY <1>3, <2>1, <2>2 DEF Current, Open, account
  <1>4. ASSUME NEW p \in Procs, NEW s \in Sessions, BeginRefresh(p, s) PROVE Current'
    BY <1>0, <1>4 DEF Current, UpToDate, RequestFresh, Chosen, Fresh, Rows, At, BeginRefresh, Begin,
       Valid, Start, Go, Idle, account, rows, cards, history, evictions
  <1>5. ASSUME NEW p \in Procs, ExtendSession(p) PROVE Current'
    BY <1>0, <1>5 DEF Current, UpToDate, RequestFresh, Chosen, Fresh, Rows, At, ExtendSession, Go,
       Idle, account, rows, cards, history, evictions
  <1>6. ASSUME NEW p \in Procs, NEW s \in Sessions, BeginGuard(p, s) PROVE Current'
    BY <1>0, <1>6 DEF Current, UpToDate, RequestFresh, Chosen, Fresh, Rows, At, BeginGuard, Begin,
       Valid, Start, Go, Idle, account, rows, cards, history, evictions
  <1>7. ASSUME NEW p \in Procs, Touch(p) PROVE Current'
    BY <1>0, <1>7 DEF Current, UpToDate, RequestFresh, Chosen, Fresh, Rows, At, Touch, Go, Idle,
       account, rows, cards, history, evictions
  <1>8. ASSUME NEW s \in Sessions, Logout(s) PROVE Current'
    BY <1>0, <1>8 DEF Current, UpToDate, RequestFresh, Chosen, Fresh, Rows, At, Logout, Valid,
       Extending, account, rows, cards, history, evictions
  <1>9. ASSUME NEW s \in Sessions, NEW t \in Tickets, CreateBridgeTicket(s, t) PROVE Current'
    BY <1>0, <1>9 DEF Current, UpToDate, RequestFresh, Chosen, Fresh, Rows, At, CreateBridgeTicket,
       Valid, account, rows, cards, history, evictions
  <1>10. ASSUME NEW p \in Procs, NEW t \in Tickets, BeginExchange(p, t) PROVE Current'
    BY <1>0, <1>10 DEF Current, UpToDate, RequestFresh, Chosen, Fresh, Rows, At, BeginExchange,
       Valid, Start, Go, Idle, account, rows, cards, history, evictions
  <1>11. ASSUME NEW p \in Procs, Consume(p) PROVE Current'
    <2> DEFINE t == pc[p].card
    <2>1. Chosen'
      BY <1>0, <1>11 DEF Current, Chosen, Consume, Go, Idle, account
    <2>2. ASSUME ~restored', ~unrevoked' PROVE UpToDate'
      <3>1. UpToDate
        BY <1>11, <2>2 DEF Consume, CreateAuthSession, Current, evictions
      <3>2. CASE ticket[t] = "consumed"
        <4>1. Go(p, Idle) /\ UNCHANGED <<chosen, source, rows, evictions>>
          BY <1>11, <3>2 DEF Consume, account
        <4> QED
          BY <1>0, <4>1, <3>1
             DEF UpToDate, RequestFresh, Fresh, Rows, At, Go, Idle, rows, evictions
      <3>3. CASE ticket[t] # "consumed"
        <4>1. /\ CreateAuthSession(p, key[source[t]], source[t])
              /\ Go(p, Idle) /\ UNCHANGED <<chosen, source>>
          BY <1>11, <3>3 DEF Consume, account
        <4>2. key[source[t]] \in Nat
          BY <1>0, <1>11, Ranges DEF Consume
        <4>3. pc[p].late \/ source[t] \in excused \/ key[source[t]] = chosen
          BY <1>11, <3>1 DEF Consume, UpToDate, RequestFresh, Fresh, At
        <4> QED
          BY <3>1, <4>1, <4>2, <4>3, Opening
      <3> QED
        BY <3>2, <3>3
    <2> QED
      BY <1>11, <2>1, <2>2 DEF Current, Consume, account
  <1>12. ASSUME NEW p \in Procs, BeginChange(p) PROVE Current'
    BY <1>0, <1>12 DEF Current, UpToDate, RequestFresh, Chosen, Fresh, Rows, At, BeginChange, Start,
       Go, Idle, account, rows, cards, history, evictions
  <1>13. ASSUME NEW p \in Procs, ChangePassword(p) PROVE Current'
    <2>1. password' = chosen + 1 /\ chosen' = chosen + 1 /\ unrevoked' = TRUE
      BY <1>13 DEF ChangePassword, SetPassword, Choose
    <2>2. Chosen'
      BY <1>0, <1>13, <2>1 DEF Current, Chosen, ChangePassword, Go
    <2> QED
      BY <2>1, <2>2 DEF Current
  <1>14. ASSUME NEW p \in Procs, RevokeUserSessions(p) PROVE Current'
    <2>1. Chosen
      BY DEF Current
    <2>2. password' = password /\ chosen' = chosen /\ password <= chosen /\ RevokeAll(p)
      BY <1>14, <2>1 DEF RevokeUserSessions, account, Chosen
    <2>3. Chosen' /\ UpToDate'
      BY <1>0, <2>1, <2>2, Revoked
    <2> QED
      BY <1>14, <2>2, <2>3 DEF RevokeUserSessions, Current
  <1>15. ASSUME NEW p \in Procs, BeginIssue(p) PROVE Current'
    BY <1>0, <1>15 DEF Current, UpToDate, RequestFresh, Chosen, Fresh, Rows, At, BeginIssue, Spent,
       Start, Go, Idle, account, rows, cards, history, evictions
  <1>16. ASSUME NEW p \in Procs, NEW k \in Tokens, Issue(p, k) PROVE Current'
    BY <1>0, <1>16 DEF Current, UpToDate, RequestFresh, Chosen, Fresh, Rows, At, Issue, Go, Idle,
       account, rows, cards, history, evictions
  <1>17. ASSUME NEW p \in Procs, NEW k \in Tokens, BeginReset(p, k) PROVE Current'
    BY <1>0, <1>17 DEF Current, UpToDate, RequestFresh, Chosen, Fresh, Rows, At, BeginReset, Start,
       Go, Idle, account, rows, cards, history, evictions
  <1>18. ASSUME NEW p \in Procs, ResetPassword(p) PROVE Current'
    <2>1. Chosen
      BY DEF Current
    <2>2. password' = chosen + 1 /\ chosen' = chosen + 1 /\ RevokeAll(p)
      BY <1>18 DEF ResetPassword, SetPassword, Choose
    <2>3. chosen' \in Nat /\ chosen' >= chosen /\ password' <= chosen'
      BY <1>0, <2>2
    <2>4. Chosen' /\ UpToDate'
      BY <2>1, <2>2, <2>3, Revoked
    <2> QED
      BY <2>2, <2>4 DEF Current
  <1>19. ASSUME NEW s \in Sessions, Lapse(s) PROVE Current'
    BY <1>0, <1>19 DEF Current, UpToDate, RequestFresh, Chosen, Fresh, Rows, At, Lapse, account,
       rows, cards, history, evictions
  <1>20. ASSUME NEW t \in Tickets, LapseTicket(t) PROVE Current'
    BY <1>0, <1>20 DEF Current, UpToDate, RequestFresh, Chosen, Fresh, Rows, At, LapseTicket,
       account, rows, cards, history, evictions
  <1>21. ASSUME NEW k \in Tokens, LapseToken(k) PROVE Current'
    BY <1>0, <1>21 DEF Current, UpToDate, RequestFresh, Chosen, Fresh, Rows, At, LapseToken,
       account, rows, cards, history, evictions
  <1>22. ASSUME NEW p \in Procs, Break(p) PROVE Current'
    BY <1>0, <1>22 DEF Current, UpToDate, RequestFresh, Chosen, Fresh, Rows, At, Break, Go, Idle,
       account, rows, cards, history, evictions
  <1>23. CASE UNCHANGED vars
    BY <1>23 DEF Current, UpToDate, RequestFresh, Chosen, Fresh, Rows, At, vars, account, rows,
       cards, history, evictions
  <1> QED
    BY <1>1, <1>2, <1>3, <1>4, <1>5, <1>6, <1>7, <1>8, <1>9, <1>10, <1>11, <1>12, <1>13, <1>14,
       <1>15, <1>16, <1>17, <1>18, <1>19, <1>20, <1>21, <1>22, <1>23 DEF Next, Request, Step

\* Once a change or a reset of the password has revoked the sessions, every accepted
\* session goes back to the newest password.
THEOREM SessionsAreCurrentCorrect == Spec => []SessionsAreCurrent
  <1>1. Init => Current
    BY SessionAssumption
       DEF Init, Current, UpToDate, RequestFresh, Chosen, Fresh, Rows, Sessions, Idle, At
  <1>2. Current => SessionsAreCurrent
    BY DEF Current, UpToDate, Fresh, SessionsAreCurrent, Valid
  <1> QED
    BY <1>1, <1>2, TypeCorrect, CurrentStep, PTL DEF Spec

=============================================================================
