------------------------------ MODULE Sessions ------------------------------
(***************************************************************************)
(* The sign-in sessions of one user account (auth.service.ts): login,      *)
(* refresh, logout, the bridge ticket that carries a session over to the   *)
(* other site, changing and resetting the password, and the guard that     *)
(* every authenticated request passes (jwt-auth.guard.ts).                 *)
(*                                                                         *)
(* A request is a process: it reads rows, and what it writes later does    *)
(* not look at them again unless the code does.                            *)
(***************************************************************************)
EXTENDS Integers, FiniteSets

CONSTANTS Procs,         \* requests that can be under way at once
          MaxSessions,   \* bound: sessions ever opened
          MaxPasswords,  \* bound: passwords set after the first
          MaxRequests,   \* bound: requests of more than one step
          Tickets,       \* bridge tickets
          Tokens         \* password reset tokens

ASSUME SessionAssumption == 
    /\ MaxSessions \in Nat \ {0}
    /\ MaxPasswords \in Nat
    /\ MaxRequests \in Nat

Sessions == 1..MaxSessions
Passwords == 0..MaxPasswords   \* in the order in which they were chosen
NoSession == 0

VARIABLES password,   \* the password that User.passwordHash stands for
          chosen,     \* passwords chosen so far
          legacy,     \* the hash is of the old kind, a login rewrites it
          opened,     \* sessions opened: the rows are 1..opened
          lapsed,     \* sessions whose expiresAt has passed
          revoked,    \* sessions with a revokedAt
          key,        \* session -> the password it goes back to
          ticket,     \* bridge ticket -> its state
          source,     \* bridge ticket -> the session it was made from
          token,      \* reset token -> its state
          pc,         \* process -> the request it is in
          requests    \* requests sent, for MaxRequests

VARIABLES unrevoked,  \* history: a password was written, no revocation followed yet
          excused,    \* history: sessions of requests that were under way when all
                      \* sessions were last revoked, and what bridge tickets
                      \* made of them
          gone,       \* history: sessions revoked while no request extended them
          exchanged,  \* history: ticket -> sessions it was exchanged for
          issuedTwice,\* history: two reset requests were under way at once
          restored    \* history: a login wrote an older password back

account == <<password, chosen, legacy>>
rows == <<opened, lapsed, revoked, key>>
cards == <<ticket, source>>
evictions == <<unrevoked, excused, gone>>
history == <<evictions, exchanged, issuedTwice, restored>>
vars == <<account, rows, cards, token, pc, requests, history>>

Steps == {"idle", "upgrade", "open", "extend", "touch", "consume",
          "issue", "reset", "change", "revoke"}
Idle == [at |-> "idle", session |-> NoSession, key |-> 0, card |-> "none", late |-> FALSE]

\* The user is signed in on one device.
Init ==
    /\ password = 0
    /\ chosen = 0
    /\ legacy \in BOOLEAN
    /\ opened = 1
    /\ lapsed = {}
    /\ revoked = {}
    /\ key = [s \in Sessions |-> 0]
    /\ ticket = [t \in Tickets |-> "absent"]
    /\ source = [t \in Tickets |-> NoSession]
    /\ token = [k \in Tokens |-> "absent"]
    /\ pc = [p \in Procs |-> Idle]
    /\ requests = 0
    /\ unrevoked = FALSE
    /\ excused = {}
    /\ gone = {}
    /\ exchanged = [t \in Tickets |-> 0]
    /\ issuedTwice = FALSE
    /\ restored = FALSE

At(p, step) == pc[p].at = step
Go(p, record) == pc' = [pc EXCEPT ![p] = record]

Start(p, record) ==
    /\ At(p, "idle")
    /\ requests < MaxRequests
    /\ requests' = requests + 1
    /\ Go(p, record)

Rows == 1..opened

\* Faulty variant: the revocation is not looked at.
ValidUnlessLapsed(s) == s \in Rows /\ s \notin lapsed

\* Faulty variant: a session that is not there passes.
ValidUnlessRevoked(s) == s \notin revoked /\ s \notin lapsed

\* getValidSessionOrThrow, findSessionByRefreshToken, the guard.
Valid(s) == s \in Rows /\ s \notin revoked /\ s \notin lapsed
-----------------------------------------------------------------------------
(* Login, refresh, the guard and logout.                                     *)

\* The password is verified against the hash as it is now.
BeginLogin(p) ==
    /\ opened < MaxSessions
    /\ Start(p, [Idle EXCEPT !.at = IF legacy THEN "upgrade" ELSE "open", !.key = password])
    /\ UNCHANGED <<account, rows, cards, token, history>>

\* The verified password is hashed anew, whatever the hash is by now.
Upgrade(p) ==
    /\ At(p, "upgrade")
    /\ password' = pc[p].key
    /\ legacy' = FALSE
    /\ restored' = (restored \/ pc[p].key < password)
    /\ Go(p, [pc[p] EXCEPT !.at = "open"])
    /\ UNCHANGED <<requests, chosen, rows, cards, token, evictions, exchanged, issuedTwice>>

\* createAuthSessionWithClient
CreateAuthSession(p, k, from) ==
    /\ opened < MaxSessions
    /\ opened' = opened + 1
    /\ key' = [key EXCEPT ![opened + 1] = k]
    /\ excused' = IF pc[p].late \/ from \in excused
                  THEN excused \cup {opened + 1} ELSE excused
    /\ UNCHANGED <<lapsed, revoked, unrevoked, gone>>

Open(p) ==
    /\ At(p, "open")
    /\ CreateAuthSession(p, pc[p].key, NoSession)
    /\ Go(p, Idle)
    /\ UNCHANGED <<requests, account, cards, token, exchanged, issuedTwice, restored>>

Begin(p, s, step) ==
    /\ Valid(s)
    /\ Start(p, [Idle EXCEPT !.at = step, !.session = s])
    /\ UNCHANGED <<account, rows, cards, token, history>>

\* By refresh token or by the session of the request: both read first ...
BeginRefresh(p, s) == Begin(p, s, "extend")

\* ... and extendSession clears revokedAt blindly.
ExtendSession(p) ==
    /\ At(p, "extend")
    /\ LET s == pc[p].session
       IN  /\ lapsed' = lapsed \ {s}
           /\ revoked' = revoked \ {s}
           /\ excused' = IF pc[p].late THEN excused \cup {s} ELSE excused
    /\ Go(p, Idle)
    /\ UNCHANGED <<requests, account, opened, key, cards, token, unrevoked, gone, exchanged,
                   issuedTwice, restored>>

\* The guard extends a session that is about to expire.
BeginGuard(p, s) == Begin(p, s, "touch")

Touch(p) ==
    /\ At(p, "touch")
    /\ lapsed' = lapsed \ {pc[p].session}
    /\ Go(p, Idle)
    /\ UNCHANGED <<requests, account, opened, revoked, key, cards, token, history>>

Extending(s) == \E p \in Procs : At(p, "extend") /\ pc[p].session = s

Logout(s) ==
    /\ Valid(s)
    /\ revoked' = revoked \cup {s}
    /\ lapsed' = lapsed \cup {s}
    /\ gone' = IF Extending(s) THEN gone ELSE gone \cup {s}
    /\ UNCHANGED <<requests, account, opened, key, cards, token, pc, unrevoked, excused, exchanged,
                   issuedTwice, restored>>
-----------------------------------------------------------------------------
(* Bridge tickets.                                                           *)

CreateBridgeTicket(s, t) ==
    /\ Valid(s) /\ ticket[t] = "absent"
    /\ ticket' = [ticket EXCEPT ![t] = "open"]
    /\ source' = [source EXCEPT ![t] = s]
    /\ UNCHANGED <<requests, account, rows, token, pc, history>>

\* The transaction of exchangeBridgeTicket: ticket and source session are read ...
BeginExchange(p, t) ==
    /\ ticket[t] = "open" /\ Valid(source[t])
    /\ Start(p, [Idle EXCEPT !.at = "consume", !.card = t])
    /\ UNCHANGED <<account, rows, cards, token, history>>

\* Faulty variant: consumed without the condition that it was not.
ConsumeBlindly(p) ==
    /\ At(p, "consume")
    /\ LET t == pc[p].card
       IN  /\ ticket' = [ticket EXCEPT ![t] = "consumed"]
           /\ CreateAuthSession(p, key[source[t]], source[t])
           /\ exchanged' = [exchanged EXCEPT ![t] = @ + 1]
    /\ Go(p, Idle)
    /\ UNCHANGED <<requests, account, source, token, issuedTwice, restored>>

\* ... then it is consumed if nobody else has, and the session opened.
Consume(p) ==
    /\ At(p, "consume")
    /\ LET t == pc[p].card
       IN  \/ /\ ticket[t] # "consumed"
              /\ ticket' = [ticket EXCEPT ![t] = "consumed"]
              /\ CreateAuthSession(p, key[source[t]], source[t])
              /\ exchanged' = [exchanged EXCEPT ![t] = @ + 1]
           \/ /\ ticket[t] = "consumed"
              /\ UNCHANGED <<rows, ticket, evictions, exchanged>>
    /\ Go(p, Idle)
    /\ UNCHANGED <<requests, account, source, token, issuedTwice, restored>>
-----------------------------------------------------------------------------
(* Changing and resetting the password.                                      *)

Choose == chosen < MaxPasswords /\ chosen' = chosen + 1

SetPassword ==
    /\ Choose
    /\ password' = chosen + 1
    /\ legacy' = FALSE

Late(q) == [pc[q] EXCEPT !.late = @ \/ At(q, "upgrade") \/ At(q, "open")
                                    \/ At(q, "extend") \/ At(q, "consume")]

\* revokeUserSessions by p; what others are about to do to a session is late.
RevokeAll(p) ==
    /\ revoked' = revoked \cup Rows
    /\ unrevoked' = FALSE
    /\ excused' = {}
    /\ gone' = gone \cup {s \in Rows \ revoked : ~Extending(s)}
    /\ pc' = [q \in Procs |-> IF q = p THEN Idle ELSE Late(q)]
    /\ UNCHANGED <<opened, lapsed, key>>

\* The current password is verified ...
BeginChange(p) ==
    /\ Start(p, [Idle EXCEPT !.at = "change"])
    /\ UNCHANGED <<account, rows, cards, token, history>>

ChangePassword(p) ==
    /\ At(p, "change")
    /\ SetPassword
    /\ unrevoked' = TRUE
    /\ Go(p, [pc[p] EXCEPT !.at = "revoke"])
    /\ UNCHANGED <<requests, rows, cards, token, excused, gone, exchanged, issuedTwice, restored>>

\* ... and the sessions are revoked in a write of its own, unless it fails.
RevokeUserSessions(p) ==
    /\ At(p, "revoke")
    /\ RevokeAll(p)
    /\ UNCHANGED <<requests, account, cards, token, exchanged, issuedTwice, restored>>

Spent == [k \in Tokens |-> IF token[k] = "absent" THEN "absent" ELSE "used"]

\* Faulty variant: earlier links stay usable.
BeginIssueKeepingOthers(p) ==
    /\ issuedTwice' = (issuedTwice \/ \E q \in Procs : At(q, "issue"))
    /\ Start(p, [Idle EXCEPT !.at = "issue"])
    /\ UNCHANGED <<token, account, rows, cards, evictions, exchanged, restored>>

\* issuePasswordResetToken: earlier links are spent, the new one is written later.
BeginIssue(p) ==
    /\ token' = Spent
    /\ issuedTwice' = (issuedTwice \/ \E q \in Procs : At(q, "issue"))
    /\ Start(p, [Idle EXCEPT !.at = "issue"])
    /\ UNCHANGED <<account, rows, cards, evictions, exchanged, restored>>

Issue(p, k) ==
    /\ At(p, "issue")
    /\ token[k] = "absent"
    /\ token' = [token EXCEPT ![k] = "open"]
    /\ Go(p, Idle)
    /\ UNCHANGED <<requests, account, rows, cards, history>>

\* resetPassword looks at the token before its transaction ...
BeginReset(p, k) ==
    /\ token[k] = "open"
    /\ Start(p, [Idle EXCEPT !.at = "reset"])
    /\ UNCHANGED <<account, rows, cards, token, history>>

\* Faulty variant: the sessions are left alone.
ResetKeepingSessions(p) ==
    /\ At(p, "reset")
    /\ SetPassword
    /\ token' = Spent
    /\ Go(p, Idle)
    /\ UNCHANGED <<requests, rows, cards, history>>

\* ... and not again in it.
ResetPassword(p) ==
    /\ At(p, "reset")
    /\ SetPassword
    /\ token' = Spent
    /\ RevokeAll(p)
    /\ UNCHANGED <<requests, cards, exchanged, issuedTwice, restored>>
-----------------------------------------------------------------------------
\* Time, and a request that ends early: refused, thrown out of or cut off.
Lapse(s) ==
    /\ s \in Rows \ lapsed
    /\ lapsed' = lapsed \cup {s}
    /\ UNCHANGED <<requests, account, opened, revoked, key, cards, token, pc, history>>

LapseTicket(t) ==
    /\ ticket[t] = "open"
    /\ ticket' = [ticket EXCEPT ![t] = "lapsed"]
    /\ UNCHANGED <<requests, account, rows, source, token, pc, history>>

\* The 30 minutes of a link are over, or its mail could not be sent.
LapseToken(k) ==
    /\ token[k] = "open"
    /\ token' = [token EXCEPT ![k] = "used"]
    /\ UNCHANGED <<requests, account, rows, cards, pc, history>>

Break(p) ==
    /\ ~At(p, "idle")
    /\ Go(p, Idle)
    /\ UNCHANGED <<requests, account, rows, cards, token, history>>

Request(p) ==
    \/ BeginLogin(p) \/ BeginChange(p) \/ BeginIssue(p)
    \/ \E s \in Sessions : BeginRefresh(p, s) \/ BeginGuard(p, s)
    \/ \E t \in Tickets : BeginExchange(p, t)
    \/ \E k \in Tokens : BeginReset(p, k)

Step(p) ==
    \/ Upgrade(p) \/ Open(p) \/ ExtendSession(p) \/ Touch(p) \/ Consume(p)
    \/ ChangePassword(p) \/ RevokeUserSessions(p) \/ ResetPassword(p)
    \/ \E k \in Tokens : Issue(p, k)
    \/ Break(p)

Next ==
    \/ \E p \in Procs : Request(p) \/ Step(p)
    \/ \E s \in Sessions : \/ Logout(s) \/ Lapse(s)
                           \/ \E t \in Tickets : CreateBridgeTicket(s, t)
    \/ \E t \in Tickets : LapseTicket(t)
    \/ \E k \in Tokens : LapseToken(k)

Spec == Init /\ [][Next]_vars
-----------------------------------------------------------------------------
PcRecords == [at: Steps, session: Sessions \cup {NoSession}, key: Passwords,
              card: Tickets \cup {"none"}, late: BOOLEAN]

AccountOK == password \in Passwords /\ chosen \in Passwords /\ legacy \in BOOLEAN

RowsOK ==
    /\ opened \in Sessions
    /\ lapsed \subseteq Sessions /\ revoked \subseteq Sessions
    /\ key \in [Sessions -> Passwords]

CardsOK ==
    /\ ticket \in [Tickets -> {"absent", "open", "consumed", "lapsed"}]
    /\ source \in [Tickets -> Sessions \cup {NoSession}]
    /\ \A t \in Tickets : ticket[t] # "absent" => source[t] \in Rows
    /\ token \in [Tokens -> {"absent", "open", "used"}]

RequestsOK ==
    /\ pc \in [Procs -> PcRecords]
    /\ \A p \in Procs : /\ pc[p].at \in {"extend", "touch"} => pc[p].session \in Rows
                        /\ At(p, "consume") => /\ pc[p].card \in Tickets
                                               /\ ticket[pc[p].card] # "absent"
    /\ requests \in 0..MaxRequests

HistoryOK ==
    /\ unrevoked \in BOOLEAN
    /\ excused \subseteq Sessions /\ gone \subseteq Sessions
    /\ exchanged \in [Tickets -> Nat]
    /\ issuedTwice \in BOOLEAN /\ restored \in BOOLEAN

TypeOK == AccountOK /\ RowsOK /\ CardsOK /\ RequestsOK /\ HistoryOK

\* A session that was revoked while no refresh of it was under way is never
\* accepted again, although extendSession clears revokedAt of whatever session
\* it is given.
RevokedIsFinal == gone \subseteq revoked

\* A bridge ticket opens one session, however many exchanges of it overlap
\* (the conditional updateMany of exchangeBridgeTicket).
TicketOnce == \A t \in Tickets : exchanged[t] <= 1

\* Once a change or a reset of the password has revoked the sessions, every
\* session that is accepted goes back to the newest password chosen, directly or
\* over any chain of bridge tickets. Excepted are the sessions of requests that
\* were under way at the revocation; the time from the write of a change to the
\* next revocation, which never comes if the change fails in between; and
\* accounts to which a login brought back the password it had verified before.
SessionsAreCurrent ==
    ~restored /\ ~unrevoked => \A s \in Rows \ excused : Valid(s) => key[s] = chosen

\* As long as requests for it do not overlap, one reset link at most is usable.
OneResetLink == ~issuedTwice => Cardinality({k \in Tokens : token[k] = "open"}) <= 1
=============================================================================
