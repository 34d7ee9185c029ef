---------------------------- MODULE Registration ----------------------------
(***************************************************************************)
(* Public registration (auth.service.ts): a pending registration, the      *)
(* one-time code mailed for it, and the account it ends in; with the       *)
(* capacity of the mitra whose code a yayasan registers under              *)
(* (assertMitraHasCapacity, and adminUpdateCapacity in                     *)
(* mitra.controller.ts), and the address an owner gives the account later  *)
(* (updateProfile).                                                        *)
(*                                                                         *)
(* Every applicant here is a yayasan of one mitra; users register the same *)
(* way without the capacity check.                                         *)
(***************************************************************************)
EXTENDS Integers, FiniteSets, Sequences

CONSTANTS Procs,        \* requests that can be under way at once
          Applicants,   \* e-mail addresses
          MaxRows,      \* bound: pending registrations
          MaxAttempts,  \* REGISTER_OTP_MAX_ATTEMPTS
          MaxLimit,     \* bound: the capacity limit
          MaxRequests   \* bound: requests

ASSUME RegistrationAssumption ==
    /\ MaxRows \in Nat
    /\ MaxAttempts \in Nat \ {0}
    /\ MaxLimit \in Nat \ {0}
    /\ MaxRequests \in Nat
    /\ IsFiniteSet(Procs)

Rows == 1..MaxRows
NoRow == 0

VARIABLES made,       \* pending registrations made: the rows are 1..made
          owner,      \* row -> its e-mail address
          attempts,   \* row -> attemptCount
          code,       \* row -> codes mailed for it, the last one counts
          verified,   \* rows with a verifiedAt
          consumed,   \* rows with a consumedAt, or past expiresAt
          address,    \* the accounts, all the mitra's yayasans: each one's e-mail address
          confirmed,  \* accounts with an emailVerifiedAt
          limit,      \* MitraProfile.capacityLimit
          pc,         \* process -> the request it is in
          requests    \* requests sent, for MaxRequests

VARIABLES guesses,    \* history: row -> wrong guesses answered for its current code
          overlapped, \* history: guesses at a row overlapped each other or a resend
          undercut,   \* history: a limit was written below the places taken or
                      \* about to be taken then
          proven,     \* history: addresses whose own code was given back
          registered, \* history: account -> the address it was registered with
          moved,      \* history: accounts that were given another address since
          crowd       \* history: most requests about to write an account, less one

accounts == <<address, confirmed>>
pending == <<made, owner, attempts, code, verified, consumed>>
origins == <<proven, registered, moved>>
history == <<guesses, overlapped, undercut, origins, crowd>>
vars == <<pending, accounts, limit, pc, requests, history>>

Idle == [at |-> "idle", row |-> NoRow, who |-> "none", read |-> 0]
Steps == {"idle", "insert", "wrong", "right", "register", "consume", "limit", "profile"}

Init ==
    /\ made = 0
    /\ owner = [r \in Rows |-> "none"]
    /\ attempts = [r \in Rows |-> 0]
    /\ code = [r \in Rows |-> 0]
    /\ verified = {}
    /\ consumed = {}
    /\ address = <<>>
    /\ confirmed = {}
    /\ limit \in 1..MaxLimit
    /\ pc = [p \in Procs |-> Idle]
    /\ requests = 0
    /\ guesses = [r \in Rows |-> 0]
    /\ overlapped = {}
    /\ undercut = FALSE
    /\ proven = {}
    /\ registered = <<>>
    /\ moved = {}
    /\ crowd = 0

At(p, step) == pc[p].at = step
Go(p, record) == pc' = [pc EXCEPT ![p] = record]

Receive == requests < MaxRequests /\ requests' = requests + 1
Start(p, record) == At(p, "idle") /\ Receive /\ Go(p, record)

\* Addresses that have an account.
Taken == {address[a] : a \in DOMAIN address}

\* getPendingRegistrationOrThrow
Open(r) == r \in 1..made /\ r \notin consumed

\* Faulty variant: the last place is given away twice.
RoomAtLimit == Len(address) <= limit

\* assertMitraHasCapacity
HasCapacity == Len(address) < limit
-----------------------------------------------------------------------------
(* startRegistration                                                         *)

\* Earlier registrations of the address are closed, ...
BeginStart(p, e) ==
    /\ e \notin Taken
    /\ HasCapacity
    /\ Start(p, [Idle EXCEPT !.at = "insert", !.who = e])
    /\ consumed' = consumed \cup {r \in 1..made : owner[r] = e}
    /\ UNCHANGED <<made, owner, attempts, code, verified, accounts, limit, history>>

\* ... then the new one is written and its code mailed.
Insert(p) ==
    /\ At(p, "insert") /\ made < MaxRows
    /\ made' = made + 1
    /\ owner' = [owner EXCEPT ![made + 1] = pc[p].who]
    /\ code' = [code EXCEPT ![made + 1] = 1]
    /\ Go(p, Idle)
    /\ UNCHANGED <<attempts, verified, consumed, accounts, limit, requests, history>>

\* The mail could not be sent, or the ten minutes are over.
Close(r) ==
    /\ Open(r)
    /\ consumed' = consumed \cup {r}
    /\ UNCHANGED <<made, owner, attempts, code, verified, accounts, limit, pc, requests, history>>
-----------------------------------------------------------------------------
(* verifyRegistrationOtp and resendRegistrationOtp                           *)

Guessing(r) == \E p \in Procs : pc[p].row = r /\ pc[p].at \in {"wrong", "right"}

Note(r) == overlapped' = IF Guessing(r) THEN overlapped \cup {r} ELSE overlapped

\* Faulty variant: the attempts are counted but not limited.
BeginVerifyUnlimited(p, r, right) ==
    /\ Open(r) /\ r \notin verified
    /\ Start(p, [Idle EXCEPT !.at = IF right THEN "right" ELSE "wrong",
                             !.row = r, !.read = attempts[r]])
    /\ Note(r)
    /\ proven' = IF right THEN proven \cup {owner[r]} ELSE proven
    /\ UNCHANGED <<pending, accounts, limit, guesses, undercut, registered, moved, crowd>>

\* The row is read and the code compared with the hash in it, ...
BeginVerify(p, r, right) ==
    /\ Open(r) /\ r \notin verified
    /\ attempts[r] < MaxAttempts
    /\ Start(p, [Idle EXCEPT !.at = IF right THEN "right" ELSE "wrong",
                             !.row = r, !.read = attempts[r]])
    /\ Note(r)
    /\ proven' = IF right THEN proven \cup {owner[r]} ELSE proven
    /\ UNCHANGED <<pending, accounts, limit, guesses, undercut, registered, moved, crowd>>

\* ... and one more than the attempts that were read is written.
CountAttempt(p) ==
    /\ At(p, "wrong")
    /\ attempts' = [attempts EXCEPT ![pc[p].row] = pc[p].read + 1]
    /\ guesses' = [guesses EXCEPT ![pc[p].row] = @ + 1]
    /\ Go(p, Idle)
    /\ UNCHANGED <<made, owner, code, verified, consumed, accounts, limit, requests,
                   overlapped, undercut, origins, crowd>>

MarkVerified(p) ==
    /\ At(p, "right")
    /\ verified' = verified \cup {pc[p].row}
    /\ Go(p, Idle)
    /\ UNCHANGED <<made, owner, attempts, code, consumed, accounts, limit, requests, history>>

\* A new code starts with no attempts (its cooldown is over).
Resend(r) ==
    /\ Open(r)
    /\ Receive
    /\ code' = [code EXCEPT ![r] = @ + 1]
    /\ attempts' = [attempts EXCEPT ![r] = 0]
    /\ guesses' = [guesses EXCEPT ![r] = 0]
    /\ Note(r)
    /\ UNCHANGED <<made, owner, verified, consumed, accounts, limit, pc, undercut, origins, crowd>>
-----------------------------------------------------------------------------
(* completeRegistration                                                      *)

Registering == {p \in Procs : At(p, "register")}

Crowd == crowd' = IF Cardinality(Registering) > crowd THEN Cardinality(Registering) ELSE crowd

\* Faulty variant: a registration that was not verified is completed.
BeginCompleteUnverified(p, r) ==
    /\ Open(r)
    /\ owner[r] \notin Taken
    /\ HasCapacity
    /\ Start(p, [Idle EXCEPT !.at = "register", !.row = r, !.who = owner[r]])
    /\ Crowd
    /\ UNCHANGED <<pending, accounts, limit, guesses, overlapped, undercut, origins>>

\* register looks for the address and for a place, ...
BeginComplete(p, r) ==
    /\ Open(r) /\ r \in verified
    /\ owner[r] \notin Taken
    /\ HasCapacity
    /\ Start(p, [Idle EXCEPT !.at = "register", !.row = r, !.who = owner[r]])
    /\ Crowd
    /\ UNCHANGED <<pending, accounts, limit, guesses, overlapped, undercut, origins>>

\* The endpoints of the old clients register without a code.
BeginRegister(p, e) ==
    /\ e \notin Taken
    /\ HasCapacity
    /\ Start(p, [Idle EXCEPT !.at = "register", !.who = e])
    /\ Crowd
    /\ UNCHANGED <<pending, accounts, limit, guesses, overlapped, undercut, origins>>

\* ... and writes the account; the address is unique in the database.
Register(p) ==
    /\ At(p, "register")
    /\ pc[p].who \notin Taken
    /\ address' = Append(address, pc[p].who)
    /\ registered' = Append(registered, pc[p].who)
    /\ confirmed' = IF pc[p].row = NoRow THEN confirmed ELSE confirmed \cup {Len(address) + 1}
    /\ Go(p, IF pc[p].row = NoRow THEN Idle ELSE [pc[p] EXCEPT !.at = "consume"])
    /\ UNCHANGED <<pending, limit, requests, guesses, overlapped, undercut, proven, moved, crowd>>

Consume(p) ==
    /\ At(p, "consume")
    /\ consumed' = consumed \cup {pc[p].row}
    /\ Go(p, Idle)
    /\ UNCHANGED <<made, owner, attempts, code, verified, accounts, limit, requests, history>>
-----------------------------------------------------------------------------
(* updateProfile: the account is read and the new address looked for, ...    *)

\* A request without an address gives the account the one that was read.
BeginProfile(p, a, e) ==
    /\ a \in DOMAIN address
    /\ e = address[a] \/ e \notin Taken
    /\ Start(p, [Idle EXCEPT !.at = "profile", !.read = a, !.who = e])
    /\ UNCHANGED <<pending, accounts, limit, history>>

\* ... then it is written; what confirmed the older address stays.
WriteProfile(p) ==
    LET a == pc[p].read IN
    /\ At(p, "profile")
    /\ \A b \in DOMAIN address \ {a} : address[b] # pc[p].who
    /\ address' = [address EXCEPT ![a] = pc[p].who]
    /\ moved' = IF pc[p].who = address[a] THEN moved ELSE moved \cup {a}
    /\ Go(p, Idle)
    /\ UNCHANGED <<pending, confirmed, limit, requests, guesses, overlapped, undercut,
                   proven, registered, crowd>>
-----------------------------------------------------------------------------
(* adminUpdateCapacity: the use is counted, the new limit written later.     *)

BeginLimit(p, n) ==
    /\ n >= Len(address)
    /\ Start(p, [Idle EXCEPT !.at = "limit", !.read = n])
    /\ UNCHANGED <<pending, accounts, limit, history>>

WriteLimit(p) ==
    /\ At(p, "limit")
    /\ limit' = pc[p].read
    /\ undercut' = (undercut \/ pc[p].read < Len(address) + Cardinality(Registering))
    /\ Go(p, Idle)
    /\ UNCHANGED <<pending, accounts, requests, guesses, overlapped, origins, crowd>>

\* A request that throws, or a restart.
Break(p) ==
    /\ ~At(p, "idle")
    /\ Go(p, Idle)
    /\ UNCHANGED <<pending, accounts, limit, requests, history>>

Step(p) ==
    \/ Insert(p) \/ CountAttempt(p) \/ MarkVerified(p) \/ Register(p) \/ Consume(p)
    \/ WriteProfile(p) \/ WriteLimit(p) \/ Break(p)

Request(p) ==
    \/ \E e \in Applicants : \/ BeginStart(p, e) \/ BeginRegister(p, e)
                             \/ \E a \in DOMAIN address : BeginProfile(p, a, e)
    \/ \E r \in Rows : \/ BeginComplete(p, r)
                       \/ \E right \in BOOLEAN : BeginVerify(p, r, right)
    \/ \E n \in 1..MaxLimit : BeginLimit(p, n)

Next ==
    \/ \E p \in Procs : Request(p) \/ Step(p)
    \/ \E r \in Rows : Resend(r) \/ Close(r)

Spec == Init /\ [][Next]_vars
-----------------------------------------------------------------------------
PcRecords == [at: Steps, row: Rows \cup {NoRow}, who: Applicants \cup {"none"}, read: Nat]

PendingOK ==
    /\ made \in 0..MaxRows
    /\ owner \in [Rows -> Applicants \cup {"none"}]
    /\ \A r \in 1..made : owner[r] \in Applicants
    /\ attempts \in [Rows -> 0..MaxAttempts]
    /\ code \in [Rows -> Nat]
    /\ verified \subseteq 1..made
    /\ consumed \subseteq 1..made

AccountsOK ==
    /\ address \in Seq(Applicants)
    /\ confirmed \subseteq 1..Len(address)
    /\ limit \in 1..MaxLimit

RequestsOK ==
    /\ pc \in [Procs -> PcRecords]
    /\ \A p \in Procs : /\ At(p, "limit") => pc[p].read \in 1..MaxLimit
                        /\ At(p, "wrong") => pc[p].read < MaxAttempts
                        /\ pc[p].at \in {"wrong", "right", "consume"} => pc[p].row \in 1..made
                        /\ pc[p].at \in {"insert", "register", "profile"} => pc[p].who \in Applicants
                        /\ At(p, "profile") => pc[p].read \in 1..Len(address)
                        /\ At(p, "register") => pc[p].row \in {NoRow} \cup 1..made
    /\ requests \in 0..MaxRequests

HistoryOK ==
    /\ guesses \in [Rows -> Nat]
    /\ overlapped \subseteq Rows
    /\ undercut \in BOOLEAN
    /\ proven \subseteq Applicants
    /\ registered \in Seq(Applicants) /\ Len(registered) = Len(address)
    /\ moved \subseteq 1..Len(address)
    /\ crowd \in Nat

TypeOK == PendingOK /\ AccountsOK /\ RequestsOK /\ HistoryOK

\* As long as guesses at a registration overlap neither each other nor a
\* resend, no code can be guessed at wrongly more than MaxAttempts times:
\* attemptCount is read, and one more than what was read is written.
GuessesAreLimited == \A r \in Rows \ overlapped : guesses[r] <= MaxAttempts

\* A confirmed account was registered by somebody who gave back a code mailed
\* to the address it was registered with, through any mixture of registrations
\* restarted, resent, expired, completed twice or made without a code, and has
\* a proven address still. Excepted from the second half is an account whose
\* address was changed since: updateProfile keeps emailVerifiedAt, so nobody
\* need have proven the new one.
ConfirmedIsProven ==
    \A a \in confirmed : /\ registered[a] \in proven
                         /\ a \notin moved => address[a] \in proven

\* A place is looked for before it is taken: the mitra's capacity is exceeded
\* by no more than the registrations that overlapped at that point, not at all
\* when none did, whatever limits are set meanwhile, unless a limit is written
\* below the places that are taken, or about to be, by then.
CapacityHolds == ~undercut => Len(address) <= limit + crowd
=============================================================================
