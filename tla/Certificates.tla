---------------------------- MODULE Certificates ----------------------------
(***************************************************************************)
(* The certificates of the user of PremiumTests                            *)
(* (certificates.controller.ts): preview and download make one when there  *)
(* is none and correct its type, an administrator issues further ones.     *)
(* The number of a certificate is computed from the user and a count of    *)
(* attempts, and unique in the database.                                   *)
(***************************************************************************)
EXTENDS PremiumTests

CONSTANTS Desks,         \* certificate requests that can be under way at once
          MaxAttempts    \* numbers generateCertificateNumber tries

ASSUME CertificateAssumption ==
    /\ IsFiniteSet(Desks)
    /\ MaxAttempts \in Nat \ {0}

Kinds == {"INDIVIDU", "YAYASAN"}
Numbers == 1..MaxAttempts      \* the user's candidates, in the order of attempts
NoResult == 0

VARIABLES kind,      \* the type the user's profile calls for (isYayasanLinked),
                     \* settled at registration
          certs,     \* the IssuedCertificate rows, in the order of issuedAt
          desk,      \* request -> what it is doing
          overlapped \* history: a preview and another request overlapped

certVars == <<kind, certs, desk, overlapped>>
vars == <<testVars, certVars>>

Away == [at |-> "idle", self |-> TRUE, kind |-> "INDIVIDU", result |-> NoResult,
         row |-> 0, number |-> 0]

\* A certificate of an earlier release, whose type nothing ties to the profile.
Earlier == [number |-> 1, kind |-> "INDIVIDU", result |-> NoResult, self |-> TRUE]

Init ==
    /\ TestInit
    /\ kind \in Kinds
    /\ certs \in {<<>>} \cup {<<[Earlier EXCEPT !.kind = k]>> : k \in Kinds}
    /\ desk = [d \in Desks |-> Away]
    /\ overlapped = FALSE

LatestOf(S) == IF S = {} THEN NoResult ELSE CHOOSE i \in S : \A j \in S : j <= i

PaidResults == {i \in 1..Len(results) : results[i].paid}

\* The first query of findLatestCertificateResult.
PaidResult == LatestOf(PaidResults)

Used == {certs[i].number : i \in 1..Len(certs)}

AtDesk(d, step) == desk[d].at = step
Move(d, record) == desk' = [desk EXCEPT ![d] = record]

Visit(d, self) ==
    /\ AtDesk(d, "idle")
    /\ Send
    /\ overlapped' = (overlapped \/ \E o \in Desks : /\ ~AtDesk(o, "idle")
                                                     /\ self \/ desk[o].self)
-----------------------------------------------------------------------------
(* resolveCertificateSourceData: the type, and the latest paid result, else  *)
(* the latest.                                                               *)

AfterSource(self) == IF self THEN "find" ELSE "number"

Begin(d, self) ==
    /\ Visit(d, self)
    /\ Move(d, [Away EXCEPT !.at = IF PaidResult = NoResult THEN "source" ELSE AfterSource(self),
                            !.self = self, !.kind = kind, !.result = PaidResult])
    /\ UNCHANGED <<birth, stored, results, pc, collided, kind, certs>>

\* The second query, when there was no paid one.  issue refuses a user without a
\* result, preview and download go on.
ReadLatest(d) ==
    /\ AtDesk(d, "source")
    /\ Move(d, IF Len(results) > 0
               THEN [desk[d] EXCEPT !.at = AfterSource(desk[d].self), !.result = Len(results)]
               ELSE IF desk[d].self THEN [desk[d] EXCEPT !.at = "find"] ELSE Away)
    /\ UNCHANGED <<testVars, kind, certs, overlapped>>
-----------------------------------------------------------------------------
(* getCertificateSourceData, behind preview-data and generate-newme.         *)

\* Faulty variant: an earlier certificate is not looked for.
FindNothing(d) ==
    /\ AtDesk(d, "find")
    /\ Move(d, [desk[d] EXCEPT !.at = "number"])
    /\ UNCHANGED <<testVars, kind, certs, overlapped>>

\* The latest certificate is kept, corrected or, when there is none, made.
FindLatest(d) ==
    /\ AtDesk(d, "find")
    /\ LET n == Len(certs)
       IN  Move(d, CASE n = 0                          -> [desk[d] EXCEPT !.at = "number"]
                     [] n > 0 /\ certs[n].kind = desk[d].kind -> Away
                     [] OTHER -> [desk[d] EXCEPT !.at = "correct", !.row = n])
    /\ UNCHANGED <<testVars, kind, certs, overlapped>>

CorrectKind(d) ==
    /\ AtDesk(d, "correct")
    /\ certs' = [certs EXCEPT ![desk[d].row].kind = desk[d].kind]
    /\ Move(d, Away)
    /\ UNCHANGED <<testVars, kind, overlapped>>

\* Faulty variant: one candidate more than the certificate may have.
ChooseBeyond(d) ==
    /\ AtDesk(d, "number")
    /\ \E n \in (1..MaxAttempts + 1) \ Used :
          /\ \A m \in Numbers \ Used : n <= m
          /\ Move(d, [desk[d] EXCEPT !.at = "create", !.number = n])
    /\ UNCHANGED <<testVars, kind, certs, overlapped>>

\* generateCertificateNumber: the first candidate that is free.
ChooseNumber(d) ==
    /\ AtDesk(d, "number")
    /\ \E n \in Numbers \ Used :
          /\ \A m \in Numbers \ Used : n <= m
          /\ Move(d, [desk[d] EXCEPT !.at = "create", !.number = n])
    /\ UNCHANGED <<testVars, kind, certs, overlapped>>

\* A certificate of preview or download
\* may name no result; issue makes one whatever certificates there are.
CreateCertificate(d) ==
    /\ AtDesk(d, "create")
    /\ desk[d].number \notin Used
    /\ certs' = Append(certs, [number |-> desk[d].number, kind |-> desk[d].kind,
                               result |-> desk[d].result, self |-> desk[d].self])
    /\ Move(d, Away)
    /\ UNCHANGED <<testVars, kind, overlapped>>

\* A request ends early: the number was taken meanwhile, or a restart.
GiveUp(d) ==
    /\ ~AtDesk(d, "idle")
    /\ Move(d, Away)
    /\ UNCHANGED <<testVars, kind, certs, overlapped>>

Serve(d) ==
    \/ \E self \in BOOLEAN : Begin(d, self)
    \/ ReadLatest(d) \/ FindLatest(d) \/ CorrectKind(d)
    \/ ChooseNumber(d) \/ CreateCertificate(d) \/ GiveUp(d)

Next ==
    \/ TestNext /\ UNCHANGED certVars
    \/ \E d \in Desks : Serve(d)

Spec == Init /\ [][Next]_vars
-----------------------------------------------------------------------------
Rows == 1..Len(certs)

DeskRecords == [at: {"idle", "source", "find", "correct", "number", "create"}, self: BOOLEAN,
                kind: Kinds, result: 0..MaxResults, row: Nat, number: 0..MaxAttempts]

TypeOK ==
    /\ TestTypeOK
    /\ kind \in Kinds
    /\ certs \in Seq([number: Numbers, kind: Kinds, result: 0..MaxResults, self: BOOLEAN])
    /\ desk \in [Desks -> DeskRecords]
    /\ \A d \in Desks : /\ AtDesk(d, "correct") => desk[d].row \in Rows
                        /\ AtDesk(d, "create") => desk[d].number \in Numbers
    /\ overlapped \in BOOLEAN

\* Previews and downloads make no second certificate of a user: as long as they
\* overlap with no other certificate request, what one of them made is the first
\* (getCertificateSourceData looks, chooses a number and inserts in three steps).
OneSelfMade == ~overlapped => \A i \in Rows : certs[i].self => i = 1
=============================================================================
