---------------------------- MODULE PremiumTests ----------------------------
(***************************************************************************)
(* The personality tests of one user (personality-tests.service.ts,        *)
(* test-results.service.ts): the questions of the premium test are shown   *)
(* for the birth date in the profile, answered, scored (CoreScoring) and   *)
(* stored.  The questions live in the database and are brought into line   *)
(* with the catalogue of the code on every use                             *)
(* (ensureQuestionCatalog in core-scoring-catalog.service.ts).             *)
(*                                                                         *)
(* A process is a browser tab: it is shown the questions, and may send the *)
(* answers much later.                                                     *)
(***************************************************************************)
EXTENDS CoreScoring, Sequences

CONSTANTS Procs,        \* the user's tabs
          Births,       \* birth dates the profile can hold
          Sheets,       \* how the user answers: [yes, b, c]
          Keys,         \* questions of the catalogue
          MaxResults,   \* bound: results of the user
          MaxRequests   \* bound: requests of the user or about his certificates

ASSUME TestAssumption ==
    /\ Births \subseteq Dates
    /\ Sheets \subseteq [yes: SUBSET (1..6), b: [1..5 -> Elements],
                         c: [Elements -> [1..5 -> Likert]]]
    /\ IsFiniteSet(Keys)
    /\ MaxResults \in Nat
    /\ MaxRequests \in Nat

VARIABLES birth,      \* UserProfile.birthDate
          stored,     \* question -> rows of it in the database
          results,    \* the user's TestResult rows, in the order of createdAt
          pc,         \* tab -> what it is doing
          requests,   \* requests sent, for MaxRequests
          collided    \* history: two synchronisations missed the same question

testVars == <<birth, stored, results, pc, requests, collided>>

NoScore == [engine |-> "none"]
Idle == [at |-> "idle", goal |-> "show", hidden |-> "none", missing |-> {}, score |-> NoScore]
At(p, step) == pc[p].at = step
Go(p, record) == pc' = [pc EXCEPT ![p] = record]

\* Questions may be new to the code, or the database was never seeded.
TestInit ==
    /\ birth \in Births
    /\ stored \in [Keys -> {0, 1}]
    /\ results = <<>>
    /\ pc = [p \in Procs |-> Idle]
    /\ requests = 0
    /\ collided = FALSE

Send == requests < MaxRequests /\ requests' = requests + 1

\* The profile is edited.
UpdateBirthDate(d) ==
    /\ d # birth
    /\ birth' = d
    /\ UNCHANGED <<stored, results, pc, requests, collided>>

\* getCorePremiumQuestions reads the birth date first.
AskQuestions(p) ==
    /\ At(p, "idle") \/ At(p, "shown")
    /\ Send
    /\ Go(p, [Idle EXCEPT !.at = "list", !.hidden = ElementOf(birth)])
    /\ UNCHANGED <<birth, stored, results, collided>>
-----------------------------------------------------------------------------
(* ensureQuestionCatalog.                                                    *)

Missing == {k \in Keys : stored[k] = 0}

\* The rows are read once, ...
ListQuestions(p) ==
    /\ At(p, "list")
    /\ Go(p, [pc[p] EXCEPT !.at = "sync", !.missing = Missing])
    /\ collided' = (collided \/ \E q \in Procs : At(q, "sync") /\ pc[q].missing \cap Missing # {})
    /\ UNCHANGED <<birth, stored, results, requests>>

\* Faulty variant: a row is written for a question that has one.
CreateAnyQuestion(p, k) ==
    /\ At(p, "sync") /\ k \in Keys
    /\ stored' = [stored EXCEPT ![k] = @ + 1]
    /\ Go(p, [pc[p] EXCEPT !.missing = @ \ {k}])
    /\ UNCHANGED <<birth, results, requests, collided>>

\* ... and each question that had none gets one.
CreateQuestion(p, k) ==
    /\ At(p, "sync") /\ k \in pc[p].missing
    /\ stored' = [stored EXCEPT ![k] = @ + 1]
    /\ Go(p, [pc[p] EXCEPT !.missing = @ \ {k}])
    /\ UNCHANGED <<birth, results, requests, collided>>

\* getAllCoreQuestions throws unless there are as many rows as questions.
Complete == \A k \in Keys : stored[k] = 1

EndSync(p) ==
    /\ At(p, "sync") /\ pc[p].missing = {}
    /\ Go(p, IF ~Complete THEN Idle
             ELSE [pc[p] EXCEPT !.at = IF pc[p].goal = "show" THEN "shown" ELSE "save"])
    /\ UNCHANGED <<birth, stored, results, requests, collided>>
-----------------------------------------------------------------------------
(* submitCorePremiumTest.                                                    *)

\* The page sends the groups it was shown.
GroupsOf(sheet, hidden) == [e \in Elements \ {hidden} |-> sheet.c[e]]

\* The groups left out count as none.
Padded(c) == [e \in Elements |-> IF e \in DOMAIN c THEN c[e] ELSE [i \in 1..5 |-> 1]]

\* Faulty variant: groups that were not answered are not refused.
SubmitUnchecked(p, sheet) ==
    LET c == Padded(GroupsOf(sheet, pc[p].hidden))
    IN  /\ At(p, "shown")
        /\ Send
        /\ Go(p, [Idle EXCEPT !.at = "list", !.goal = "save",
                    !.score = [engine |-> "core", asked |-> pc[p].hidden,
                               value |-> Compute(birth, sheet.yes, sheet.b, c)]])
        /\ UNCHANGED <<birth, stored, results, collided>>

\* Scored for the birth date in the profile by now.
Submit(p, sheet) ==
    LET c == GroupsOf(sheet, pc[p].hidden)
    IN  /\ At(p, "shown")
        /\ Answered(birth, c)
        /\ Send
        /\ Go(p, [Idle EXCEPT !.at = "list", !.goal = "save",
                    !.score = [engine |-> "core", asked |-> pc[p].hidden,
                               value |-> Compute(birth, sheet.yes, sheet.b, c)]])
        /\ UNCHANGED <<birth, stored, results, collided>>

Store(score, paid) ==
    /\ Len(results) < MaxResults
    /\ results' = Append(results, [score |-> score, paid |-> paid])

SaveResult(p) ==
    /\ At(p, "save")
    /\ Store(pc[p].score, TRUE)
    /\ Go(p, Idle)
    /\ UNCHANGED <<birth, stored, requests, collided>>

\* submitNewmeTest: the older tests are scored in another way.
SubmitNewme(paid) ==
    /\ Store(NoScore, paid)
    /\ UNCHANGED <<birth, stored, pc, requests, collided>>

\* The tab is closed, or the request ends early: answers refused, a failing
\* write, a restart.
Leave(p) ==
    /\ ~At(p, "idle")
    /\ Go(p, Idle)
    /\ UNCHANGED <<birth, stored, results, requests, collided>>

Tab(p) ==
    \/ AskQuestions(p) \/ ListQuestions(p)
    \/ \E k \in Keys : CreateQuestion(p, k)
    \/ EndSync(p)
    \/ \E sheet \in Sheets : Submit(p, sheet)
    \/ SaveResult(p) \/ Leave(p)

TestNext ==
    \/ \E p \in Procs : Tab(p)
    \/ \E d \in Births : UpdateBirthDate(d)
    \/ \E paid \in BOOLEAN : SubmitNewme(paid)
-----------------------------------------------------------------------------
Scores == {NoScore} \cup [engine: {"core"}, asked: Elements, value: Computed]

PcRecords == [at: {"idle", "list", "sync", "shown", "save"}, goal: {"show", "save"},
              hidden: Elements \cup {"none"}, missing: SUBSET Keys, score: Scores]

TestTypeOK ==
    /\ birth \in Births
    /\ stored \in [Keys -> Nat]
    /\ results \in Seq([score: Scores, paid: BOOLEAN])
    /\ pc \in [Procs -> PcRecords]
    /\ requests \in 0..MaxRequests
    /\ collided \in BOOLEAN

CoreResults == {i \in 1..Len(results) : results[i].score.engine = "core"}

\* The three published shares of a premium result make up 100 percent, and the
\* element of the birth date leads, although it is given what the other two
\* leave over and the code caps that at zero: the cap is never reached, whatever
\* is answered (compute, computeStageFourHundredths).
SharesAddUp ==
    \A i \in CoreResults :
        LET s == results[i].score.value
        IN  /\ s.share1 + s.share2 + s.share3 = 10000
            /\ s.share1 > s.share2 /\ s.share2 >= s.share3 /\ s.share3 > 0

\* The digit of a birth date is its remainder modulo nine, in the range from one
\* to nine: what adding up the digits again and again is a way to find
\* (parseCoreBirthDateToDigits).
DigitIsRemainder == FinalDigit(birth) = 1 + ((birth.day + birth.month + birth.year - 1) % 9)

\* A result is computed from answers to the questions that belong to its birth
\* date, although the profile may change between the questions and the answers
\* ("Elemen Tes C yang sama dengan Dominan_1 selalu di-hidden", engine-scoring.md).
ResultFitsQuestions ==
    \A i \in CoreResults :
        LET s == results[i].score
        IN  s.asked = s.value.element /\ s.asked \notin {s.value.second, s.value.third}

\* A question is never stored twice, which would close the premium test for
\* good (getAllCoreQuestions), through any number of tabs and restarts, unless
\* two synchronisations found the same question missing.
CatalogSound == ~collided => \A k \in Keys : stored[k] <= 1
=============================================================================
