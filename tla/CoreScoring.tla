---------------------------- MODULE CoreScoring ----------------------------
(***************************************************************************)
(* The premium scoring engine (core-scoring.engine.service.ts and          *)
(* core-scoring.constants.ts): the birth date gives the first dominant     *)
(* element, the three tests give its modifier and the scores of the other  *)
(* four elements, of which the two highest are published.                  *)
(*                                                                         *)
(* Percentages are counted in hundredths, as in the code; writing them     *)
(* with two decimals (hundredthsToNumber) changes nothing.                 *)
(***************************************************************************)
EXTENDS Integers, FiniteSets

Elements == {"Tanah", "Logam", "Air", "Kayu", "Api"}
SocialTypes == {"introvert", "extrovert", "ambivert"}

\* What formatDateToCoreDob writes as DD-MM-YYYY and the parser accepts.
Years == 1000..9999
Dates == [day: 1..31, month: 1..12, year: Years]
-----------------------------------------------------------------------------
(* Stage one: the birth date.                                                *)

DigitTotal(d) ==
    (d.day \div 10) + (d.day % 10) + (d.month \div 10) + (d.month % 10)
    + (d.year \div 1000) + ((d.year \div 100) % 10) + ((d.year \div 10) % 10) + (d.year % 10)

\* The loop of parseCoreBirthDateToDigits adds the digits up again while there
\* are two of them; no date needs more than two rounds.
Round(n) == IF n > 9 THEN (n \div 10) + (n % 10) ELSE n

\* Faulty variant: one round.
FinalDigitOnce(d) == Round(DigitTotal(d))

FinalDigit(d) == Round(Round(DigitTotal(d)))

\* CORE_PERSONALITY_DIGIT_MAP
ElementOfDigit == <<"Logam", "Api", "Tanah", "Tanah", "Api", "Kayu", "Kayu", "Logam", "Air">>
TypeOfDigit == <<"introvert", "extrovert", "introvert", "extrovert", "introvert",
                 "extrovert", "introvert", "extrovert", "ambivert">>

ElementOf(d) == ElementOfDigit[FinalDigit(d)]
Shown(d) == Elements \ {ElementOf(d)}     \* the Tes C groups that are asked
-----------------------------------------------------------------------------
(* Tes A: the questions answered with yes.                                   *)

IntrovertPoints(yes) == Cardinality((yes \cap 1..3) \cup (4..6 \ yes))
ExtrovertPoints(yes) == Cardinality((1..3 \ yes) \cup (yes \cap 4..6))

Modifier(natural, yes) ==
    LET i == IntrovertPoints(yes)
        e == ExtrovertPoints(yes)
    IN  CASE i = e -> "#"
          [] i > e /\ natural = "introvert" -> "+"
          [] i < e /\ natural = "extrovert" -> "+"
          [] OTHER -> "-"
-----------------------------------------------------------------------------
(* Tes B: five choices of an element, the last one weighs five.  Tes C: for  *)
(* each group that is asked, five answers of 10, 7, 4 or 1 point.            *)

Likert == {1, 4, 7, 10}

\* Faulty variant: every element gets the points of the heavy question.
VotesForAll(b, e) == Cardinality({q \in 1..4 : b[q] = e}) + 5

Votes(b, e) ==
    (IF b[1] = e THEN 1 ELSE 0) + (IF b[2] = e THEN 1 ELSE 0) + (IF b[3] = e THEN 1 ELSE 0)
    + (IF b[4] = e THEN 1 ELSE 0) + (IF b[5] = e THEN 5 ELSE 0)

TotalC(c, e) == c[e][1] + c[e][2] + c[e][3] + c[e][4] + c[e][5]

\* Faulty variant: divided by the points one group can give.
HundredthsOfGroup(b, c, e) == (TotalC(c, e) * 10000) \div 50 + Votes(b, e) * 100

\* computeStageFourHundredths
Hundredths(b, c, e) == (TotalC(c, e) * 10000) \div 220 + Votes(b, e) * 100

\* CORE_ELEMENT_TIE_BREAK_PRIORITY
Priority == [Api |-> 0, Logam |-> 1, Tanah |-> 2, Air |-> 3, Kayu |-> 4]

\* sortCoreElementScoreEntries
Before(b, c, e, f) ==
    \/ Hundredths(b, c, e) > Hundredths(b, c, f)
    \/ /\ Hundredths(b, c, e) = Hundredths(b, c, f)
       /\ \/ Votes(b, e) > Votes(b, f)
          \/ Votes(b, e) = Votes(b, f) /\ Priority[e] < Priority[f]

FirstOf(b, c, S) == CHOOSE e \in S : \A f \in S \ {e} : Before(b, c, e, f)

\* assertValidTesC: every group that is asked has its five answers.
Answered(d, c) == Shown(d) \subseteq DOMAIN c

\* compute
Compute(d, yes, b, c) ==
    LET second == FirstOf(b, c, Shown(d))
        third == FirstOf(b, c, Shown(d) \ {second})
        rest == 10000 - Hundredths(b, c, second) - Hundredths(b, c, third)
    IN  [element  |-> ElementOf(d),
         modifier |-> Modifier(TypeOfDigit[FinalDigit(d)], yes),
         second   |-> second,
         third    |-> third,
         share1   |-> IF rest < 0 THEN 0 ELSE rest,
         share2   |-> Hundredths(b, c, second),
         share3   |-> Hundredths(b, c, third)]

Computed == [element: Elements, modifier: {"+", "-", "#"}, second: Elements, third: Elements,
             share1: Nat, share2: Nat, share3: Nat]
=============================================================================
