------------------------- MODULE CertificatesProofs -------------------------
(***************************************************************************)
(* Proofs about Certificates and the modules below it: the scoring engine  *)
(* for every birth date and every sheet of answers, the tests and the      *)
(* certificates for any number of tabs, requests, questions and results.   *)
(***************************************************************************)
EXTENDS Certificates, FiniteSetTheorems, SequenceTheorems, WellFoundedInduction, TLAPS

(* The digit of a birth date.                                                *)

\* Adding up the digits twice leaves one digit, the remainder modulo nine.
LEMMA Digits ==
    ASSUME NEW n \in 1..99
    PROVE  Round(Round(n)) \in 1..9 /\ Round(Round(n)) = 1 + ((n - 1) % 9)
  BY Z3 DEF Round

\* Multiples of nine do not change the remainder.
LEMMA CastingOut ==
    ASSUME NEW n \in Nat, NEW m \in Nat, NEW k \in Nat, n = m + 9 * k, m >= 1
    PROVE  (n - 1) % 9 = (m - 1) % 9
  BY Z3

\* The digits of a day, a month and a year, added up.
DigitsOf(d, m, y) ==
    (d \div 10) + (d % 10) + (m \div 10) + (m % 10)
    + (y \div 1000) + ((y \div 100) % 10) + ((y \div 10) % 10) + (y % 10)

\* The years of a date without their last digit.
Decades == 100..999

\* They differ from day, month and year by a multiple of nine.
LEMMA DigitSum ==
    ASSUME NEW d \in 1..31, NEW m \in 1..12, NEW y \in Years
    PROVE  DigitsOf(d, m, y) \in 1..99 /\ (d + m + y - 1) % 9 = (DigitsOf(d, m, y) - 1) % 9
  <1>1. PICK a \in Decades, r \in 0..9 : y = 10 * a + r
    <2> DEFINE front == y \div 10
               last == y % 10
    <2>1. front \in Decades /\ last \in 0..9 /\ y = 10 * front + last
      BY Z3 DEF Years, Decades
    <2> HIDE DEF front, last
    <2> QED
      BY <2>1
  <1>2. PICK b \in 10..99, s \in 0..9 : a = 10 * b + s
    <2>1. (a \div 10) \in 10..99 /\ (a % 10) \in 0..9 /\ a = 10 * (a \div 10) + (a % 10)
      BY Z3 DEF Decades
    <2> QED
      BY <2>1
  <1>3. PICK c \in 1..9, t \in 0..9 : b = 10 * c + t
    <2>1. (b \div 10) \in 1..9 /\ (b % 10) \in 0..9 /\ b = 10 * (b \div 10) + (b % 10)
      BY Z3
    <2> QED
      BY <2>1
  <1>4. (y % 10) = r /\ ((y \div 10) % 10) = s /\ ((y \div 100) % 10) = t /\ (y \div 1000) = c
    <2>1. (y \div 10) = a /\ (y % 10) = r
      BY <1>1, Z3 DEF Decades
    <2>2. (y \div 100) = b
      BY <1>1, <1>2, Z3 DEF Decades
    <2>3. (y \div 1000) = c
      BY <1>1, <1>2, <1>3, Z3 DEF Decades
    <2>4. (a % 10) = s
      BY <1>2, Z3
    <2>5. (b % 10) = t
      BY <1>3, Z3
    <2> QED
      BY <2>1, <2>2, <2>3, <2>4, <2>5
  <1>5. PICK e \in 0..3, f \in 0..9 : d \div 10 = e /\ (d % 10) = f /\ d = 10 * e + f
    <2>1. (d \div 10) \in 0..3 /\ (d % 10) \in 0..9 /\ d = 10 * (d \div 10) + (d % 10)
      BY Z3
    <2> QED
      BY <2>1
  <1>6. PICK g \in 0..1, h \in 0..9 : m \div 10 = g /\ (m % 10) = h /\ m = 10 * g + h
    <2>1. (m \div 10) \in 0..1 /\ (m % 10) \in 0..9 /\ m = 10 * (m \div 10) + (m % 10)
      BY Z3
    <2> QED
      BY <2>1
  <1> DEFINE n == DigitsOf(d, m, y)
             k == e + g + 111 * c + 11 * t + s
  <1>7. n = e + f + g + h + c + t + s + r
    BY <1>4, <1>5, <1>6 DEF DigitsOf
  <1>8. n \in 1..99
    <2> HIDE DEF n
    <2> QED
      BY <1>7
  <1>9. d + m + y \in Nat /\ k \in Nat /\ d + m + y = n + 9 * k
    <2> HIDE DEF n
    <2> QED
      BY <1>1, <1>2, <1>3, <1>5, <1>6, <1>7
  <1>10. (d + m + y - 1) % 9 = (n - 1) % 9
    <2> DEFINE z == d + m + y
    <2> HIDE DEF n, k, z
    <2>1. z \in Nat /\ k \in Nat /\ z = n + 9 * k
      BY <1>9 DEF z
    <2>2. (z - 1) % 9 = (n - 1) % 9
      BY <1>8, <2>1, CastingOut
    <2>3. z - 1 = d + m + y - 1
      BY DEF z, Years
    <2> QED
      BY <2>2, <2>3, Zenon
  <1> QED
    BY <1>8, <1>10

\* The digit of every date that can be written.
LEMMA DateDigit ==
    ASSUME NEW d \in Dates
    PROVE  FinalDigit(d) \in 1..9 /\ FinalDigit(d) = 1 + ((d.day + d.month + d.year - 1) % 9)
  <1> DEFINE n == DigitsOf(d.day, d.month, d.year)
             z == d.day + d.month + d.year - 1
  <1>1. d.day \in 1..31 /\ d.month \in 1..12 /\ d.year \in Years
    BY DEF Dates
  <1>2. n \in 1..99 /\ (z % 9) = (n - 1) % 9
    BY <1>1, DigitSum, Zenon
  <1>3. FinalDigit(d) = Round(Round(n))
    BY DEF FinalDigit, DigitTotal, DigitsOf
  <1> HIDE DEF n
  <1>4. FinalDigit(d) \in 1..9 /\ FinalDigit(d) = 1 + ((n - 1) % 9)
    BY <1>2, <1>3, Digits, Zenon
  <1>5. FinalDigit(d) = 1 + (z % 9)
    BY <1>2, <1>4, Zenon
  <1> QED
    BY <1>4, <1>5, Zenon

\* It names an element and a type.
LEMMA DateElement ==
    ASSUME NEW d \in Dates
    PROVE  ElementOf(d) \in Elements /\ TypeOfDigit[FinalDigit(d)] \in SocialTypes
  <1>1. FinalDigit(d) \in {1, 2, 3, 4, 5, 6, 7, 8, 9}
    BY DateDigit
  <1> QED
    BY <1>1 DEF ElementOf, ElementOfDigit, TypeOfDigit, Elements, SocialTypes
-----------------------------------------------------------------------------
(* The scores of the elements.                                               *)

\* The votes of an element, and of two.
LEMMA VotesBound ==
    ASSUME NEW b \in [1..5 -> Elements], NEW e \in Elements
    PROVE  Votes(b, e) \in 0..9
  BY Z3 DEF Votes

\* Two elements share the nine votes.
LEMMA VotesOfTwo ==
    ASSUME NEW b \in [1..5 -> Elements], NEW e \in Elements, NEW f \in Elements, e # f
    PROVE  Votes(b, e) + Votes(b, f) <= 9
  BY Z3 DEF Votes

\* The points of a group that was answered.
Scored(c, S) == \A e \in S : c[e] \in [1..5 -> Likert]

\* Five answers of one to ten points.
LEMMA PointsBound ==
    ASSUME NEW c, NEW e, c[e] \in [1..5 -> Likert]
    PROVE  TotalC(c, e) \in 5..50
  <1>1. \A i \in 1..5 : c[e][i] \in 1..10
    BY DEF Likert
  <1>2. /\ c[e][1] \in 1..10 /\ c[e][2] \in 1..10 /\ c[e][3] \in 1..10
        /\ c[e][4] \in 1..10 /\ c[e][5] \in 1..10
    BY <1>1
  <1> QED
    BY <1>2 DEF TotalC

\* Rounded down to hundredths, the points of a group are a number to 2272.
PointShares == 227..2272

\* Their share of all points, in hundredths.
LEMMA PointsShare ==
    ASSUME NEW n \in 5..50
    PROVE  ((n * 10000) \div 220) \in PointShares
  BY Z3 DEF PointShares

\* What an element scores.
LEMMA HundredthsBound ==
    ASSUME NEW b \in [1..5 -> Elements], NEW c, NEW e \in Elements, c[e] \in [1..5 -> Likert]
    PROVE  \E n \in PointShares : Hundredths(b, c, e) = n + Votes(b, e) * 100
  BY PointsBound, PointsShare DEF Hundredths

\* A set of numbers up to n that is not empty has a greatest one.
LEMMA Greatest ==
    ASSUME NEW n \in Nat, NEW S \in SUBSET (1..n), S # {}
    PROVE  \E x \in S : \A y \in S : y <= x
  <1> DEFINE T == {m \in Nat : n - m \in S}
  <1>1. T # {}
    <2>1. PICK y \in S : TRUE
      OBVIOUS
    <2>2. n - y \in Nat /\ n - (n - y) = y
      OBVIOUS
    <2> QED
      BY <2>1, <2>2
  <1>2. PICK m \in T : \A k \in T : ~ (<<k, m>> \in OpToRel(<, Nat))
    BY <1>1, WFMin, NatLessThanWellFounded
  <1>3. \A k \in T : ~ (k < m)
    BY <1>2 DEF OpToRel
  <1>4. ASSUME NEW y \in S PROVE y <= n - m
    <2>1. n - y \in Nat /\ n - (n - y) = y
      OBVIOUS
    <2>2. n - y \in T
      BY <2>1
    <2>3. ~ (n - y < m)
      BY <1>3, <2>2
    <2>4. m \in Nat /\ y \in Nat
      OBVIOUS
    <2> QED
      BY <2>3, <2>4
  <1> QED
    BY <1>4

\* What an element can score, in hundredths.
ScoreSpan == 1..3200

\* ScoreSpan can be compared.
LEMMA ScoresAreNumbers == ASSUME NEW s \in ScoreSpan PROVE s \in Nat
  BY Z3 DEF ScoreSpan

\* The order of the scores as two numbers: hundredths, then votes and priority.
Rank(b, e) == Votes(b, e) * 10 + (5 - Priority[e])

\* Their ranges.
LEMMA ScoreRange ==
    ASSUME NEW b \in [1..5 -> Elements], NEW c, NEW e \in Elements, Scored(c, {e})
    PROVE  Hundredths(b, c, e) \in ScoreSpan /\ Rank(b, e) \in 1..99
  <1>1. PICK n \in PointShares : Hundredths(b, c, e) = n + Votes(b, e) * 100
    BY HundredthsBound DEF Scored
  <1>2. Votes(b, e) \in 0..9
    BY VotesBound
  <1>3. Priority[e] \in 0..4
    BY DEF Priority, Elements
  <1>4. PICK v \in 0..9 : Votes(b, e) = v
    BY <1>2
  <1>5. n + v * 100 \in ScoreSpan
    BY Z3 DEF PointShares, ScoreSpan
  <1>6. Hundredths(b, c, e) \in ScoreSpan
    BY <1>1, <1>4, <1>5
  <1>7. Rank(b, e) \in 1..99
    BY <1>2, <1>3, Z3 DEF Rank
  <1> QED
    BY <1>6, <1>7

\* The greater number comes first.
LEMMA ScoreOrder ==
    ASSUME NEW b \in [1..5 -> Elements], NEW c, NEW e \in Elements, NEW f \in Elements, e # f,
           Scored(c, {e, f}), Hundredths(b, c, f) <= Hundredths(b, c, e),
           Hundredths(b, c, f) = Hundredths(b, c, e) => Rank(b, f) <= Rank(b, e)
    PROVE  Before(b, c, e, f)
  <1>1. Votes(b, e) \in 0..9 /\ Votes(b, f) \in 0..9
    BY VotesBound
  <1>2. Priority[e] \in 0..4 /\ Priority[f] \in 0..4 /\ Priority[e] # Priority[f]
    BY DEF Priority, Elements
  <1>3. Hundredths(b, c, e) \in Nat /\ Hundredths(b, c, f) \in Nat
    BY ScoreRange, ScoresAreNumbers DEF Scored
  <1>4. CASE Hundredths(b, c, f) < Hundredths(b, c, e)
    BY <1>4, <1>3 DEF Before
  <1>5. CASE Hundredths(b, c, f) = Hundredths(b, c, e)
    <2>1. Votes(b, f) * 10 + (5 - Priority[f]) <= Votes(b, e) * 10 + (5 - Priority[e])
      BY <1>5 DEF Rank
    <2>2. Votes(b, f) < Votes(b, e) \/ (Votes(b, f) = Votes(b, e) /\ Priority[e] < Priority[f])
      BY <1>1, <1>2, <2>1
    <2> QED
      BY <1>1, <1>5, <2>2 DEF Before
  <1>6. Hundredths(b, c, f) < Hundredths(b, c, e) \/ Hundredths(b, c, f) = Hundredths(b, c, e)
    <2> DEFINE h == Hundredths(b, c, e)
               k == Hundredths(b, c, f)
    <2>0. h \in Nat /\ k \in Nat
      BY <1>3, Zenon
    <2>1. k <= h
      BY Zenon
    <2> HIDE DEF h, k
    <2>2. k < h \/ k = h
      BY <2>0, <2>1
    <2> QED
      BY <2>2 DEF h, k
  <1> QED
    BY <1>4, <1>5, <1>6

\* The first of some elements is one of them and comes before the others.
LEMMA First ==
    ASSUME NEW b \in [1..5 -> Elements], NEW c, NEW S \in SUBSET Elements, S # {}, Scored(c, S)
    PROVE  /\ FirstOf(b, c, S) \in S
           /\ \A f \in S \ {FirstOf(b, c, S)} : Before(b, c, FirstOf(b, c, S), f)
  <1> DEFINE H == {Hundredths(b, c, e) : e \in S}
             n == 3200
  <1>1. \A e \in S : Hundredths(b, c, e) \in ScoreSpan /\ Rank(b, e) \in 1..99
    BY ScoreRange DEF Scored
  <1>2. H \in SUBSET (1..n) /\ H # {} /\ n \in Nat
    BY <1>1 DEF ScoreSpan
  <1>3. PICK h \in H : \A y \in H : y <= h
    <2> HIDE DEF H, n
    <2> QED
      BY <1>2, Greatest
  <1> DEFINE R == {Rank(b, e) : e \in {f \in S : Hundredths(b, c, f) = h}}
  <1>4. R \in SUBSET (1..99) /\ R # {}
    BY <1>1, <1>3
  <1>5. PICK r \in R : \A y \in R : y <= r
    BY <1>4, Greatest
  <1>6. PICK e \in S : Hundredths(b, c, e) = h /\ Rank(b, e) = r
    BY <1>5
  <1>7. ASSUME NEW f \in S \ {e} PROVE Before(b, c, e, f)
    <2>1. Hundredths(b, c, f) <= Hundredths(b, c, e)
      BY <1>3, <1>6
    <2>2. Hundredths(b, c, f) = Hundredths(b, c, e) => Rank(b, f) <= Rank(b, e)
      BY <1>5, <1>6
    <2>3. Scored(c, {e, f})
      BY DEF Scored
    <2> QED
      BY <2>1, <2>2, <2>3, ScoreOrder
  <1>8. \E x \in S : \A f \in S \ {x} : Before(b, c, x, f)
    BY <1>7
  <1> QED
    BY <1>8 DEF FirstOf

\* What the engine computes from the answers to the groups of a birth date.
SoundValue(d, v) ==
    /\ v \in Computed
    /\ v.element = ElementOf(d)
    /\ v.second \in Shown(d) /\ v.third \in Shown(d) \ {v.second}
    /\ v.share1 + v.share2 + v.share3 = 10000
    /\ v.share1 > v.share2 /\ v.share2 >= v.share3 /\ v.share3 > 0

\* Two scores leave more than each of them takes.
LeaveMore(x, y) ==
    /\ x \in Nat /\ y \in Nat \ {0}
    /\ (10000 - x - y) \in Nat /\ (10000 - x - y) > x /\ (10000 - x - y) + x + y = 10000

\* Two scores and what they leave make up the whole.
LEMMA TwoShares ==
    ASSUME NEW n \in PointShares, NEW m \in PointShares, NEW i \in 0..9, NEW j \in 0..9,
           i + j <= 9
    PROVE  LeaveMore(n + i * 100, m + j * 100)
  BY Z3 DEF PointShares, LeaveMore

\* The shares make up 100 percent and are in order, whatever is answered.
LEMMA Shares ==
    ASSUME NEW d \in Dates, NEW yes, NEW b \in [1..5 -> Elements], NEW c, Scored(c, Shown(d))
    PROVE  SoundValue(d, Compute(d, yes, b, c))
  <1> DEFINE second == FirstOf(b, c, Shown(d))
             third == FirstOf(b, c, Shown(d) \ {second})
             rest == 10000 - Hundredths(b, c, second) - Hundredths(b, c, third)
             v == Compute(d, yes, b, c)
  <1>1. ElementOf(d) \in Elements /\ Shown(d) \in SUBSET Elements /\ Shown(d) # {}
    BY DateElement DEF Shown, Elements
  <1>2. second \in Shown(d) /\ \A f \in Shown(d) \ {second} : Before(b, c, second, f)
    BY <1>1, First
  <1>3. Shown(d) \ {second} \in SUBSET Elements /\ Shown(d) \ {second} # {}
    BY <1>1, <1>2 DEF Shown, Elements
  <1>4. third \in Shown(d) \ {second}
    <2>1. Scored(c, Shown(d) \ {second})
      BY DEF Scored
    <2> QED
      BY <1>3, <2>1, First
  <1>5. Before(b, c, second, third)
    BY <1>2, <1>4
  <1>6. /\ v.element = ElementOf(d) /\ v.modifier = Modifier(TypeOfDigit[FinalDigit(d)], yes)
        /\ v.second = second /\ v.third = third
        /\ v.share1 = (IF rest < 0 THEN 0 ELSE rest)
        /\ v.share2 = Hundredths(b, c, second) /\ v.share3 = Hundredths(b, c, third)
    BY DEF Compute
  <1> HIDE DEF second, third, v
  <1>7. second \in Elements /\ third \in Elements /\ second # third
    BY <1>1, <1>2, <1>4
  <1>8. PICK n \in PointShares : Hundredths(b, c, second) = n + Votes(b, second) * 100
    BY <1>2, <1>7, HundredthsBound DEF Scored
  <1>9. PICK m \in PointShares : Hundredths(b, c, third) = m + Votes(b, third) * 100
    BY <1>4, <1>7, HundredthsBound DEF Scored
  <1>10. /\ Votes(b, second) \in 0..9 /\ Votes(b, third) \in 0..9
         /\ Votes(b, second) + Votes(b, third) <= 9
    BY <1>7, VotesBound, VotesOfTwo
  <1>11. Hundredths(b, c, second) >= Hundredths(b, c, third)
    BY <1>5, <1>8, <1>9, <1>10 DEF Before, PointShares
  <1>h. /\ Hundredths(b, c, second) \in Nat /\ Hundredths(b, c, third) \in Nat \ {0}
        /\ rest \in Nat /\ rest > Hundredths(b, c, second)
        /\ rest + Hundredths(b, c, second) + Hundredths(b, c, third) = 10000
    <2>1. LeaveMore(n + Votes(b, second) * 100, m + Votes(b, third) * 100)
      BY <1>10, TwoShares, Zenon
    <2>2. LeaveMore(Hundredths(b, c, second), Hundredths(b, c, third))
      BY <1>8, <1>9, <2>1, Zenon
    <2> QED
      BY <2>2 DEF LeaveMore
  <1>12. /\ v.share2 \in Nat /\ v.share3 \in Nat /\ v.share1 \in Nat
         /\ v.share1 + v.share2 + v.share3 = 10000
         /\ v.share1 > v.share2 /\ v.share2 >= v.share3 /\ v.share3 > 0
    <2> HIDE DEF rest
    <2> QED
      BY <1>6, <1>11, <1>h
  <1>13. v.modifier \in {"+", "-", "#"}
    BY <1>6 DEF Modifier
  <1>14. v \in Computed
    <2>1. v = [element |-> v.element, modifier |-> v.modifier, second |-> v.second,
               third |-> v.third, share1 |-> v.share1, share2 |-> v.share2, share3 |-> v.share3]
      BY DEF Compute, v
    <2>2. v.element \in Elements /\ v.second \in Elements /\ v.third \in Elements
      BY <1>1, <1>6, <1>7
    <2> QED
      BY <1>12, <1>13, <2>1, <2>2 DEF Computed
  <1>15. SoundValue(d, v)
    BY <1>2, <1>4, <1>6, <1>12, <1>14 DEF SoundValue
  <1> QED
    BY <1>15 DEF v
-----------------------------------------------------------------------------
(* The tests.                                                                *)

\* A score as it may be stored: of the older tests, or sound.
Sound(s) ==
    /\ s \in Scores
    /\ s.engine = "core" =>
          /\ s.asked = s.value.element /\ s.asked \notin {s.value.second, s.value.third}
          /\ s.value.share1 + s.value.share2 + s.value.share3 = 10000
          /\ s.value.share1 > s.value.share2 /\ s.value.share2 >= s.value.share3
          /\ s.value.share3 > 0

\* A tab in order: its score is sound, and it knows for which element it was
\* given questions.
InOrder(r) ==
    /\ r \in PcRecords
    /\ Sound(r.score)
    /\ r.at = "shown" => r.goal = "show"
    /\ r.at # "idle" /\ r.goal = "show" => r.hidden \in Elements

TabsInOrder == pc \in [Procs -> PcRecords] /\ \A p \in Procs : InOrder(pc[p])

ResultsSound ==
    /\ results \in Seq([score: Scores, paid: BOOLEAN])
    /\ Len(results) <= MaxResults
    /\ \A i \in 1..Len(results) : Sound(results[i].score)

TestInv ==
    /\ birth \in Births
    /\ stored \in [Keys -> Nat]
    /\ requests \in 0..MaxRequests
    /\ collided \in BOOLEAN
    /\ TabsInOrder
    /\ ResultsSound

\* A score of the older tests is sound, an idle tab is in order.
LEMMA IdleInOrder == Sound(NoScore) /\ InOrder(Idle)
  <1>1. Sound(NoScore)
    BY DEF Sound, Scores, NoScore
  <1>2. Idle \in PcRecords
    BY <1>1 DEF Idle, PcRecords, Sound
  <1> QED
    BY <1>1, <1>2 DEF InOrder, Idle

\* One tab moves on.
LEMMA TabGoes ==
    ASSUME TabsInOrder, NEW p \in Procs, NEW r, InOrder(r), Go(p, r)
    PROVE  TabsInOrder' /\ pc'[p] = r /\ \A q \in Procs \ {p} : pc'[q] = pc[q]
  BY DEF TabsInOrder, Go, InOrder

\* A result is stored.
LEMMA Storing ==
    ASSUME ResultsSound, NEW s, Sound(s), NEW paid \in BOOLEAN, Store(s, paid)
    PROVE  ResultsSound'
  <1> DEFINE R == [score: Scores, paid: BOOLEAN]
             r == [score |-> s, paid |-> paid]
  <1>1. r \in R /\ results \in Seq(R) /\ results' = Append(results, r)
    BY DEF ResultsSound, Sound, Store
  <1>2. /\ results' \in Seq(R) /\ Len(results') = Len(results) + 1
        /\ \A i \in 1..Len(results) : results'[i] = results[i]
        /\ results'[Len(results) + 1] = r
    <2> HIDE DEF R, r
    <2> QED
      BY <1>1, AppendProperties
  <1>3. Len(results') <= MaxResults
    <2>1. Len(results) \in Nat /\ Len(results) < MaxResults
      BY <1>1, LenProperties DEF Store
    <2> QED
      BY <1>2, <2>1, TestAssumption
  <1>4. \A i \in 1..Len(results') : Sound(results'[i].score)
    <2> SUFFICES ASSUME NEW i \in 1..Len(results') PROVE Sound(results'[i].score)
      OBVIOUS
    <2>1. CASE i \in 1..Len(results)
      BY <2>1, <1>2 DEF ResultsSound
    <2>2. CASE i = Len(results) + 1
      BY <2>2, <1>2
    <2>3. Len(results) \in Nat
      BY <1>1, LenProperties
    <2> QED
      BY <2>1, <2>2, <2>3, <1>2
  <1> QED
    BY <1>2, <1>3, <1>4 DEF ResultsSound

\* What is computed from the answers to the questions that were shown is sound.
LEMMA Submitted ==
    ASSUME NEW d \in Dates, NEW sheet \in Sheets, NEW hidden \in Elements,
           Answered(d, GroupsOf(sheet, hidden))
    PROVE  Sound([engine |-> "core", asked |-> hidden,
                  value |-> Compute(d, sheet.yes, sheet.b, GroupsOf(sheet, hidden))])
  <1> DEFINE c == GroupsOf(sheet, hidden)
             v == Compute(d, sheet.yes, sheet.b, c)
             s == [engine |-> "core", asked |-> hidden, value |-> v]
  <1>1. /\ sheet.b \in [1..5 -> Elements]
        /\ sheet.c \in [Elements -> [1..5 -> Likert]]
    BY TestAssumption
  <1>2. Shown(d) \subseteq Elements \ {hidden}
    BY DEF Answered, GroupsOf
  <1>3. hidden = ElementOf(d)
    BY <1>2 DEF Shown
  <1>4. Scored(c, Shown(d))
    BY <1>1, <1>2 DEF Scored, GroupsOf
  <1> HIDE DEF c
  <1>5. SoundValue(d, v)
    BY <1>1, <1>4, Shares
  <1> HIDE DEF v
  <1>6. v \in Computed /\ v.element = hidden /\ hidden \notin {v.second, v.third}
    BY <1>3, <1>5 DEF SoundValue, Shown
  <1>7. s \in Scores /\ s.asked = hidden /\ s.value = v /\ s.engine = "core"
    BY <1>6 DEF Scores
  <1> HIDE DEF s
  <1>8. Sound(s)
    BY <1>5, <1>6, <1>7 DEF Sound, SoundValue
  <1> QED
    BY <1>8 DEF s, v, c

\* Every step of a tab, of the profile and of the older tests keeps tabs and
\* results in order.
LEMMA TestStep == TestInv /\ TestNext => TestInv'
  <1> SUFFICES ASSUME TestInv, TestNext PROVE TestInv'
    OBVIOUS
  <1>0. TabsInOrder /\ ResultsSound
    BY DEF TestInv
  <1>s. ASSUME Send PROVE requests' \in 0..MaxRequests
    BY <1>s, TestAssumption DEF Send, TestInv
  <1>r. ASSUME UNCHANGED results PROVE ResultsSound'
    BY <1>r, <1>0 DEF ResultsSound
  <1>p. ASSUME UNCHANGED pc PROVE TabsInOrder'
    BY <1>p, <1>0 DEF TabsInOrder
  <1>1. ASSUME NEW p \in Procs, AskQuestions(p) PROVE TestInv'
    <2> DEFINE r == [Idle EXCEPT !.at = "list", !.hidden = ElementOf(birth)]
    <2>1. ElementOf(birth) \in Elements
      BY DateElement, TestAssumption DEF TestInv
    <2>2. r \in PcRecords /\ r.at = "list" /\ r.hidden \in Elements /\ r.score = NoScore
      BY <2>1, IdleInOrder DEF InOrder, Idle, PcRecords
    <2> HIDE DEF r
    <2>3. InOrder(r)
      BY <2>2, IdleInOrder DEF InOrder
    <2>4. Go(p, r)
      BY <1>1 DEF AskQuestions, r
    <2>5. TabsInOrder'
      BY <1>0, <2>3, <2>4, TabGoes
    <2> QED
      BY <1>1, <1>s, <1>r, <2>5 DEF AskQuestions, TestInv
  <1>2. ASSUME NEW p \in Procs, ListQuestions(p) PROVE TestInv'
    <2> DEFINE r == [pc[p] EXCEPT !.at = "sync", !.missing = Missing]
    <2>1. InOrder(pc[p]) /\ pc[p].at = "list"
      BY <1>0, <1>2 DEF TabsInOrder, ListQuestions, At
    <2>2. /\ r \in PcRecords /\ r.at = "sync" /\ r.hidden = pc[p].hidden
          /\ r.score = pc[p].score /\ r.goal = pc[p].goal
      BY <2>1 DEF InOrder, PcRecords, Missing
    <2> HIDE DEF r
    <2>3. InOrder(r)
      BY <2>1, <2>2 DEF InOrder
    <2>4. Go(p, r)
      BY <1>2 DEF ListQuestions, r
    <2>5. TabsInOrder'
      BY <1>0, <2>3, <2>4, TabGoes
    <2> QED
      BY <1>2, <1>r, <2>5 DEF ListQuestions, TestInv
  <1>3. ASSUME NEW p \in Procs, NEW k \in Keys, CreateQuestion(p, k) PROVE TestInv'
    <2> DEFINE r == [pc[p] EXCEPT !.missing = @ \ {k}]
    <2>1. InOrder(pc[p]) /\ pc[p].at = "sync"
      BY <1>0, <1>3 DEF TabsInOrder, CreateQuestion, At
    <2>2. /\ r \in PcRecords /\ r.at = "sync" /\ r.hidden = pc[p].hidden
          /\ r.score = pc[p].score /\ r.goal = pc[p].goal
      BY <2>1 DEF InOrder, PcRecords
    <2> HIDE DEF r
    <2>3. InOrder(r)
      BY <2>1, <2>2 DEF InOrder
    <2>4. Go(p, r)
      BY <1>3 DEF CreateQuestion, r
    <2>5. TabsInOrder'
      BY <1>0, <2>3, <2>4, TabGoes
    <2>6. stored' \in [Keys -> Nat]
      BY <1>3 DEF CreateQuestion, TestInv
    <2> QED
      BY <1>3, <1>r, <2>5, <2>6 DEF CreateQuestion, TestInv
  <1>4. ASSUME NEW p \in Procs, EndSync(p) PROVE TestInv'
    <2> DEFINE r == [pc[p] EXCEPT !.at = IF pc[p].goal = "show" THEN "shown" ELSE "save"]
    <2>1. InOrder(pc[p]) /\ pc[p].at = "sync"
      BY <1>0, <1>4 DEF TabsInOrder, EndSync, At
    <2>2. /\ r \in PcRecords /\ r.hidden = pc[p].hidden
          /\ r.score = pc[p].score /\ r.goal = pc[p].goal
          /\ r.at = (IF pc[p].goal = "show" THEN "shown" ELSE "save")
      BY <2>1 DEF InOrder, PcRecords
    <2>a. Go(p, IF ~Complete THEN Idle ELSE r)
      BY <1>4 DEF EndSync
    <2> HIDE DEF r
    <2>3. InOrder(r)
      BY <2>1, <2>2 DEF InOrder
    <2>4. InOrder(IF ~Complete THEN Idle ELSE r)
      BY <2>3, IdleInOrder
    <2>5. TabsInOrder'
      BY <1>0, <2>a, <2>4, TabGoes
    <2> QED
      BY <1>4, <1>r, <2>5 DEF EndSync, TestInv
  <1>5. ASSUME NEW p \in Procs, NEW sheet \in Sheets, Submit(p, sheet) PROVE TestInv'
    <2> DEFINE c == GroupsOf(sheet, pc[p].hidden)
               s == [engine |-> "core", asked |-> pc[p].hidden,
                     value |-> Compute(birth, sheet.yes, sheet.b, c)]
               r == [Idle EXCEPT !.at = "list", !.goal = "save", !.score = s]
    <2>1. InOrder(pc[p]) /\ pc[p].at = "shown"
      BY <1>0, <1>5 DEF TabsInOrder, Submit, At
    <2>2. pc[p].hidden \in Elements /\ birth \in Dates
      BY <2>1, TestAssumption DEF InOrder, TestInv
    <2>3. Answered(birth, c)
      BY <1>5 DEF Submit
    <2>4. Sound(s)
      BY <2>2, <2>3, Submitted
    <2>5. Go(p, r)
      BY <1>5 DEF Submit
    <2> HIDE DEF s
    <2>s. s \in Scores
      BY <2>4 DEF Sound
    <2>r. r.at = "list" /\ r.goal = "save" /\ r.score = s
      BY DEF Idle
    <2>t. r \in PcRecords
      BY <2>s DEF Idle, PcRecords
    <2>6. r \in PcRecords /\ r.at = "list" /\ r.goal = "save" /\ r.score = s
      BY <2>r, <2>t
    <2> HIDE DEF r
    <2>7. InOrder(r)
      BY <2>4, <2>6 DEF InOrder
    <2>8. TabsInOrder'
      BY <1>0, <2>5, <2>7, TabGoes
    <2> QED
      BY <1>5, <1>s, <1>r, <2>8 DEF Submit, TestInv
  <1>6. ASSUME NEW p \in Procs, SaveResult(p) PROVE TestInv'
    <2>1. Sound(pc[p].score) /\ Store(pc[p].score, TRUE)
      BY <1>0, <1>6 DEF TabsInOrder, InOrder, SaveResult
    <2>2. ResultsSound'
      BY <1>0, <2>1, Storing
    <2>3. TabsInOrder'
      BY <1>0, <1>6, IdleInOrder, TabGoes DEF SaveResult
    <2> QED
      BY <1>6, <2>2, <2>3 DEF SaveResult, TestInv
  <1>7. ASSUME NEW p \in Procs, Leave(p) PROVE TestInv'
    <2>1. TabsInOrder'
      BY <1>0, <1>7, IdleInOrder, TabGoes DEF Leave
    <2> QED
      BY <1>7, <1>r, <2>1 DEF Leave, TestInv
  <1>8. ASSUME NEW d \in Births, UpdateBirthDate(d) PROVE TestInv'
    BY <1>8, <1>r, <1>p DEF UpdateBirthDate, TestInv
  <1>9. ASSUME NEW paid \in BOOLEAN, SubmitNewme(paid) PROVE TestInv'
    <2>1. ResultsSound'
      BY <1>0, <1>9, IdleInOrder, Storing DEF SubmitNewme
    <2> QED
      BY <1>9, <1>p, <2>1 DEF SubmitNewme, TestInv
  <1> QED
    BY <1>1, <1>2, <1>3, <1>4, <1>5, <1>6, <1>7, <1>8, <1>9 DEF TestNext, Tab

\* The tests begin in order,
LEMMA TestBegin == TestInit => TestInv
  <1> SUFFICES ASSUME TestInit PROVE TestInv
    OBVIOUS
  <1>1. TabsInOrder
    BY IdleInOrder DEF TestInit, TabsInOrder, InOrder
  <1>2. ResultsSound
    <2>1. results = <<>> /\ Len(results) = 0
      BY DEF TestInit
    <2>2. results \in Seq([score: Scores, paid: BOOLEAN])
      BY <2>1, EmptySeq
    <2> QED
      BY <2>1, <2>2, TestAssumption DEF ResultsSound
  <1>3. stored \in [Keys -> Nat]
    <2>1. stored \in [Keys -> {0, 1}]
      BY DEF TestInit
    <2> QED
      BY <2>1
  <1>4. requests \in 0..MaxRequests
    BY TestAssumption DEF TestInit
  <1> QED
    BY <1>1, <1>2, <1>3, <1>4 DEF TestInit, TestInv

\* and what is done for certificates leaves them alone.
LEMMA TestAside ==
    ASSUME TestInv, NEW d \in Desks, Serve(d)
    PROVE  TestInv'
  <1>1. UNCHANGED <<birth, stored, results, pc, collided>> /\ requests' \in 0..MaxRequests
    <2>1. ASSUME NEW self \in BOOLEAN, Begin(d, self)
          PROVE  /\ UNCHANGED <<birth, stored, results, pc, collided>>
                 /\ requests' \in 0..MaxRequests
      BY <2>1, TestAssumption DEF Begin, Visit, Send, TestInv
    <2> QED
      BY <2>1 DEF Serve, ReadLatest, FindLatest, CorrectKind, ChooseNumber, CreateCertificate,
                  GiveUp, testVars, TestInv
  <1>2. TabsInOrder' /\ ResultsSound'
    BY <1>1 DEF TestInv, TabsInOrder, ResultsSound
  <1> QED
    BY <1>1, <1>2 DEF TestInv

\* So they stay in order for ever.
LEMMA TestsSound == Spec => []TestInv
  <1>1. Init => TestInv
    BY TestBegin DEF Init
  <1>2. TestInv /\ [Next]_vars => TestInv'
    <2> SUFFICES ASSUME TestInv, [Next]_vars PROVE TestInv'
      OBVIOUS
    <2>1. CASE UNCHANGED vars
      BY <2>1 DEF vars, testVars, TestInv, TabsInOrder, ResultsSound
    <2> QED
      BY <2>1, TestStep, TestAside DEF Next
  <1> QED
    BY <1>1, <1>2, PTL DEF Spec

\* The shares of every stored premium result make up 100 percent and are in
\* order: whatever was answered for whatever birth date, and however often the
\* profile was changed meanwhile.
THEOREM SharesAddUpCorrect == Spec => []SharesAddUp
  <1>1. TestInv => SharesAddUp
    BY DEF TestInv, ResultsSound, Sound, SharesAddUp, CoreResults
  <1> QED
    BY <1>1, TestsSound, PTL

\* Every stored premium result was computed from answers to the questions of its
\* own birth date.
THEOREM ResultFitsQuestionsCorrect == Spec => []ResultFitsQuestions
  <1>1. TestInv => ResultFitsQuestions
    BY DEF TestInv, ResultsSound, Sound, ResultFitsQuestions, CoreResults
  <1> QED
    BY <1>1, TestsSound, PTL

\* The digit of any birth date a profile can hold is its remainder modulo nine.
THEOREM DigitIsRemainderCorrect == Spec => []DigitIsRemainder
  <1>1. TestInv => DigitIsRemainder
    BY DateDigit, TestAssumption DEF TestInv, DigitIsRemainder
  <1> QED
    BY <1>1, TestsSound, PTL
-----------------------------------------------------------------------------
(* The catalogue of questions.                                               *)

\* Unless two synchronisations found a question missing: what one of them still
\* has to write is not there, nor has another one to write it.
ToWriteIsMissing ==
    \A p \in Procs : At(p, "sync") => \A k \in pc[p].missing : stored[k] = 0
WrittenByOne ==
    \A p, q \in Procs :
        At(p, "sync") /\ At(q, "sync") /\ p # q => pc[p].missing \cap pc[q].missing = {}
StoredOnce == \A k \in Keys : stored[k] <= 1

Catalog == ~collided => ToWriteIsMissing /\ WrittenByOne /\ StoredOnce

\* Every step keeps the catalogue.
LEMMA CatalogStep == TestInv /\ Catalog /\ [Next]_vars => Catalog'
  <1> SUFFICES ASSUME TestInv, Catalog, [Next]_vars PROVE Catalog'
    OBVIOUS
  <1>u. ASSUME UNCHANGED <<pc, stored, collided>> PROVE Catalog'
    BY <1>u DEF Catalog, ToWriteIsMissing, WrittenByOne, StoredOnce, At
  <1>a. ASSUME NEW p \in Procs, NEW r, Go(p, r), r.at # "sync", UNCHANGED <<stored, collided>>
        PROVE  Catalog'
    <2>1. pc'[p] = r /\ \A q \in Procs \ {p} : pc'[q] = pc[q]
      BY <1>a DEF Go, TestInv, TabsInOrder
    <2> QED
      BY <1>a, <2>1 DEF Catalog, ToWriteIsMissing, WrittenByOne, StoredOnce, At
  <1>1. ASSUME NEW p \in Procs, AskQuestions(p) PROVE Catalog'
    <2> DEFINE r == [Idle EXCEPT !.at = "list", !.hidden = ElementOf(birth)]
    <2>1. r.at = "list"
      BY DEF Idle
    <2>2. Go(p, r) /\ UNCHANGED <<stored, collided>>
      BY <1>1 DEF AskQuestions
    <2> HIDE DEF r
    <2> QED
      BY <1>a, <2>1, <2>2
  <1>2. ASSUME NEW p \in Procs, ListQuestions(p) PROVE Catalog'
    <2> SUFFICES ASSUME ~collided' PROVE ToWriteIsMissing' /\ WrittenByOne' /\ StoredOnce'
      BY DEF Catalog
    <2>1. InOrder(pc[p]) /\ pc \in [Procs -> PcRecords]
      BY DEF TestInv, TabsInOrder
    <2>2. /\ pc'[p] = [pc[p] EXCEPT !.at = "sync", !.missing = Missing]
          /\ \A q \in Procs \ {p} : pc'[q] = pc[q]
      BY <1>2, <2>1 DEF ListQuestions, Go
    <2>3. pc'[p].missing = Missing
      BY <2>1, <2>2 DEF InOrder, PcRecords
    <2>4. /\ ~collided /\ \A q \in Procs : At(q, "sync") => pc[q].missing \cap Missing = {}
          /\ stored' = stored
      BY <1>2 DEF ListQuestions
    <2>5. ToWriteIsMissing /\ WrittenByOne /\ StoredOnce
      BY <2>4 DEF Catalog
    <2>6. \A k \in Missing : stored[k] = 0
      BY DEF Missing
    <2>7. ToWriteIsMissing'
      BY <2>2, <2>3, <2>4, <2>5, <2>6 DEF ToWriteIsMissing, At
    <2>8. ASSUME NEW q \in Procs, NEW o \in Procs, At(q, "sync")', At(o, "sync")', q # o
          PROVE  pc'[q].missing \cap pc'[o].missing = {}
      <3>1. CASE q = p
        BY <3>1, <2>2, <2>3, <2>4, <2>8 DEF At
      <3>2. CASE o = p
        BY <3>2, <2>2, <2>3, <2>4, <2>8 DEF At
      <3>3. CASE q # p /\ o # p
        BY <3>3, <2>2, <2>5, <2>8 DEF WrittenByOne, At
      <3> QED
        BY <3>1, <3>2, <3>3
    <2>9. WrittenByOne'
      BY <2>8 DEF WrittenByOne
    <2> QED
      BY <2>4, <2>5, <2>7, <2>9 DEF StoredOnce
  <1>3. ASSUME NEW p \in Procs, NEW k \in Keys, CreateQuestion(p, k) PROVE Catalog'
    <2> SUFFICES ASSUME ~collided' PROVE ToWriteIsMissing' /\ WrittenByOne' /\ StoredOnce'
      BY DEF Catalog
    <2>1. /\ InOrder(pc[p]) /\ pc \in [Procs -> PcRecords] /\ stored \in [Keys -> Nat]
          /\ At(p, "sync") /\ k \in pc[p].missing
      BY <1>3 DEF TestInv, TabsInOrder, CreateQuestion
    <2>2. /\ pc'[p] = [pc[p] EXCEPT !.missing = @ \ {k}]
          /\ \A q \in Procs \ {p} : pc'[q] = pc[q]
      BY <1>3, <2>1 DEF CreateQuestion, Go
    <2>3. pc'[p].missing = pc[p].missing \ {k} /\ pc'[p].at = "sync"
      BY <2>1, <2>2 DEF InOrder, PcRecords, At
    <2>4. ToWriteIsMissing /\ WrittenByOne /\ StoredOnce
      BY <1>3 DEF Catalog, CreateQuestion
    <2>5. stored[k] = 0
      BY <2>1, <2>4 DEF ToWriteIsMissing
    <2>6. stored'[k] = 1 /\ \A m \in Keys \ {k} : stored'[m] = stored[m]
      BY <1>3, <2>1, <2>5 DEF CreateQuestion
    <2>7. StoredOnce'
      BY <2>4, <2>6 DEF StoredOnce
    <2>s. \A q \in Procs : At(q, "sync")' => At(q, "sync") /\ pc'[q].missing \subseteq pc[q].missing
      BY <2>1, <2>2, <2>3 DEF At
    <2>8. WrittenByOne'
      <3> SUFFICES ASSUME NEW q \in Procs, NEW o \in Procs, At(q, "sync")', At(o, "sync")', q # o
                   PROVE  pc'[q].missing \cap pc'[o].missing = {}
        BY DEF WrittenByOne
      <3>1. pc[q].missing \cap pc[o].missing = {}
        BY <2>4, <2>s DEF WrittenByOne
      <3> QED
        BY <3>1, <2>s
    <2>9. ASSUME NEW q \in Procs, At(q, "sync")', NEW m \in pc'[q].missing PROVE stored'[m] = 0
      <3>1. m \in Keys
        BY <2>1, <2>2, <2>3, <2>9 DEF PcRecords
      <3>2. At(q, "sync") /\ m \in pc[q].missing /\ m # k
        BY <2>1, <2>2, <2>3, <2>4, <2>9 DEF WrittenByOne, At
      <3> QED
        BY <2>4, <2>6, <3>1, <3>2 DEF ToWriteIsMissing
    <2>10. ToWriteIsMissing'
      BY <2>9 DEF ToWriteIsMissing
    <2> QED
      BY <2>7, <2>8, <2>10
  <1>4. ASSUME NEW p \in Procs, EndSync(p) PROVE Catalog'
    <2> DEFINE r == IF ~Complete THEN Idle
                    ELSE [pc[p] EXCEPT !.at = IF pc[p].goal = "show" THEN "shown" ELSE "save"]
    <2>1. pc[p] \in PcRecords
      BY DEF TestInv, TabsInOrder
    <2>2. r.at # "sync"
      BY <2>1 DEF Idle, PcRecords
    <2>3. Go(p, r) /\ UNCHANGED <<stored, collided>>
      BY <1>4 DEF EndSync
    <2> HIDE DEF r
    <2> QED
      BY <1>a, <2>2, <2>3
  <1>5. ASSUME NEW p \in Procs, NEW sheet \in Sheets, Submit(p, sheet) PROVE Catalog'
    <2> DEFINE s == [engine |-> "core", asked |-> pc[p].hidden,
                     value |-> Compute(birth, sheet.yes, sheet.b,
                                       GroupsOf(sheet, pc[p].hidden))]
               r == [Idle EXCEPT !.at = "list", !.goal = "save", !.score = s]
    <2>1. Go(p, r) /\ UNCHANGED <<stored, collided>>
      BY <1>5 DEF Submit
    <2> HIDE DEF s
    <2>2. r.at = "list"
      BY DEF Idle
    <2> HIDE DEF r
    <2> QED
      BY <1>a, <2>1, <2>2
  <1>6. ASSUME NEW p \in Procs, SaveResult(p) \/ Leave(p) PROVE Catalog'
    <2>1. Idle.at = "idle" /\ Go(p, Idle) /\ UNCHANGED <<stored, collided>>
      BY <1>6 DEF SaveResult, Leave, Idle
    <2> QED
      BY <1>a, <2>1
  <1>7. CASE \/ UNCHANGED vars
             \/ \E d \in Births : UpdateBirthDate(d)
             \/ \E paid \in BOOLEAN : SubmitNewme(paid)
             \/ \E d \in Desks : Serve(d)
    BY <1>7, <1>u DEF vars, testVars, UpdateBirthDate, SubmitNewme, Serve, Begin, ReadLatest,
                      FindLatest, CorrectKind, ChooseNumber, CreateCertificate, GiveUp
  <1> QED
    BY <1>1, <1>2, <1>3, <1>4, <1>5, <1>6, <1>7 DEF Next, TestNext, Tab

\* Unless two synchronisations found the same question missing, no question is
\* ever stored twice, for any number of tabs, requests and restarts.
THEOREM CatalogSoundCorrect == Spec => []CatalogSound
  <1>1. Init => Catalog
    BY DEF Init, TestInit, Catalog, ToWriteIsMissing, WrittenByOne, StoredOnce, At, Idle
  <1>2. Catalog => CatalogSound
    BY DEF Catalog, StoredOnce, CatalogSound
  <1> QED
    BY <1>1, <1>2, CatalogStep, TestsSound, PTL DEF Spec
-----------------------------------------------------------------------------
(* The certificates.                                                         *)

CertRecords == [number: Numbers, kind: Kinds, result: 0..MaxResults, self: BOOLEAN]

\* What a request must find when it goes on with record r.
Fits(r) ==
    /\ r \in DeskRecords
    /\ r.at = "correct" => r.row \in 1..Len(certs)
    /\ r.at = "create" => r.number \in Numbers

DesksOK == desk \in [Desks -> DeskRecords] /\ \A d \in Desks : Fits(desk[d])
CertsOK == certs \in Seq(CertRecords)

CertInv == kind \in Kinds /\ CertsOK /\ DesksOK /\ overlapped \in BOOLEAN

\* One request moves on.
LEMMA Moving ==
    ASSUME DesksOK, NEW d \in Desks, NEW r, Fits(r), Move(d, r), UNCHANGED certs
    PROVE  DesksOK'
  BY DEF DesksOK, Move, Fits

\* The fields of a request that can go on.
LEMMA DeskFields ==
    ASSUME NEW r \in DeskRecords
    PROVE  /\ r.at \in {"idle", "source", "find", "correct", "number", "create"}
           /\ r.self \in BOOLEAN /\ r.kind \in Kinds /\ r.result \in 0..MaxResults
           /\ r.row \in Nat /\ r.number \in 0..MaxAttempts
           /\ r = [at |-> r.at, self |-> r.self, kind |-> r.kind, result |-> r.result,
                   row |-> r.row, number |-> r.number]
  BY DEF DeskRecords

\* A request that ends fits.
LEMMA AwayFits == Fits(Away) /\ Away.at = "idle"
  <1>1. 0 \in 0..MaxResults /\ 0 \in 0..MaxAttempts
    BY TestAssumption, CertificateAssumption
  <1> QED
    BY <1>1 DEF Fits, Away, DeskRecords, Kinds, NoResult

\* The result a certificate is made for is one there is, or none.
LEMMA ResultExists ==
    ASSUME ResultsSound
    PROVE  PaidResult \in 0..MaxResults /\ Len(results) \in 0..MaxResults
  <1>1. Len(results) \in Nat /\ Len(results) \in 0..MaxResults
    BY LenProperties, TestAssumption DEF ResultsSound
  <1>2. CASE PaidResults = {}
    BY <1>1, <1>2, TestAssumption DEF PaidResult, LatestOf, NoResult
  <1>3. CASE PaidResults # {}
    <2>1. PaidResults \in SUBSET (1..Len(results))
      BY DEF PaidResults
    <2>2. \E x \in PaidResults : \A y \in PaidResults : y <= x
      BY <1>1, <1>3, <2>1, Greatest
    <2>3. LatestOf(PaidResults) \in PaidResults
      BY <1>3, <2>2 DEF LatestOf
    <2>4. LatestOf(PaidResults) \in 0..MaxResults
      <3> DEFINE x == LatestOf(PaidResults)
      <3>1. x \in 1..Len(results)
        BY <2>1, <2>3
      <3> HIDE DEF x
      <3>2. x \in 0..MaxResults
        BY <1>1, <3>1, TestAssumption
      <3> QED
        BY <3>2 DEF x
    <2> QED
      BY <1>1, <2>4 DEF PaidResult
  <1> QED
    BY <1>1, <1>2, <1>3

\* A certificate is added.
LEMMA Adding ==
    ASSUME CertsOK, DesksOK, NEW d \in Desks, NEW c \in CertRecords,
           certs' = Append(certs, c), Move(d, Away)
    PROVE  /\ CertsOK' /\ DesksOK'
           /\ Len(certs') = Len(certs) + 1 /\ certs'[Len(certs) + 1] = c
           /\ \A i \in 1..Len(certs) : certs'[i] = certs[i]
  <1>1. /\ CertsOK' /\ Len(certs') = Len(certs) + 1 /\ certs'[Len(certs) + 1] = c
        /\ \A i \in 1..Len(certs) : certs'[i] = certs[i]
    BY AppendProperties DEF CertsOK
  <1>2. Len(certs) \in Nat
    BY LenProperties DEF CertsOK
  <1>3. 1..Len(certs) \subseteq 1..Len(certs')
    BY <1>1, <1>2
  <1>4. /\ desk'[d] = Away /\ desk' \in [Desks -> DeskRecords]
        /\ \A o \in Desks \ {d} : desk'[o] = desk[o]
    BY AwayFits DEF DesksOK, Move, Fits
  <1>5. ASSUME NEW o \in Desks PROVE Fits(desk[o])'
    <2>1. CASE o = d
      BY <2>1, <1>4, AwayFits DEF Fits
    <2>2. CASE o # d
      BY <2>2, <1>3, <1>4 DEF DesksOK, Fits
    <2> QED
      BY <2>1, <2>2
  <1> QED
    BY <1>1, <1>4, <1>5 DEF DesksOK

\* The type of a certificate is corrected.
LEMMA Correcting ==
    ASSUME CertsOK, DesksOK, NEW d \in Desks, CorrectKind(d)
    PROVE  /\ CertsOK' /\ DesksOK' /\ Len(certs') = Len(certs)
           /\ \A i \in 1..Len(certs) : certs'[i].self = certs[i].self
  <1> DEFINE i == desk[d].row
             c == [certs[i] EXCEPT !.kind = desk[d].kind]
  <1>1. i \in 1..Len(certs) /\ desk[d].kind \in Kinds
    BY DEF CorrectKind, AtDesk, DesksOK, Fits, DeskRecords
  <1>2. certs[i] \in CertRecords
    BY <1>1, ElementOfSeq DEF CertsOK
  <1>3. c \in CertRecords /\ c.self = certs[i].self
    BY <1>1, <1>2 DEF CertRecords
  <1>4. certs' = [certs EXCEPT ![i] = c]
    BY DEF CorrectKind
  <1> HIDE DEF i, c
  <1>5. /\ CertsOK' /\ Len(certs') = Len(certs)
        /\ \A j \in 1..Len(certs) : certs'[j] = IF j = i THEN c ELSE certs[j]
    BY <1>1, <1>3, <1>4, ExceptSeq DEF CertsOK
  <1>6. DesksOK'
    BY <1>5, AwayFits DEF CorrectKind, DesksOK, Move, Fits
  <1> QED
    BY <1>3, <1>5, <1>6

\* Every step for certificates keeps them well-typed.
LEMMA CertServe ==
    ASSUME TestInv, CertInv, NEW d \in Desks, Serve(d)
    PROVE  CertInv'
  <1>0. CertsOK /\ DesksOK /\ Fits(desk[d]) /\ desk[d] \in DeskRecords
    BY DEF CertInv, DesksOK
  <1>k. ASSUME UNCHANGED <<kind, certs>>, DesksOK', overlapped' \in BOOLEAN PROVE CertInv'
    BY <1>k DEF CertInv, CertsOK
  <1>1. ASSUME NEW self \in BOOLEAN, Begin(d, self) PROVE CertInv'
    <2> DEFINE step == IF PaidResult = NoResult THEN "source" ELSE AfterSource(self)
               r == [Away EXCEPT !.at = step, !.self = self, !.kind = kind,
                                 !.result = PaidResult]
    <2>1. PaidResult \in 0..MaxResults
      BY ResultExists DEF TestInv
    <2>2. step \in {"source", "find", "number"}
      BY DEF AfterSource
    <2>3. Move(d, r)
      BY <1>1 DEF Begin
    <2> HIDE DEF step
    <2>4. kind \in Kinds /\ Away \in DeskRecords
      BY AwayFits DEF CertInv, Fits
    <2>5. Fits(r)
      BY <2>1, <2>2, <2>4 DEF Fits, DeskRecords
    <2> HIDE DEF r
    <2>6. DesksOK' /\ UNCHANGED <<kind, certs>>
      BY <1>0, <1>1, <2>3, <2>5, Moving DEF Begin
    <2>7. overlapped' \in BOOLEAN
      BY <1>1 DEF Begin, Visit, CertInv
    <2> QED
      BY <1>k, <2>6, <2>7
  <1>2. ASSUME ReadLatest(d) PROVE CertInv'
    <2> DEFINE r == [desk[d] EXCEPT !.at = AfterSource(desk[d].self), !.result = Len(results)]
               s == [desk[d] EXCEPT !.at = "find"]
    <2>1. Len(results) \in 0..MaxResults
      BY ResultExists DEF TestInv
    <2>2. Fits(r) /\ Fits(s)
      BY <1>0, <2>1 DEF Fits, DeskRecords, AfterSource
    <2>3. Move(d, IF Len(results) > 0 THEN r ELSE IF desk[d].self THEN s ELSE Away)
      BY <1>2 DEF ReadLatest
    <2> HIDE DEF r, s
    <2>4. DesksOK'
      <3>1. UNCHANGED certs
        BY <1>2 DEF ReadLatest
      <3>2. Fits(IF Len(results) > 0 THEN r ELSE IF desk[d].self THEN s ELSE Away)
        BY <2>2, AwayFits
      <3> QED
        BY <1>0, <2>3, <3>1, <3>2, Moving
    <2> QED
      BY <1>2, <1>k, <2>4 DEF ReadLatest, CertInv
  <1>3. ASSUME FindLatest(d) PROVE CertInv'
    <2> DEFINE n == Len(certs)
               r == [desk[d] EXCEPT !.at = "number"]
               s == [desk[d] EXCEPT !.at = "correct", !.row = n]
    <2>1. n \in Nat
      BY <1>0, LenProperties DEF CertsOK
    <2>r. Fits(r)
      BY <1>0 DEF Fits, DeskRecords
    <2>s. s \in DeskRecords /\ s.at = "correct" /\ s.row = n
      <3> HIDE DEF n
      <3> QED
        BY <1>0, <2>1 DEF DeskRecords
    <2>c. n > 0 => n \in 1..Len(certs)
      BY <2>1
    <2>2. Fits(r) /\ (n > 0 => Fits(s))
      BY <2>r, <2>s, <2>c DEF Fits
    <2>3. PICK x : Move(d, x) /\ (x = r \/ x = Away \/ (n > 0 /\ x = s))
      <3>1. CASE n = 0
        BY <1>3, <3>1 DEF FindLatest
      <3>2. CASE n > 0 /\ certs[n].kind = desk[d].kind
        BY <1>3, <3>2 DEF FindLatest
      <3>3. CASE n > 0 /\ certs[n].kind # desk[d].kind
        BY <1>3, <3>3 DEF FindLatest
      <3> QED
        BY <2>1, <3>1, <3>2, <3>3
    <2> HIDE DEF r, s, n
    <2>4. Fits(x) /\ UNCHANGED <<kind, certs, overlapped>>
      BY <1>3, <2>2, <2>3, AwayFits DEF FindLatest
    <2>5. DesksOK'
      BY <1>0, <2>3, <2>4, Moving
    <2> QED
      BY <1>k, <2>4, <2>5 DEF CertInv
  <1>4. ASSUME CorrectKind(d) PROVE CertInv'
    BY <1>0, <1>4, Correcting DEF CorrectKind, CertInv
  <1>5. ASSUME ChooseNumber(d) PROVE CertInv'
    <2>1. PICK n \in Numbers : Move(d, [desk[d] EXCEPT !.at = "create", !.number = n])
      BY <1>5 DEF ChooseNumber
    <2> DEFINE r == [desk[d] EXCEPT !.at = "create", !.number = n]
    <2>2. n \in 0..MaxAttempts
      BY CertificateAssumption DEF Numbers
    <2>3. Fits(r)
      BY <1>0, <2>1, <2>2 DEF Fits, DeskRecords
    <2> HIDE DEF r
    <2>4. DesksOK' /\ UNCHANGED <<kind, certs, overlapped>>
      BY <1>0, <1>5, <2>1, <2>3, Moving DEF ChooseNumber, r
    <2> QED
      BY <1>k, <2>4 DEF CertInv
  <1>6. ASSUME CreateCertificate(d) PROVE CertInv'
    <2> DEFINE c == [number |-> desk[d].number, kind |-> desk[d].kind,
                     result |-> desk[d].result, self |-> desk[d].self]
    <2>1. desk[d].number \in Numbers
      BY <1>0, <1>6 DEF CreateCertificate, AtDesk, Fits
    <2>2. c \in CertRecords
      BY <1>0, <2>1, DeskFields DEF CertRecords
    <2>3. certs' = Append(certs, c) /\ Move(d, Away) /\ UNCHANGED <<kind, overlapped>>
      BY <1>6 DEF CreateCertificate
    <2> HIDE DEF c
    <2> QED
      BY <1>0, <2>2, <2>3, Adding DEF CertInv
  <1>7. ASSUME GiveUp(d) PROVE CertInv'
    <2>1. DesksOK' /\ UNCHANGED <<kind, certs, overlapped>>
      BY <1>0, <1>7, AwayFits, Moving DEF GiveUp
    <2> QED
      BY <1>k, <2>1 DEF CertInv
  <1> QED
    BY <1>1, <1>2, <1>3, <1>4, <1>5, <1>6, <1>7 DEF Serve

\* So they stay for ever.
LEMMA CertsSound == Spec => []CertInv
  <1>1. Init => CertInv
    <2> SUFFICES ASSUME Init PROVE CertInv
      OBVIOUS
    <2>1. 1 \in Numbers /\ 0 \in 0..MaxResults
      BY TestAssumption, CertificateAssumption DEF Numbers
    <2>2. \A k \in Kinds : [Earlier EXCEPT !.kind = k] \in CertRecords
      BY <2>1 DEF Earlier, CertRecords, NoResult
    <2>3. CertsOK
      <3>1. CASE certs = <<>>
        BY <3>1, EmptySeq DEF CertsOK
      <3>2. CASE \E k \in Kinds : certs = <<[Earlier EXCEPT !.kind = k]>>
        <4>1. PICK c \in CertRecords : certs = <<c>>
          BY <2>2, <3>2
        <4> QED
          BY <4>1 DEF CertsOK
      <3> QED
        BY <3>1, <3>2 DEF Init
    <2>4. DesksOK
      BY AwayFits DEF Init, DesksOK, Fits
    <2> QED
      BY <2>3, <2>4 DEF Init, CertInv
  <1>2. TestInv /\ CertInv /\ [Next]_vars => CertInv'
    <2> SUFFICES ASSUME TestInv, CertInv, [Next]_vars PROVE CertInv'
      OBVIOUS
    <2>1. CASE UNCHANGED certVars
      BY <2>1 DEF certVars, CertInv, CertsOK, DesksOK, Fits
    <2> QED
      BY <2>1, CertServe DEF Next, vars
  <1> QED
    BY <1>1, <1>2, TestsSound, PTL DEF Spec

\* Tests and certificates keep their types, for any number of tabs, requests,
\* questions, results and candidate numbers.
THEOREM TypeCorrect == Spec => []TypeOK
  <1>1. TestInv /\ CertInv => TypeOK
    <2> SUFFICES ASSUME TestInv, CertInv PROVE TypeOK
      OBVIOUS
    <2>1. TestTypeOK
      BY DEF TestInv, TestTypeOK, TabsInOrder, ResultsSound
    <2> QED
      BY <2>1 DEF CertInv, CertsOK, DesksOK, Fits, CertRecords, TypeOK, AtDesk, Rows
  <1> QED
    BY <1>1, TestsSound, CertsSound, PTL
-----------------------------------------------------------------------------
(* One certificate made by the user himself.                                 *)

\* Unless they overlapped: a preview or download is alone, and when it is about
\* to make a certificate there is none.
AloneAtDesk ==
    \A d, o \in Desks : d # o /\ ~AtDesk(d, "idle") /\ ~AtDesk(o, "idle") => ~desk[d].self
NoneYet ==
    \A d \in Desks : desk[d].self /\ desk[d].at \in {"number", "create"} => Len(certs) = 0
FirstIsSelf == \A i \in 1..Len(certs) : certs[i].self => i = 1

Single == ~overlapped => AloneAtDesk /\ NoneYet /\ FirstIsSelf

\* Every step for certificates keeps Single.
LEMMA SingleServe ==
    ASSUME CertInv, Single, NEW d \in Desks, Serve(d)
    PROVE  Single'
  <1> SUFFICES ASSUME ~overlapped' PROVE AloneAtDesk' /\ NoneYet' /\ FirstIsSelf'
    BY DEF Single
  <1>0. CertsOK /\ DesksOK /\ desk[d] \in DeskRecords /\ Len(certs) \in Nat
    BY LenProperties DEF CertInv, DesksOK, CertsOK
  <1>o. ~overlapped
    <2>1. ASSUME NEW self \in BOOLEAN, Begin(d, self) PROVE ~overlapped
      BY <2>1 DEF Begin, Visit
    <2> QED
      BY <2>1 DEF Serve, ReadLatest, FindLatest, CorrectKind, ChooseNumber, CreateCertificate,
                  GiveUp
  <1>s. AloneAtDesk /\ NoneYet /\ FirstIsSelf
    BY <1>o DEF Single
  <1>m. ASSUME NEW r, Move(d, r)
        PROVE  desk'[d] = r /\ \A o \in Desks \ {d} : desk'[o] = desk[o]
    BY <1>0, <1>m DEF DesksOK, Move
  \* A request under way goes on, or one ends; nothing is written.
  <1>g. ASSUME NEW r, Move(d, r), UNCHANGED certs,
               r.at # "idle" => ~AtDesk(d, "idle") /\ r.self = desk[d].self,
               r.at = "idle" \/ (r.self /\ r.at \in {"number", "create"} => Len(certs) = 0)
        PROVE  AloneAtDesk' /\ NoneYet' /\ FirstIsSelf'
    <2>1. desk'[d] = r /\ \A o \in Desks \ {d} : desk'[o] = desk[o]
      BY <1>m, <1>g
    <2>2. AloneAtDesk'
      BY <2>1, <1>g, <1>s DEF AloneAtDesk, AtDesk
    <2>3. NoneYet'
      BY <2>1, <1>g, <1>s DEF NoneYet
    <2> QED
      BY <2>2, <2>3, <1>g, <1>s DEF FirstIsSelf
  <1>1. ASSUME NEW self \in BOOLEAN, Begin(d, self) PROVE AloneAtDesk' /\ NoneYet' /\ FirstIsSelf'
    <2> DEFINE r == [Away EXCEPT !.at = IF PaidResult = NoResult THEN "source"
                                        ELSE AfterSource(self),
                                 !.self = self, !.kind = kind, !.result = PaidResult]
    <2>1. r.self = self /\ (self => r.at \in {"source", "find"}) /\ r.at # "idle"
      BY DEF Away, AfterSource
    <2>2. Move(d, r) /\ UNCHANGED certs
      BY <1>1 DEF Begin
    <2> HIDE DEF r
    <2>3. desk'[d] = r /\ \A o \in Desks \ {d} : desk'[o] = desk[o]
      BY <1>m, <2>2
    <2>4. \A o \in Desks : ~AtDesk(o, "idle") => ~self /\ ~desk[o].self
      BY <1>1 DEF Begin, Visit
    <2>5. AloneAtDesk'
      BY <1>s, <2>1, <2>3, <2>4 DEF AloneAtDesk, AtDesk
    <2>6. NoneYet'
      BY <1>s, <2>1, <2>2, <2>3 DEF NoneYet
    <2> QED
      BY <1>s, <2>2, <2>5, <2>6 DEF FirstIsSelf
  <1>2. ASSUME ReadLatest(d) PROVE AloneAtDesk' /\ NoneYet' /\ FirstIsSelf'
    <2> DEFINE r == IF Len(results) > 0
                    THEN [desk[d] EXCEPT !.at = AfterSource(desk[d].self), !.result = Len(results)]
                    ELSE IF desk[d].self THEN [desk[d] EXCEPT !.at = "find"] ELSE Away
    <2>1. Move(d, r) /\ UNCHANGED certs /\ ~AtDesk(d, "idle")
      BY <1>2 DEF ReadLatest, AtDesk
    <2>2. r.at = "idle" \/ (r.self = desk[d].self /\ (r.self => r.at = "find"))
      BY <1>0, AwayFits DEF DeskRecords, AfterSource
    <2> HIDE DEF r
    <2> QED
      BY <1>g, <2>1, <2>2
  <1>3. ASSUME FindLatest(d) PROVE AloneAtDesk' /\ NoneYet' /\ FirstIsSelf'
    <2> DEFINE n == Len(certs)
               r == [desk[d] EXCEPT !.at = "number"]
               s == [desk[d] EXCEPT !.at = "correct", !.row = n]
    <2>1. PICK x : Move(d, x) /\ ((n = 0 /\ x = r) \/ x = Away \/ x = s)
      <3>1. CASE n = 0
        BY <1>3, <3>1 DEF FindLatest
      <3>2. CASE n > 0 /\ certs[n].kind = desk[d].kind
        BY <1>3, <3>2 DEF FindLatest
      <3>3. CASE n > 0 /\ certs[n].kind # desk[d].kind
        BY <1>3, <3>3 DEF FindLatest
      <3> QED
        BY <1>0, <3>1, <3>2, <3>3
    <2>2. r.self = desk[d].self /\ r.at = "number" /\ s.self = desk[d].self /\ s.at = "correct"
      BY <1>0 DEF DeskRecords
    <2>3. UNCHANGED certs /\ ~AtDesk(d, "idle")
      BY <1>3 DEF FindLatest, AtDesk
    <2> HIDE DEF r, s
    <2> QED
      BY <1>g, <2>1, <2>2, <2>3, AwayFits
  <1>4. ASSUME CorrectKind(d) PROVE AloneAtDesk' /\ NoneYet' /\ FirstIsSelf'
    <2>1. Len(certs') = Len(certs) /\ \A i \in 1..Len(certs) : certs'[i].self = certs[i].self
      BY <1>0, <1>4, Correcting
    <2>2. desk'[d] = Away /\ \A o \in Desks \ {d} : desk'[o] = desk[o]
      BY <1>4, <1>m DEF CorrectKind
    <2>3. AloneAtDesk'
      BY <1>s, <2>2, AwayFits DEF AloneAtDesk, AtDesk
    <2>4. NoneYet'
      BY <1>s, <2>1, <2>2, AwayFits DEF NoneYet
    <2> QED
      BY <1>s, <2>1, <2>3, <2>4 DEF FirstIsSelf
  <1>5. ASSUME ChooseNumber(d) PROVE AloneAtDesk' /\ NoneYet' /\ FirstIsSelf'
    <2>1. PICK n \in Numbers : Move(d, [desk[d] EXCEPT !.at = "create", !.number = n])
      BY <1>5 DEF ChooseNumber
    <2> DEFINE r == [desk[d] EXCEPT !.at = "create", !.number = n]
    <2>2. r.self = desk[d].self /\ r.at = "create"
      BY <1>0 DEF DeskRecords
    <2>3. UNCHANGED certs /\ AtDesk(d, "number")
      BY <1>5 DEF ChooseNumber
    <2>4. desk[d].self => Len(certs) = 0
      BY <1>s, <2>3 DEF NoneYet, AtDesk
    <2>5. Move(d, r)
      BY <2>1
    <2> HIDE DEF r
    <2> QED
      BY <1>g, <2>2, <2>3, <2>4, <2>5 DEF AtDesk
  <1>6. ASSUME CreateCertificate(d) PROVE AloneAtDesk' /\ NoneYet' /\ FirstIsSelf'
    <2> DEFINE c == [number |-> desk[d].number, kind |-> desk[d].kind,
                     result |-> desk[d].result, self |-> desk[d].self]
    <2>1. desk[d].number \in Numbers /\ AtDesk(d, "create")
      BY <1>6 DEF CreateCertificate, AtDesk, CertInv, DesksOK, Fits
    <2>2. c \in CertRecords /\ c.self = desk[d].self
      BY <1>0, <2>1, DeskFields DEF CertRecords
    <2>3. certs' = Append(certs, c) /\ Move(d, Away)
      BY <1>6 DEF CreateCertificate
    <2> HIDE DEF c
    <2>4. /\ Len(certs') = Len(certs) + 1 /\ certs'[Len(certs) + 1] = c
          /\ \A i \in 1..Len(certs) : certs'[i] = certs[i]
      BY <1>0, <2>2, <2>3, Adding
    <2>5. desk'[d] = Away /\ \A o \in Desks \ {d} : desk'[o] = desk[o]
      BY <1>m, <2>3
    <2>6. AloneAtDesk'
      BY <1>s, <2>5, AwayFits DEF AloneAtDesk, AtDesk
    <2>7. NoneYet'
      <3> SUFFICES ASSUME NEW o \in Desks, desk'[o].self, desk'[o].at \in {"number", "create"}
                   PROVE  FALSE
        BY DEF NoneYet
      <3>1. o # d /\ desk'[o] = desk[o]
        BY <2>5, AwayFits
      <3> QED
        BY <3>1, <1>s, <2>1 DEF AloneAtDesk, AtDesk
    <2>8. FirstIsSelf'
      <3> SUFFICES ASSUME NEW i \in 1..Len(certs'), certs'[i].self PROVE i = 1
        BY DEF FirstIsSelf
      <3>1. CASE i \in 1..Len(certs)
        BY <3>1, <1>s, <2>4 DEF FirstIsSelf
      <3>2. CASE i = Len(certs) + 1
        <4>1. desk[d].self
          BY <3>2, <2>2, <2>4
        <4>2. Len(certs) = 0
          BY <4>1, <1>s, <2>1 DEF NoneYet, AtDesk
        <4> QED
          BY <3>2, <4>2
      <3> QED
        BY <1>0, <2>4, <3>1, <3>2
    <2> QED
      BY <2>6, <2>7, <2>8
  <1>7. ASSUME GiveUp(d) PROVE AloneAtDesk' /\ NoneYet' /\ FirstIsSelf'
    BY <1>7, <1>g, AwayFits DEF GiveUp
  <1> QED
    BY <1>1, <1>2, <1>3, <1>4, <1>5, <1>6, <1>7 DEF Serve

\* As long as previews and downloads overlap with no other certificate request,
\* what they make is the user's first certificate, for any number of requests.
THEOREM OneSelfMadeCorrect == Spec => []OneSelfMade
  <1>1. Init => Single
    <2> SUFFICES ASSUME Init PROVE Single
      OBVIOUS
    <2>1. AloneAtDesk /\ NoneYet
      BY AwayFits DEF Init, AloneAtDesk, NoneYet, AtDesk
    <2>2. Len(certs) \in {0, 1}
      BY DEF Init
    <2>3. FirstIsSelf
      BY <2>2 DEF FirstIsSelf
    <2> QED
      BY <2>1, <2>3 DEF Single
  <1>2. CertInv /\ Single /\ [Next]_vars => Single'
    <2> SUFFICES ASSUME CertInv, Single, [Next]_vars PROVE Single'
      OBVIOUS
    <2>1. CASE UNCHANGED certVars
      BY <2>1 DEF certVars, Single, AloneAtDesk, NoneYet, FirstIsSelf, AtDesk
    <2> QED
      BY <2>1, SingleServe DEF Next, vars
  <1>3. Single => OneSelfMade
    BY DEF Single, FirstIsSelf, OneSelfMade, Rows
  <1> QED
    BY <1>1, <1>2, <1>3, CertsSound, PTL DEF Spec
=============================================================================
