--------------------------- MODULE ScoringProofs ---------------------------
(***************************************************************************)
(* Lemmas about the rubrics for any rows and any answers: what each score  *)
(* is, what flooring and weighing make of the scores, and that one more    *)
(* run of the tests lowers none of them.                                   *)
(***************************************************************************)
EXTENDS Scoring, SumOfSeqProofs, FiniteSetTheorems

(* The score.  A score is a number or NA; Raises compares two that are of    *)
(* the same kind.                                                            *)

Scores == Nat \union {NA}
Raises(x, y) == (x = NA <=> y = NA) /\ x <= y

\* The quotient and the rest.
LEMMA Division ==
  ASSUME NEW a \in Int, NEW b \in Nat \ {0}
  PROVE  /\ a \div b \in Int /\ a % b \in 0..(b - 1)
         /\ a = b * (a \div b) + (a % b)
  <1>1. b \in Nat /\ b > 0
    OBVIOUS
  <1>2. a \div b \in Int /\ a % b \in 0..(b - 1)
    BY <1>1
  <1>3. a = b * (a \div b) + (a % b)
    BY <1>1, Z3
  <1> QED BY <1>2, <1>3

\* Rounding does not leave the bounds it stays within by less than a half.
LEMMA RoundDivBelow ==
  ASSUME NEW a \in Int, NEW b \in Nat \ {0}, NEW k \in Int, 2 * a < (2 * k + 1) * b
  PROVE  RoundDiv(a, b) <= k
  <1> DEFINE q == a \div b
             r == a % b
  <1>1. q \in Int /\ r \in Int /\ 0 <= r /\ r < b /\ a = b * q + r
    BY Division
  <1>2. RoundDiv(a, b) = IF 2 * r < b \/ (2 * r = b /\ q % 2 = 0) THEN q ELSE q + 1
    BY DEF RoundDiv
  <1> HIDE DEF q, r
  <1>3. q <= k
    <2> SUFFICES ASSUME q >= k + 1 PROVE FALSE
      BY <1>1
    <2>1. b * q >= b * (k + 1)
      BY <1>1
    <2> QED BY <1>1, <2>1
  <1>4. ASSUME q = k PROVE 2 * r < b
    BY <1>1, <1>4
  <1> QED BY <1>1, <1>2, <1>3, <1>4

LEMMA RoundDivAbove ==
  ASSUME NEW a \in Int, NEW b \in Nat \ {0}, NEW k \in Int, k * b <= a
  PROVE  k <= RoundDiv(a, b)
  <1> DEFINE q == a \div b
             r == a % b
  <1>1. q \in Int /\ r \in Int /\ 0 <= r /\ r < b /\ a = b * q + r
    BY Division
  <1>2. RoundDiv(a, b) = IF 2 * r < b \/ (2 * r = b /\ q % 2 = 0) THEN q ELSE q + 1
    BY DEF RoundDiv
  <1> HIDE DEF q, r
  <1>3. k <= q
    <2> SUFFICES ASSUME q + 1 <= k PROVE FALSE
      BY <1>1
    <2>1. b * (q + 1) <= b * k
      BY <1>1
    <2> QED BY <1>1, <2>1
  <1> QED BY <1>1, <1>2, <1>3

LEMMA RoundDivMonotone ==
  ASSUME NEW a \in Int, NEW c \in Int, NEW b \in Nat \ {0}, a <= c
  PROVE  RoundDiv(a, b) <= RoundDiv(c, b)
  <1> DEFINE q == a \div b
             r == a % b
             v == c \div b
             w == c % b
  <1>1. q \in Int /\ r \in Int /\ 0 <= r /\ r < b /\ a = b * q + r
    BY Division
  <1>2. v \in Int /\ w \in Int /\ 0 <= w /\ w < b /\ c = b * v + w
    BY Division
  <1>3. /\ RoundDiv(a, b) = IF 2 * r < b \/ (2 * r = b /\ q % 2 = 0) THEN q ELSE q + 1
        /\ RoundDiv(c, b) = IF 2 * w < b \/ (2 * w = b /\ v % 2 = 0) THEN v ELSE v + 1
    BY DEF RoundDiv
  <1> HIDE DEF q, r, v, w
  <1>4. q <= v
    <2> SUFFICES ASSUME v + 1 <= q PROVE FALSE
      BY <1>1, <1>2
    <2>1. b * (v + 1) <= b * q
      BY <1>1, <1>2
    <2> QED BY <1>1, <1>2, <2>1
  <1>5. CASE q = v
    <2>1. r <= w
      BY <1>1, <1>2, <1>5
    <2> QED BY <1>1, <1>2, <1>3, <1>5, <2>1
  <1>6. CASE q < v
    BY <1>1, <1>2, <1>3, <1>6
  <1> QED BY <1>1, <1>2, <1>4, <1>5, <1>6

LEMMA ProductMonotone ==
  ASSUME NEW a \in Nat, NEW b \in Nat, NEW w \in Nat, a <= b
  PROVE  a * w <= b * w
  <1>1. (b - a) * w >= 0 /\ (b - a) * w = b * w - a * w
    OBVIOUS
  <1> QED BY <1>1

LEMMA RoundDivType ==
  ASSUME NEW a \in Int, NEW b \in Nat \ {0}
  PROVE  RoundDiv(a, b) \in Int /\ (a >= 0 => RoundDiv(a, b) \in Nat)
  <1>1. RoundDiv(a, b) \in Int
    BY Division DEF RoundDiv
  <1>2. ASSUME a >= 0 PROVE 0 <= RoundDiv(a, b)
    <2>1. 0 * b <= a
      BY <1>2
    <2> QED BY <2>1, RoundDivAbove
  <1> QED BY <1>1, <1>2

LEMMA RatioType ==
  ASSUME NEW part \in Nat, NEW whole \in Nat
  PROVE  Ratio(part, whole) \in Scores /\ (Ratio(part, whole) = NA <=> whole = 0)
  <1>1. CASE whole = 0
    BY <1>1 DEF Ratio, Scores
  <1>2. CASE whole # 0
    <2>1. RoundDiv(1000 * part, whole) \in Nat
      BY <1>2, RoundDivType
    <2> QED BY <1>2, <2>1 DEF Ratio, Scores, NA
  <1> QED BY <1>1, <1>2

LEMMA RatioMonotone ==
  ASSUME NEW part \in Nat, NEW more \in Nat, part <= more, NEW whole \in Nat
  PROVE  Raises(Ratio(part, whole), Ratio(more, whole))
  <1>1. CASE whole = 0
    BY <1>1 DEF Ratio, Raises, NA
  <1>2. CASE whole # 0
    <2>1. RoundDiv(1000 * part, whole) <= RoundDiv(1000 * more, whole)
      <3>1. 1000 * part \in Int /\ 1000 * more \in Int /\ 1000 * part <= 1000 * more
        OBVIOUS
      <3> QED BY <1>2, <3>1, RoundDivMonotone
    <2>2. Ratio(part, whole) # NA /\ Ratio(more, whole) # NA
      BY <1>2, RatioType
    <2> QED BY <1>2, <2>1, <2>2 DEF Ratio, Raises
  <1> QED BY <1>1, <1>2

(* The weighted average: what its parts weigh and count.                     *)

Parts == Seq(Scores \X Nat)
WeightsOf(parts) == [i \in DOMAIN parts |-> IF parts[i][1] = NA THEN 0 ELSE parts[i][2]]
PointsOf(parts) == [i \in DOMAIN parts |-> parts[i][1] * WeightsOf(parts)[i]]

LEMMA AverageIs ==
  ASSUME NEW parts
  PROVE  WeightedAverage(parts) =
           IF SumOf(WeightsOf(parts)) = 0 THEN NA
           ELSE RoundDiv(SumOf(PointsOf(parts)), SumOf(WeightsOf(parts)))
  <1>1. PointsOf(parts) =
          [i \in DOMAIN parts |-> parts[i][1] * (IF parts[i][1] = NA THEN 0 ELSE parts[i][2])]
    BY DEF PointsOf, WeightsOf
  <1> QED BY <1>1 DEF WeightedAverage, WeightsOf

LEMMA PartsAdd ==
  ASSUME NEW parts \in Parts
  PROVE  /\ WeightsOf(parts) \in Seq(Nat) /\ PointsOf(parts) \in Seq(Nat)
         /\ DOMAIN WeightsOf(parts) = DOMAIN parts /\ DOMAIN PointsOf(parts) = DOMAIN parts
         /\ Len(WeightsOf(parts)) = Len(parts) /\ Len(PointsOf(parts)) = Len(parts)
         /\ SumOf(WeightsOf(parts)) \in Nat /\ SumOf(PointsOf(parts)) \in Nat
         /\ \A i \in DOMAIN parts : /\ parts[i][1] \in Scores /\ parts[i][2] \in Nat
                                    /\ WeightsOf(parts)[i] = IF parts[i][1] = NA THEN 0 ELSE parts[i][2]
                                    /\ PointsOf(parts)[i] = parts[i][1] * WeightsOf(parts)[i]
  <1> DEFINE n == Len(parts)
  <1>1. n \in Nat /\ DOMAIN parts = 1..n
    BY DEF Parts
  <1>2. \A i \in DOMAIN parts : parts[i][1] \in Scores /\ parts[i][2] \in Nat
    <2>1. \A i \in DOMAIN parts : parts[i] \in Scores \X Nat
      BY Elements DEF Parts
    <2> QED BY <2>1
  <1>3. \A i \in DOMAIN parts : /\ WeightsOf(parts)[i] = IF parts[i][1] = NA THEN 0 ELSE parts[i][2]
                                /\ WeightsOf(parts)[i] \in Nat
    BY <1>2 DEF WeightsOf
  <1>4. \A i \in DOMAIN parts : /\ PointsOf(parts)[i] = parts[i][1] * WeightsOf(parts)[i]
                                /\ PointsOf(parts)[i] \in Nat
    <2> SUFFICES ASSUME NEW i \in DOMAIN parts
                 PROVE  /\ PointsOf(parts)[i] = parts[i][1] * WeightsOf(parts)[i]
                        /\ PointsOf(parts)[i] \in Nat
      OBVIOUS
    <2>1. PointsOf(parts)[i] = parts[i][1] * WeightsOf(parts)[i]
      BY DEF PointsOf
    <2>2. CASE parts[i][1] = NA
      BY <1>3, <2>1, <2>2 DEF NA
    <2>3. CASE parts[i][1] \in Nat
      BY <1>3, <2>1, <2>3
    <2> QED BY <1>2, <2>1, <2>2, <2>3 DEF Scores
  <1>5. WeightsOf(parts) \in [1..n -> Nat] /\ PointsOf(parts) \in [1..n -> Nat]
    <2>1. WeightsOf(parts) = [i \in 1..n |-> WeightsOf(parts)[i]]
      BY <1>1 DEF WeightsOf
    <2>2. PointsOf(parts) = [i \in 1..n |-> PointsOf(parts)[i]]
      BY <1>1 DEF PointsOf
    <2> HIDE DEF n
    <2> QED BY <1>1, <1>3, <1>4, <2>1, <2>2
  <1>6. /\ WeightsOf(parts) \in Seq(Nat) /\ PointsOf(parts) \in Seq(Nat)
        /\ Len(WeightsOf(parts)) = n /\ Len(PointsOf(parts)) = n
    <2> HIDE DEF n
    <2> QED BY <1>1, <1>5
  <1> QED BY <1>1, <1>2, <1>3, <1>4, <1>5, <1>6, SumOfNaturals

LEMMA AverageType == ASSUME NEW parts \in Parts PROVE WeightedAverage(parts) \in Scores
  <1>1. SumOf(WeightsOf(parts)) \in Nat /\ SumOf(PointsOf(parts)) \in Nat
    BY PartsAdd
  <1> QED BY <1>1, AverageIs, RoundDivType DEF Scores

LEMMA PartBounded ==
  ASSUME NEW parts \in Parts, NEW c \in Nat, NEW i \in DOMAIN parts, parts[i][1] <= c
  PROVE  PointsOf(parts)[i] <= c * WeightsOf(parts)[i]
  <1>1. /\ parts[i][1] \in Scores /\ parts[i][2] \in Nat /\ parts[i][1] <= c
        /\ WeightsOf(parts)[i] = IF parts[i][1] = NA THEN 0 ELSE parts[i][2]
        /\ PointsOf(parts)[i] = parts[i][1] * WeightsOf(parts)[i]
    BY PartsAdd
  <1>2. CASE parts[i][1] = NA
    BY <1>1, <1>2 DEF NA
  <1>3. CASE parts[i][1] \in Nat /\ parts[i][1] # NA
    <2>1. WeightsOf(parts)[i] = parts[i][2] /\ PointsOf(parts)[i] = parts[i][1] * parts[i][2]
      BY <1>1, <1>3
    <2> QED BY <1>1, <1>3, <2>1, ProductMonotone
  <1> QED BY <1>1, <1>2, <1>3 DEF Scores

\* An average is no more than the most that a part has.
LEMMA AverageBounded ==
  ASSUME NEW parts \in Parts, NEW c \in Nat, \A i \in DOMAIN parts : parts[i][1] <= c
  PROVE  WeightedAverage(parts) <= c
  <1> DEFINE w == SumOf(WeightsOf(parts))
             v == SumOf(PointsOf(parts))
  <1>1. w \in Nat /\ v \in Nat
    BY PartsAdd
  <1>2. v <= c * w
    <2>1. ASSUME NEW i \in DOMAIN parts
          PROVE  PointsOf(parts)[i] <= c * WeightsOf(parts)[i]
      BY PartBounded
    <2>2. /\ WeightsOf(parts) \in Seq(Int) /\ PointsOf(parts) \in Seq(Int)
          /\ DOMAIN PointsOf(parts) = DOMAIN parts /\ Len(PointsOf(parts)) = Len(WeightsOf(parts))
      BY PartsAdd
    <2>3. c \in Int /\ \A i \in DOMAIN PointsOf(parts) : PointsOf(parts)[i] <= c * WeightsOf(parts)[i]
      BY <2>1, <2>2
    <2> QED BY <2>2, <2>3, SumOfScaled
  <1>3. WeightedAverage(parts) = IF w = 0 THEN NA ELSE RoundDiv(v, w)
    BY AverageIs
  <1> HIDE DEF w, v
  <1>4. CASE w = 0
    BY <1>3, <1>4 DEF NA
  <1>5. CASE w # 0
    <2>1. 2 * v < (2 * c + 1) * w
      <3>1. (2 * c + 1) * w = 2 * (c * w) + w
        BY <1>1
      <3>2. c * w \in Int
        BY <1>1
      <3> QED BY <1>1, <1>2, <1>5, <3>1, <3>2
    <2> QED BY <1>1, <1>3, <1>5, <2>1, RoundDivBelow
  <1> QED BY <1>4, <1>5

\* Parts that are raised raise the average.
LEMMA AverageMonotone ==
  ASSUME NEW parts \in Parts, NEW more \in Parts, Len(parts) = Len(more),
         \A i \in DOMAIN parts : parts[i][2] = more[i][2] /\ Raises(parts[i][1], more[i][1])
  PROVE  Raises(WeightedAverage(parts), WeightedAverage(more))
  <1>1. DOMAIN parts = DOMAIN more
    BY DEF Parts
  <1>2. WeightsOf(parts) = WeightsOf(more)
    BY <1>1 DEF WeightsOf, Raises
  <1> DEFINE w == SumOf(WeightsOf(parts))
             v == SumOf(PointsOf(parts))
             u == SumOf(PointsOf(more))
  <1>3. w \in Nat /\ v \in Nat /\ u \in Nat
    BY PartsAdd
  <1>4. v <= u
    <2>1. ASSUME NEW i \in DOMAIN parts
          PROVE  PointsOf(parts)[i] <= PointsOf(more)[i]
      <3>1. /\ parts[i][1] \in Scores /\ parts[i][2] \in Nat /\ more[i][1] \in Scores
            /\ WeightsOf(parts)[i] = IF parts[i][1] = NA THEN 0 ELSE parts[i][2]
            /\ PointsOf(parts)[i] = parts[i][1] * WeightsOf(parts)[i]
            /\ PointsOf(more)[i] = more[i][1] * WeightsOf(parts)[i]
            /\ Raises(parts[i][1], more[i][1])
        BY <1>1, <1>2, PartsAdd
      <3>2. CASE parts[i][1] = NA
        BY <3>1, <3>2 DEF NA, Raises
      <3>3. CASE parts[i][1] # NA
        <4>1. parts[i][1] \in Nat /\ more[i][1] \in Nat /\ parts[i][1] <= more[i][1]
          BY <3>1, <3>3 DEF Scores, Raises
        <4>2. PointsOf(parts)[i] = parts[i][1] * parts[i][2] /\ PointsOf(more)[i] = more[i][1] * parts[i][2]
          BY <3>1, <3>3
        <4> QED BY <3>1, <4>1, <4>2, ProductMonotone
      <3> QED BY <3>2, <3>3
    <2>2. /\ PointsOf(parts) \in Seq(Int) /\ PointsOf(more) \in Seq(Int)
          /\ DOMAIN PointsOf(parts) = DOMAIN parts /\ Len(PointsOf(parts)) = Len(PointsOf(more))
      BY PartsAdd
    <2> QED BY <2>1, <2>2, SumOfMonotone
  <1>5. /\ WeightedAverage(parts) = IF w = 0 THEN NA ELSE RoundDiv(v, w)
        /\ WeightedAverage(more) = IF w = 0 THEN NA ELSE RoundDiv(u, w)
    BY <1>2, AverageIs
  <1> HIDE DEF w, v, u
  <1>6. CASE w = 0
    BY <1>5, <1>6 DEF Raises, NA
  <1>7. CASE w # 0
    <2>1. RoundDiv(v, w) \in Nat /\ RoundDiv(u, w) \in Nat /\ RoundDiv(v, w) <= RoundDiv(u, w)
      BY <1>3, <1>4, <1>7, RoundDivType, RoundDivMonotone
    <2> QED BY <1>5, <1>7, <2>1 DEF Raises, NA
  <1> QED BY <1>6, <1>7

----------------------------------------------------------------------------
(* The bands.  A band is the score of the first step the value clears.       *)

\* A mark is a score of the scale a rubric has.
Mark == {n \in Nat : n <= 1000}
Marks == Mark \union {NA}
Steps == Seq(Int \X Mark)

LEMMA MarksAreScores == Mark \subseteq Marks /\ Marks \subseteq Scores /\ NA \in Marks /\ Mark \subseteq Nat
                        /\ Nat \subseteq Scores
  BY DEF Mark, Marks, Scores

LEMMA StepTaken ==
  ASSUME NEW steps \in Steps, NEW hit, hit \subseteq DOMAIN steps, hit # {}
  PROVE  /\ Min(hit) \in hit /\ \A i \in hit : Min(hit) <= i
         /\ steps[Min(hit)][2] \in Mark
  <1>1. Len(steps) \in Nat /\ DOMAIN steps = 1..Len(steps)
    BY DEF Steps
  <1>2. hit \subseteq 0..Len(steps)
    BY <1>1
  <1>3. Min(hit) \in hit /\ \A i \in hit : Min(hit) <= i
    BY <1>1, <1>2, SmallestOf
  <1>4. steps[Min(hit)] \in Int \X Mark
    BY <1>3, Elements DEF Steps
  <1> QED BY <1>3, <1>4

LEMMA BandTypes ==
  ASSUME NEW steps \in Steps, NEW x, NEW otherwise \in Mark
  PROVE  /\ Over(x, steps, otherwise) \in Mark
         /\ From(x, steps, otherwise) \in Mark
         /\ Under(x, steps, otherwise) \in Mark
  <1>1. \A hit \in SUBSET DOMAIN steps : (IF hit = {} THEN otherwise ELSE steps[Min(hit)][2]) \in Mark
    BY StepTaken
  <1>2. Over(x, steps, otherwise) \in Mark
    <2> DEFINE hit == {i \in DOMAIN steps : x > steps[i][1]}
    <2>1. Over(x, steps, otherwise) = IF hit = {} THEN otherwise ELSE steps[Min(hit)][2]
      BY DEF Over, FirstStep
    <2>2. hit \in SUBSET DOMAIN steps
      OBVIOUS
    <2> HIDE DEF hit
    <2> QED BY <1>1, <2>1, <2>2
  <1>3. From(x, steps, otherwise) \in Mark
    <2> DEFINE hit == {i \in DOMAIN steps : x >= steps[i][1]}
    <2>1. From(x, steps, otherwise) = IF hit = {} THEN otherwise ELSE steps[Min(hit)][2]
      BY DEF From, FirstStep
    <2>2. hit \in SUBSET DOMAIN steps
      OBVIOUS
    <2> HIDE DEF hit
    <2> QED BY <1>1, <2>1, <2>2
  <1>4. Under(x, steps, otherwise) \in Mark
    <2> DEFINE hit == {i \in DOMAIN steps : x < steps[i][1]}
    <2>1. Under(x, steps, otherwise) = IF hit = {} THEN otherwise ELSE steps[Min(hit)][2]
      BY DEF Under, FirstStep
    <2>2. hit \in SUBSET DOMAIN steps
      OBVIOUS
    <2> HIDE DEF hit
    <2> QED BY <1>1, <2>1, <2>2
  <1> QED BY <1>2, <1>3, <1>4

\* Whoever clears more steps gets no less, when the steps fall.
LEMMA OverMonotone ==
  ASSUME NEW steps \in Steps, NEW otherwise \in Mark, NEW x \in Int, NEW y \in Int, x <= y,
         \A i, j \in DOMAIN steps : i <= j => steps[j][2] <= steps[i][2],
         \A i \in DOMAIN steps : otherwise <= steps[i][2]
  PROVE  Over(x, steps, otherwise) <= Over(y, steps, otherwise)
  <1> DEFINE few == {i \in DOMAIN steps : x > steps[i][1]}
             many == {i \in DOMAIN steps : y > steps[i][1]}
  <1>1. /\ Over(x, steps, otherwise) = IF few = {} THEN otherwise ELSE steps[Min(few)][2]
        /\ Over(y, steps, otherwise) = IF many = {} THEN otherwise ELSE steps[Min(many)][2]
    BY DEF Over, FirstStep
  <1>2. few \subseteq many /\ few \subseteq DOMAIN steps /\ many \subseteq DOMAIN steps
    <2>1. \A i \in DOMAIN steps : steps[i][1] \in Int
      <3>1. \A i \in DOMAIN steps : steps[i] \in Int \X Mark
        BY Elements DEF Steps
      <3> QED BY <3>1
    <2> QED BY <2>1
  <1> HIDE DEF few, many
  <1>3. CASE few = {}
    <2>1. CASE many = {}
      BY <1>1, <1>3, <2>1 DEF Mark
    <2>2. CASE many # {}
      <3>1. Min(many) \in DOMAIN steps
        BY <1>2, <2>2, StepTaken
      <3> QED BY <1>1, <1>3, <2>2, <3>1
    <2> QED BY <2>1, <2>2
  <1>4. CASE few # {}
    <2>1. many # {} /\ Min(few) \in DOMAIN steps /\ Min(many) \in DOMAIN steps /\ Min(many) <= Min(few)
      BY <1>2, <1>4, StepTaken
    <2> QED BY <1>1, <1>4, <2>1
  <1> QED BY <1>3, <1>4

TestAfterSteps == <<<<800, 950>>, <<500, 700>>, <<300, 500>>, <<0, 300>>>>

LEMMA TestAfterBandFacts ==
  ASSUME NEW neutral \in Marks, NEW ratio \in Scores, NEW more \in Scores, Raises(ratio, more)
  PROVE  /\ TestAfterBand(ratio, neutral) \in Marks
         /\ Raises(TestAfterBand(ratio, neutral), TestAfterBand(more, neutral))
  <1>1. TestAfterSteps \in Steps
    BY DEF Steps, Mark, TestAfterSteps
  <1>2. CASE ratio = NA
    <2>1. more = NA
      BY <1>2 DEF Raises
    <2> QED BY <1>2, <2>1 DEF TestAfterBand, Raises, Marks, Mark, NA
  <1>3. CASE ratio # NA
    <2>1. more # NA /\ ratio \in Int /\ more \in Int /\ ratio <= more
      BY <1>3 DEF Raises, Scores
    <2>2. /\ TestAfterBand(ratio, neutral) = Over(ratio, TestAfterSteps, 100)
          /\ TestAfterBand(more, neutral) = Over(more, TestAfterSteps, 100)
      BY <1>3, <2>1 DEF TestAfterBand, TestAfterSteps
    <2>3. Over(ratio, TestAfterSteps, 100) \in Mark /\ Over(more, TestAfterSteps, 100) \in Mark
      <3>1. 100 \in Mark
        BY DEF Mark
      <3> QED BY <1>1, <3>1, BandTypes
    <2>4. Over(ratio, TestAfterSteps, 100) <= Over(more, TestAfterSteps, 100)
      <3>1. /\ \A i, j \in DOMAIN TestAfterSteps : i <= j => TestAfterSteps[j][2] <= TestAfterSteps[i][2]
            /\ \A i \in DOMAIN TestAfterSteps : 100 <= TestAfterSteps[i][2]
        BY DEF TestAfterSteps
      <3>2. 100 \in Mark
        BY DEF Mark
      <3> QED BY <1>1, <2>1, <3>1, <3>2, OverMonotone
    <2> QED BY <2>2, <2>3, <2>4 DEF Marks, Mark, Raises, NA
  <1> QED BY <1>2, <1>3

LEMMA TestAfterScored ==
  ASSUME NEW ratio \in Scores
  PROVE  TestAfterBand(ratio, 500) \in Mark
  <1>1. 100 \in Mark /\ 500 \in Mark
    BY DEF Mark
  <1>2. TestAfterSteps \in Steps
    BY DEF Steps, Mark, TestAfterSteps
  <1>3. Over(ratio, TestAfterSteps, 100) \in Mark
    BY <1>1, <1>2, BandTypes
  <1> QED BY <1>1, <1>3 DEF TestAfterBand, TestAfterSteps

LEMMA OtherBands ==
  ASSUME NEW x
  PROVE  /\ ApplyThenEditBand(x) \in Marks
         /\ SelfAuthoredBand(x) \in Marks
         /\ IncrementalEditBand(x) \in Mark
  <1>1. ApplyThenEditBand(x) \in Marks
    <2>1. <<<<500, 900>>, <<250, 700>>, <<100, 500>>, <<0, 300>>>> \in Steps /\ 200 \in Mark
      BY DEF Steps, Mark
    <2> QED BY <2>1, BandTypes DEF ApplyThenEditBand, Marks
  <1>2. SelfAuthoredBand(x) \in Marks
    BY DEF SelfAuthoredBand, Marks, Mark
  <1>3. IncrementalEditBand(x) \in Mark
    <2>1. <<<<4000, 800>>, <<12000, 600>>, <<30000, 500>>>> \in Steps /\ 300 \in Mark /\ 700 \in Mark
      BY DEF Steps, Mark
    <2> QED BY <2>1, BandTypes DEF IncrementalEditBand
  <1> QED BY <1>1, <1>2, <1>3

LEMMA IncrementalBandFacts ==
  ASSUME NEW inc, NEW more, inc.mean = more.mean, inc.between \in Nat, more.between \in Nat,
         inc.between <= more.between
  PROVE  /\ IncrementalBand(inc) \in Marks
         /\ Raises(IncrementalBand(inc), IncrementalBand(more))
  <1> DEFINE base == Under(inc.mean, <<<<2000, 800>>, <<5000, 700>>, <<20000, 500>>>>, 300)
  <1>1. base \in Mark
    <2>1. <<<<2000, 800>>, <<5000, 700>>, <<20000, 500>>>> \in Steps /\ 300 \in Mark
      BY DEF Steps, Mark
    <2> QED BY <2>1, BandTypes
  <1>2. /\ RoundDiv(inc.between, 10) \in Nat /\ RoundDiv(more.between, 10) \in Nat
        /\ RoundDiv(inc.between, 10) <= RoundDiv(more.between, 10)
    BY RoundDivType, RoundDivMonotone
  <1>3. /\ IncrementalBand(inc) = IF inc.mean = NA THEN NA ELSE Least(1000, base + RoundDiv(inc.between, 10))
        /\ IncrementalBand(more) = IF inc.mean = NA THEN NA ELSE Least(1000, base + RoundDiv(more.between, 10))
    BY DEF IncrementalBand
  <1> HIDE DEF base
  <1>4. \A n, m \in Nat : n <= m => /\ Least(1000, base + n) \in Mark /\ Least(1000, base + m) \in Mark
                                   /\ Least(1000, base + n) <= Least(1000, base + m)
    BY <1>1 DEF Least, Mark
  <1>5. /\ Least(1000, base + RoundDiv(inc.between, 10)) \in Mark
        /\ Least(1000, base + RoundDiv(more.between, 10)) \in Mark
        /\ Least(1000, base + RoundDiv(inc.between, 10)) <= Least(1000, base + RoundDiv(more.between, 10))
    BY <1>2, <1>4
  <1> QED BY <1>3, <1>5 DEF Marks, Mark, Raises, NA

----------------------------------------------------------------------------
(* The rubrics. *)

LEMMA FourParts ==
  ASSUME NEW a \in Scores, NEW b \in Scores, NEW c \in Scores, NEW d \in Scores,
         NEW u \in Nat, NEW v \in Nat, NEW w \in Nat, NEW z \in Nat
  PROVE  <<<<a, u>>, <<b, v>>, <<c, w>>, <<d, z>>>> \in Parts
  BY DEF Parts

LEMMA FourMarks ==
  ASSUME NEW a \in Marks, NEW b \in Marks, NEW c \in Marks, NEW d \in Marks,
         NEW u \in Nat, NEW v \in Nat, NEW w \in Nat, NEW z \in Nat
  PROVE  <<<<a, u>>, <<b, v>>, <<c, w>>, <<d, z>>>> \in Seq(Marks \X Nat)
  OBVIOUS

LEMMA AverageMark ==
  ASSUME NEW parts \in Seq(Marks \X Nat)
  PROVE  WeightedAverage(parts) \in Marks
  <1>1. parts \in Parts
    <2>1. Marks \X Nat \subseteq Scores \X Nat
      BY MarksAreScores
    <2> QED BY <2>1, WiderSeq DEF Parts
  <1>2. \A i \in DOMAIN parts : parts[i][1] <= 1000
    <2>1. \A i \in DOMAIN parts : parts[i] \in Marks \X Nat
      BY Elements
    <2>2. \A x \in Marks : x <= 1000
      BY DEF Marks, Mark, NA
    <2> QED BY <2>1, <2>2
  <1>3. WeightedAverage(parts) \in Scores /\ WeightedAverage(parts) <= 1000
    BY <1>1, <1>2, AverageType, AverageBounded
  <1>4. WeightedAverage(parts) = NA \/ WeightedAverage(parts) \in Nat
    BY <1>3 DEF Scores
  <1> QED BY <1>3, <1>4 DEF Marks, Mark

LEMMA FourRaised ==
  ASSUME NEW a \in Scores, NEW b \in Scores, NEW c \in Scores, NEW d \in Scores,
         NEW e \in Scores, NEW f \in Scores, NEW g \in Scores, NEW h \in Scores,
         Raises(a, e), Raises(b, f), Raises(c, g), Raises(d, h)
  PROVE  Raises(WeightedAverage(<<<<a, 40>>, <<b, 25>>, <<c, 20>>, <<d, 15>>>>),
                WeightedAverage(<<<<e, 40>>, <<f, 25>>, <<g, 20>>, <<h, 15>>>>))
  <1> DEFINE few == <<<<a, 40>>, <<b, 25>>, <<c, 20>>, <<d, 15>>>>
             many == <<<<e, 40>>, <<f, 25>>, <<g, 20>>, <<h, 15>>>>
  <1>1. few \in Parts /\ many \in Parts
    <2>1. 40 \in Nat /\ 25 \in Nat /\ 20 \in Nat /\ 15 \in Nat
      OBVIOUS
    <2> QED BY <2>1, FourParts
  <1>2. Len(few) = Len(many) /\ DOMAIN few = 1..4
    OBVIOUS
  <1>3. \A i \in 1..4 : few[i][2] = many[i][2] /\ Raises(few[i][1], many[i][1])
    <2> SUFFICES ASSUME NEW i \in 1..4 PROVE few[i][2] = many[i][2] /\ Raises(few[i][1], many[i][1])
      OBVIOUS
    <2>1. i = 1 \/ i = 2 \/ i = 3 \/ i = 4
      OBVIOUS
    <2> QED BY <2>1
  <1> HIDE DEF few, many
  <1>4. Raises(WeightedAverage(few), WeightedAverage(many))
    BY <1>1, <1>2, <1>3, AverageMonotone
  <1> QED BY <1>4 DEF few, many

LEMMA RaisesSelf == ASSUME NEW x \in Scores PROVE Raises(x, x)
  BY DEF Raises, Scores, NA

\* What the rubrics read of the signals.
SignalsOK(sig) ==
  /\ sig.files \in Nat /\ sig.tests \in Nat /\ sig.rework \in Nat
  /\ sig.specific \in Scores /\ sig.testAfterApply \in Scores /\ sig.testAfterEdit \in Scores
  /\ sig.incremental.between \in Nat
  /\ sig.tested \in BOOLEAN

\* The signals of a session that ran the tests more.
MoreTested(sig, more) ==
  /\ sig.tests <= more.tests
  /\ Raises(sig.testAfterApply, more.testAfterApply)
  /\ Raises(sig.testAfterEdit, more.testAfterEdit)
  /\ sig.incremental.mean = more.incremental.mean
  /\ sig.incremental.between <= more.incremental.between
  /\ sig.tested => more.tested
  /\ sig.files = more.files /\ sig.debugger = more.debugger /\ sig.rework = more.rework
  /\ sig.specific = more.specific /\ sig.selfAuthored = more.selfAuthored
  /\ sig.reviewed = more.reviewed /\ sig.meanBurst = more.meanBurst
  /\ sig.applies = more.applies /\ sig.rejections = more.rejections
  /\ sig.chats = more.chats /\ sig.recoveries = more.recoveries

LEMMA HundredthsAre ==
  ASSUME NEW n \in Nat, n <= 100000, NEW m \in Nat
  PROVE  RoundDiv(n, 100) \in Mark /\ (n <= m => RoundDiv(n, 100) <= RoundDiv(m, 100))
  <1>1. n \in Nat /\ m \in Nat /\ 2 * n < (2 * 1000 + 1) * 100
    OBVIOUS
  <1>2. RoundDiv(n, 100) \in Nat /\ RoundDiv(n, 100) <= 1000
    BY <1>1, RoundDivType, RoundDivBelow
  <1> QED BY <1>1, <1>2, RoundDivMonotone DEF Mark

LEMMA EditSum ==
  ASSUME NEW x \in Mark, NEW y \in Mark, NEW z \in Mark
  PROVE  /\ x * 50 + 900 * 25 + z * 25 \in Nat /\ x * 50 + 900 * 25 + z * 25 <= 100000
         /\ x <= y => x * 50 + 900 * 25 + z * 25 <= y * 50 + 900 * 25 + z * 25
  BY DEF Mark

LEMMA VerificationMonotone ==
  ASSUME NEW side, NEW sig, NEW more, SignalsOK(sig), SignalsOK(more), MoreTested(sig, more)
  PROVE  /\ Verification(side, sig) \in Marks
         /\ Raises(Verification(side, sig), Verification(side, more))
  <1> DEFINE average(s) == WeightedAverage(<<<<TestAfterBand(s.testAfterApply, NA), 40>>,
                               <<ApplyThenEditBand(s.reviewed), 25>>,
                               <<SelfAuthoredBand(s.selfAuthored), 20>>,
                               <<IncrementalBand(s.incremental), 15>>>>)
             sum(s) == TestAfterBand(s.testAfterEdit, 500) * 50 + 900 * 25
                      + IncrementalEditBand(s.meanBurst) * 25
             weighted(s) == IF side = "vibe" THEN average(s) ELSE RoundDiv(sum(s), 100)
  <1>1. average(sig) \in Marks /\ average(more) \in Marks /\ Raises(average(sig), average(more))
    <2>1. /\ TestAfterBand(sig.testAfterApply, NA) \in Marks
          /\ TestAfterBand(more.testAfterApply, NA) \in Marks
          /\ Raises(TestAfterBand(sig.testAfterApply, NA), TestAfterBand(more.testAfterApply, NA))
      <3>1. NA \in Marks /\ Raises(more.testAfterApply, more.testAfterApply)
        BY RaisesSelf, MarksAreScores DEF SignalsOK
      <3> QED BY <3>1, TestAfterBandFacts DEF SignalsOK, MoreTested
    <2>2. /\ ApplyThenEditBand(sig.reviewed) \in Marks
          /\ SelfAuthoredBand(sig.selfAuthored) \in Marks
          /\ ApplyThenEditBand(sig.reviewed) = ApplyThenEditBand(more.reviewed)
          /\ SelfAuthoredBand(sig.selfAuthored) = SelfAuthoredBand(more.selfAuthored)
      BY OtherBands DEF MoreTested
    <2>3. /\ IncrementalBand(sig.incremental) \in Marks
          /\ IncrementalBand(more.incremental) \in Marks
          /\ Raises(IncrementalBand(sig.incremental), IncrementalBand(more.incremental))
      <3>1. more.incremental.between <= more.incremental.between
        BY DEF SignalsOK
      <3> QED BY <3>1, IncrementalBandFacts DEF SignalsOK, MoreTested
    <2>4. /\ Raises(ApplyThenEditBand(sig.reviewed), ApplyThenEditBand(more.reviewed))
          /\ Raises(SelfAuthoredBand(sig.selfAuthored), SelfAuthoredBand(more.selfAuthored))
      BY <2>2, RaisesSelf, MarksAreScores
    <2>5. 40 \in Nat /\ 25 \in Nat /\ 20 \in Nat /\ 15 \in Nat
      OBVIOUS
    <2>6. average(sig) \in Marks /\ average(more) \in Marks
      BY <2>1, <2>2, <2>3, <2>5, FourMarks, AverageMark
    <2>7. Raises(average(sig), average(more))
      <3>1. \A x \in Marks : x \in Scores
        BY MarksAreScores
      <3>2. /\ TestAfterBand(sig.testAfterApply, NA) \in Scores
            /\ TestAfterBand(more.testAfterApply, NA) \in Scores
            /\ ApplyThenEditBand(sig.reviewed) \in Scores
            /\ ApplyThenEditBand(more.reviewed) \in Scores
            /\ SelfAuthoredBand(sig.selfAuthored) \in Scores
            /\ SelfAuthoredBand(more.selfAuthored) \in Scores
            /\ IncrementalBand(sig.incremental) \in Scores
            /\ IncrementalBand(more.incremental) \in Scores
        BY <2>1, <2>2, <2>3, <3>1
      <3> QED BY <2>1, <2>3, <2>4, <3>2, FourRaised
    <2> QED BY <2>6, <2>7
  <1>2. /\ sum(sig) \in Nat /\ sum(sig) <= 100000 /\ sum(more) \in Nat /\ sum(more) <= 100000
        /\ sum(sig) <= sum(more)
    <2>1. /\ TestAfterBand(sig.testAfterEdit, 500) \in Marks
          /\ TestAfterBand(more.testAfterEdit, 500) \in Marks
          /\ Raises(TestAfterBand(sig.testAfterEdit, 500), TestAfterBand(more.testAfterEdit, 500))
      <3>1. 500 \in Marks /\ more.testAfterEdit \in Scores
        BY DEF SignalsOK, Marks, Mark
      <3> QED BY <3>1, RaisesSelf, TestAfterBandFacts DEF SignalsOK, MoreTested
    <2>2. TestAfterBand(sig.testAfterEdit, 500) \in Mark /\ TestAfterBand(more.testAfterEdit, 500) \in Mark
      BY TestAfterScored DEF SignalsOK
    <2>3. IncrementalEditBand(sig.meanBurst) \in Mark
          /\ IncrementalEditBand(sig.meanBurst) = IncrementalEditBand(more.meanBurst)
      BY OtherBands DEF MoreTested
    <2>4. TestAfterBand(sig.testAfterEdit, 500) <= TestAfterBand(more.testAfterEdit, 500)
      BY <2>1 DEF Raises
    <2> QED BY <2>2, <2>3, <2>4, EditSum
  <1>3. weighted(sig) \in Marks /\ weighted(more) \in Marks /\ Raises(weighted(sig), weighted(more))
    <2>1. CASE side = "vibe"
      BY <1>1, <2>1
    <2>2. CASE side # "vibe"
      <3>1. /\ RoundDiv(sum(sig), 100) \in Mark /\ RoundDiv(sum(more), 100) \in Mark
            /\ RoundDiv(sum(sig), 100) <= RoundDiv(sum(more), 100)
        <4> HIDE DEF sum
        <4>1. RoundDiv(sum(sig), 100) \in Mark /\ RoundDiv(sum(more), 100) \in Mark
          BY <1>2, HundredthsAre
        <4>2. RoundDiv(sum(sig), 100) <= RoundDiv(sum(more), 100)
          BY <1>2, HundredthsAre
        <4> QED BY <4>1, <4>2
      <3> QED BY <2>2, <3>1 DEF Marks, Mark, Raises, NA
    <2> QED BY <2>1, <2>2
  <1>4. /\ Verification(side, sig) =
             IF weighted(sig) = NA \/ sig.tested THEN weighted(sig) ELSE Least(weighted(sig), 600)
        /\ Verification(side, more) =
             IF weighted(more) = NA \/ more.tested THEN weighted(more) ELSE Least(weighted(more), 600)
    BY DEF Verification
  <1> HIDE DEF weighted
  <1>5. sig.tested => more.tested
    BY DEF MoreTested
  <1>6. /\ Verification(side, sig) \in Marks
        /\ (Verification(side, sig) = NA <=> weighted(sig) = NA)
        /\ (Verification(side, more) = NA <=> weighted(more) = NA)
    BY <1>3, <1>4 DEF Marks, Mark, Least, NA
  <1>7. Verification(side, sig) <= Verification(side, more)
    <2>1. weighted(sig) <= weighted(more) /\ (weighted(sig) = NA <=> weighted(more) = NA)
      BY <1>3 DEF Raises
    <2>2. weighted(sig) = NA \/ weighted(sig) \in Mark
      BY <1>3 DEF Marks
    <2>3. weighted(more) = NA \/ weighted(more) \in Mark
      BY <1>3 DEF Marks
    <2>4. CASE weighted(sig) = NA
      BY <1>4, <2>1, <2>4 DEF NA
    <2>5. CASE weighted(sig) # NA
      BY <1>4, <1>5, <2>1, <2>2, <2>3, <2>5 DEF Mark, Least
    <2> QED BY <2>4, <2>5
  <1> QED BY <1>3, <1>6, <1>7 DEF Raises

LEMMA JudgmentType ==
  ASSUME NEW sig, NEW detected, NEW class
  PROVE  AiJudgment(sig, detected, class) \in Marks
  <1> DEFINE engaged == sig.applies > 0 \/ sig.rejections > 0 \/ sig.chats > 0
             rejections == IF ~engaged \/ sig.rejections = 0 THEN NA
                           ELSE From(sig.rejections, <<<<3, 900>>, <<2, 700>>>>, 500)
             modified == IF sig.reviewed = NA THEN NA
                         ELSE From(sig.reviewed, <<<<500, 900>>, <<250, 700>>, <<100, 500>>, <<1, 400>>>>, 300)
             hand == IF detected = 0 THEN NA
                     ELSE CASE class = "hand-fixed" -> 900 [] class = "ai-fixed-reviewed" -> 500 [] OTHER -> 300
             recovery == IF sig.recoveries \in {NA, 0} THEN NA
                         ELSE Under(sig.recoveries, <<<<3, 900>>, <<6, 700>>>>, 400)
  <1>1. NA \in Marks /\ \A x \in Mark : x \in Marks
    BY DEF Marks
  <1>2. rejections \in Marks
    <2>1. <<<<3, 900>>, <<2, 700>>>> \in Steps /\ \A x \in {300, 400, 500} : x \in Mark
      BY DEF Steps, Mark
    <2> QED BY <1>1, <2>1, BandTypes
  <1>3. modified \in Marks
    <2>1. <<<<500, 900>>, <<250, 700>>, <<100, 500>>, <<1, 400>>>> \in Steps /\ \A x \in {300, 400, 500} : x \in Mark
      BY DEF Steps, Mark
    <2> QED BY <1>1, <2>1, BandTypes
  <1>4. hand \in Marks
    BY <1>1 DEF Mark
  <1>5. recovery \in Marks
    <2>1. <<<<3, 900>>, <<6, 700>>>> \in Steps /\ \A x \in {300, 400, 500} : x \in Mark
      BY DEF Steps, Mark
    <2> QED BY <1>1, <2>1, BandTypes
  <1>6. AiJudgment(sig, detected, class) =
          WeightedAverage(<<<<rejections, 30>>, <<modified, 30>>, <<hand, 25>>, <<recovery, 15>>>>)
    BY DEF AiJudgment
  <1> HIDE DEF rejections, modified, hand, recovery
  <1>7. 30 \in Nat /\ 25 \in Nat /\ 15 \in Nat
    OBVIOUS
  <1> QED BY <1>2, <1>3, <1>4, <1>5, <1>6, <1>7, FourMarks, AverageMark

LEMMA JudgmentSame ==
  ASSUME NEW sig, NEW more, NEW detected, NEW class, MoreTested(sig, more)
  PROVE  AiJudgment(sig, detected, class) = AiJudgment(more, detected, class)
  BY DEF AiJudgment, MoreTested

LEMMA DeveloperMonotone ==
  ASSUME NEW side, NEW sig, NEW more, SignalsOK(sig), SignalsOK(more), MoreTested(sig, more)
  PROVE  /\ DeveloperSignal(side, sig) \in Mark /\ DeveloperSignal(side, more) \in Mark
         /\ DeveloperSignal(side, sig) <= DeveloperSignal(side, more)
  <1> DEFINE files(s) == Least(s.files, 5)
             tests(s) == Least(s.tests, 3)
             debugger(s) == IF s.debugger THEN 15 ELSE 0
             spec(s) == IF s.specific = NA THEN 0 ELSE s.specific
             vibe(s) == 90 * files(s) + 6 * s.rework + 9 * spec(s) + 100 * tests(s) + 30 * debugger(s)
             non(s) == 15 * files(s) + 25 * tests(s) + 2 * debugger(s)
  <1>1. /\ files(sig) \in Nat /\ tests(sig) \in Nat /\ tests(more) \in Nat /\ debugger(sig) \in Nat
        /\ spec(sig) \in Nat /\ sig.rework \in Nat /\ tests(sig) <= tests(more)
    BY DEF SignalsOK, MoreTested, Least, Scores
  <1>2. files(more) = files(sig) /\ debugger(more) = debugger(sig) /\ spec(more) = spec(sig)
        /\ more.rework = sig.rework
    BY DEF MoreTested
  <1> HIDE DEF files, tests, debugger, spec
  <1>3. /\ vibe(sig) \in Nat /\ vibe(more) \in Nat /\ vibe(sig) <= vibe(more)
        /\ non(sig) \in Nat /\ non(more) \in Nat /\ non(sig) <= non(more)
    BY <1>1, <1>2
  <1>4. /\ DeveloperSignal(side, sig) = 10 * Least(IF side = "vibe" THEN RoundDiv(vibe(sig), 30) ELSE RoundDiv(non(sig), 2), 100)
        /\ DeveloperSignal(side, more) = 10 * Least(IF side = "vibe" THEN RoundDiv(vibe(more), 30) ELSE RoundDiv(non(more), 2), 100)
    BY DEF DeveloperSignal, files, tests, debugger, spec
  <1> HIDE DEF vibe, non
  <1>5. /\ RoundDiv(vibe(sig), 30) \in Nat /\ RoundDiv(vibe(more), 30) \in Nat
        /\ RoundDiv(vibe(sig), 30) <= RoundDiv(vibe(more), 30)
        /\ RoundDiv(non(sig), 2) \in Nat /\ RoundDiv(non(more), 2) \in Nat
        /\ RoundDiv(non(sig), 2) <= RoundDiv(non(more), 2)
    BY <1>3, RoundDivType, RoundDivMonotone
  <1> QED BY <1>4, <1>5 DEF Least, Mark

LEMMA ShareIsMark ==
  ASSUME NEW part \in Nat, NEW whole \in Nat, part <= whole
  PROVE  (IF whole = 0 THEN 0 ELSE RoundDiv(1000 * part, whole)) \in Mark
  <1>1. CASE whole = 0
    BY <1>1 DEF Mark
  <1>2. CASE whole # 0
    <2>1. 1000 * part \in Nat /\ 2 * (1000 * part) < (2 * 1000 + 1) * whole
      <3>1. 2001 * whole = 2000 * whole + whole
        OBVIOUS
      <3> QED BY <1>2, <3>1
    <2>2. RoundDiv(1000 * part, whole) \in Nat /\ RoundDiv(1000 * part, whole) <= 1000
      BY <1>2, <2>1, RoundDivType, RoundDivBelow
    <2> QED BY <1>2, <2>2 DEF Mark
  <1> QED BY <1>1, <1>2

LEMMA ChallengeType ==
  ASSUME NEW parts \in Seq(Mark)
  PROVE  ChallengeScore(parts) \in Mark
  <1>1. CASE parts = << >>
    BY <1>1 DEF ChallengeScore, Fallback, Mark
  <1>2. CASE parts # << >>
    <2>1. Len(parts) \in Nat /\ Len(parts) # 0 /\ DOMAIN parts = 1..Len(parts)
      BY <1>2
    <2>2. \A i \in DOMAIN parts : parts[i] \in Nat /\ parts[i] <= 1000
      <3>1. \A i \in DOMAIN parts : parts[i] \in Mark
        BY Elements
      <3> QED BY <3>1 DEF Mark
    <2>3. parts \in Seq(Nat) /\ parts \in Seq(Int)
      BY MarksAreScores, NaturalsSeq, WiderSeq
    <2>4. SumOf(parts) \in Nat
      BY <2>3, SumOfNaturals
    <2>5. SumOf(parts) <= 1000 * Len(parts)
      <3>1. 1000 \in Int
        OBVIOUS
      <3> QED BY <2>2, <2>3, <3>1, SumOfAtMost
    <2>6. 2 * SumOf(parts) < (2 * 1000 + 1) * Len(parts)
      BY <2>1, <2>4, <2>5
    <2>7. RoundDiv(SumOf(parts), Len(parts)) \in Nat /\ RoundDiv(SumOf(parts), Len(parts)) <= 1000
      <3>1. SumOf(parts) \in Int /\ SumOf(parts) >= 0 /\ Len(parts) \in Nat \ {0} /\ 1000 \in Int
        BY <2>1, <2>4
      <3>2. RoundDiv(SumOf(parts), Len(parts)) <= 1000
        BY <2>6, <3>1, RoundDivBelow
      <3>3. RoundDiv(SumOf(parts), Len(parts)) \in Nat
        BY <3>1, RoundDivType
      <3> QED BY <3>2, <3>3
    <2> QED BY <1>2, <2>7 DEF ChallengeScore, Mark
  <1> QED BY <1>1, <1>2

LEMMA BoostType ==
  ASSUME NEW arch \in Mark, NEW b
  PROVE  Boosted(arch, b) \in Mark
  <1>1. ProductBoost(b) \in Nat
    <2>1. \A x \in {0, 50}, y \in {0, 25}, z \in {0, 25} : Least(100, x + y + z) \in Nat
      BY DEF Least
    <2> QED BY <2>1 DEF ProductBoost
  <1>2. arch \in Nat /\ arch # NA
    BY DEF Mark, NA
  <1> QED BY <1>1, <1>2 DEF Boosted, Least, Mark

----------------------------------------------------------------------------
(* The total: rubrics floored, rubrics raised. *)

Vibe == "vibe"
Tracks == {"vibe", "non_ai"}
Scorable(dims) == \A d \in Dimensions : dims[d] \in Marks
PointOf(x) == IF x = NA THEN NA ELSE RoundDiv(x, 10)
PartsOf(side, dims) ==
  [i \in DOMAIN Rubrics |-> <<PointOf(dims[Rubrics[i]]), Weights(side)[Rubrics[i]]>>]

LEMMA RubricsAre ==
  /\ DOMAIN Rubrics = 1..9 /\ Rubrics \in Seq(Dimensions)
  /\ \A i \in 1..9 : Rubrics[i] \in Dimensions
  /\ Dimensions = {"tests", "traps", "code_quality", "architectural_reasoning", "challenge_specific",
                   "verification_discipline", "ai_judgment", "llm_communication", "developer_signal"}
  /\ NonObjective = {"code_quality", "architectural_reasoning", "challenge_specific",
                   "verification_discipline", "ai_judgment", "llm_communication", "developer_signal"}
  <1>1. DOMAIN Rubrics = 1..9
    BY DEF Rubrics
  <1>2. Dimensions = {Rubrics[i] : i \in 1..9}
    BY <1>1 DEF Dimensions, ToSet
  <1>3. \A i \in 1..9 : i = 1 \/ i = 2 \/ i = 3 \/ i = 4 \/ i = 5 \/ i = 6 \/ i = 7 \/ i = 8 \/ i = 9
    OBVIOUS
  <1>4. Dimensions = {Rubrics[1], Rubrics[2], Rubrics[3], Rubrics[4], Rubrics[5], Rubrics[6],
                      Rubrics[7], Rubrics[8], Rubrics[9]}
    BY <1>2, <1>3
  <1>5. Dimensions = {"tests", "traps", "code_quality", "architectural_reasoning", "challenge_specific",
                   "verification_discipline", "ai_judgment", "llm_communication", "developer_signal"}
    BY <1>4 DEF Rubrics
  <1>6. NonObjective = {"code_quality", "architectural_reasoning", "challenge_specific",
                   "verification_discipline", "ai_judgment", "llm_communication", "developer_signal"}
    BY <1>5 DEF NonObjective
  <1>7. \A i \in 1..9 : Rubrics[i] \in Dimensions
    BY <1>2
  <1>8. Rubrics \in Seq(Dimensions)
    <2>1. Rubrics = [i \in 1..9 |-> Rubrics[i]]
      BY DEF Rubrics
    <2> QED BY <1>7, <2>1
  <1> QED BY <1>1, <1>5, <1>6, <1>7, <1>8

LEMMA WeightsAre == ASSUME NEW side PROVE \A d \in Dimensions : Weights(side)[d] \in Nat
  <1> SUFFICES ASSUME NEW d \in Dimensions PROVE Weights(side)[d] \in Nat
    OBVIOUS
  <1> QED BY RubricsAre DEF Weights

LEMMA PointType ==
  ASSUME NEW x \in Scores
  PROVE  /\ PointOf(x) \in Scores /\ (PointOf(x) = NA <=> x = NA)
         /\ x <= 50 => PointOf(x) <= 5
         /\ x <= 1000 => PointOf(x) <= 100
         /\ \A y \in Scores : Raises(x, y) => Raises(PointOf(x), PointOf(y))
  <1>1. CASE x = NA
    <2>1. \A y \in Scores : Raises(x, y) => y = NA
      BY <1>1 DEF Raises
    <2> QED BY <1>1, <2>1 DEF PointOf, Raises, Scores, NA
  <1>2. CASE x # NA
    <2>1. x \in Nat
      BY <1>2 DEF Scores
    <2>2. RoundDiv(x, 10) \in Nat
      BY <2>1, RoundDivType
    <2>3. ASSUME x <= 50 PROVE RoundDiv(x, 10) <= 5
      <3>1. 2 * x < (2 * 5 + 1) * 10
        BY <2>1, <2>3
      <3> QED BY <2>1, <3>1, RoundDivBelow
    <2>4. ASSUME x <= 1000 PROVE RoundDiv(x, 10) <= 100
      <3>1. 2 * x < (2 * 100 + 1) * 10
        BY <2>1, <2>4
      <3> QED BY <2>1, <3>1, RoundDivBelow
    <2>5. ASSUME NEW y \in Scores, Raises(x, y)
          PROVE  Raises(PointOf(x), PointOf(y))
      <3>1. y \in Nat /\ x <= y /\ y # NA
        BY <1>2, <2>5 DEF Raises, Scores
      <3>2. RoundDiv(x, 10) <= RoundDiv(y, 10) /\ RoundDiv(y, 10) \in Nat
        BY <2>1, <3>1, RoundDivMonotone, RoundDivType
      <3> QED BY <1>2, <2>2, <3>1, <3>2 DEF PointOf, Raises, NA
    <2> QED BY <1>2, <2>2, <2>3, <2>4, <2>5 DEF PointOf, Scores, NA
  <1> QED BY <1>1, <1>2

LEMMA ScorableIs ==
  ASSUME NEW dims, Scorable(dims)
  PROVE  \A d \in Dimensions : dims[d] \in Scores /\ dims[d] <= 1000
  <1>1. \A x \in Marks : x \in Scores /\ x <= 1000
    BY DEF Marks, Mark, Scores, NA
  <1> QED BY <1>1 DEF Scorable

LEMMA PartsOfType ==
  ASSUME NEW side, NEW dims, Scorable(dims)
  PROVE  /\ PartsOf(side, dims) \in Parts /\ Len(PartsOf(side, dims)) = 9
         /\ DOMAIN PartsOf(side, dims) = 1..9
         /\ \A i \in 1..9 : /\ PartsOf(side, dims)[i][1] = PointOf(dims[Rubrics[i]])
                            /\ PartsOf(side, dims)[i][2] = Weights(side)[Rubrics[i]]
  <1> DEFINE parts == PartsOf(side, dims)
  <1>1. /\ DOMAIN parts = 1..9
        /\ \A i \in 1..9 : parts[i] = <<PointOf(dims[Rubrics[i]]), Weights(side)[Rubrics[i]]>>
    BY RubricsAre DEF PartsOf
  <1>2. \A i \in 1..9 : parts[i] \in Scores \X Nat
    <2> SUFFICES ASSUME NEW i \in 1..9 PROVE parts[i] \in Scores \X Nat
      OBVIOUS
    <2>1. Rubrics[i] \in Dimensions
      BY RubricsAre
    <2>2. dims[Rubrics[i]] \in Scores
      BY <2>1, ScorableIs
    <2>3. PointOf(dims[Rubrics[i]]) \in Scores
      BY <2>2, PointType
    <2>4. Weights(side)[Rubrics[i]] \in Nat
      BY <2>1, WeightsAre
    <2> QED BY <1>1, <2>3, <2>4
  <1>3. parts = [i \in 1..9 |-> parts[i]]
    BY <1>1 DEF PartsOf
  <1> HIDE DEF parts
  <1>4. parts \in Seq(Scores \X Nat) /\ Len(parts) = 9
    BY <1>2, <1>3
  <1> QED BY <1>1, <1>4 DEF Parts, parts

LEMMA TotalIs ==
  ASSUME NEW side, NEW dims, Scorable(dims)
  PROVE  /\ Total(side, dims) = IF WeightedAverage(PartsOf(side, dims)) = NA THEN 0
                                ELSE WeightedAverage(PartsOf(side, dims))
         /\ Total(side, dims) \in Nat
  <1>1. Total(side, dims) = IF WeightedAverage(PartsOf(side, dims)) = NA THEN 0
                            ELSE WeightedAverage(PartsOf(side, dims))
    BY DEF Total, PartsOf, PointOf
  <1>2. WeightedAverage(PartsOf(side, dims)) \in Scores
    BY PartsOfType, AverageType
  <1> QED BY <1>1, <1>2 DEF Scores

\* A total is in no rubric's favour: when every rubric is low, so is it.
LEMMA TotalBounded ==
  ASSUME NEW side, NEW dims, Scorable(dims), NEW c \in Nat,
         \A d \in Dimensions : PointOf(dims[d]) <= c
  PROVE  Total(side, dims) <= c
  <1>1. /\ PartsOf(side, dims) \in Parts
        /\ \A i \in DOMAIN PartsOf(side, dims) : PartsOf(side, dims)[i][1] <= c
    <2>1. \A i \in 1..9 : PointOf(dims[Rubrics[i]]) <= c
      BY RubricsAre
    <2> QED BY <2>1, PartsOfType
  <1>2. WeightedAverage(PartsOf(side, dims)) <= c
    BY <1>1, AverageBounded
  <1> QED BY <1>2, TotalIs

LEMMA TotalMonotone ==
  ASSUME NEW side, NEW dims, NEW more, Scorable(dims), Scorable(more),
         \A d \in Dimensions : Raises(dims[d], more[d])
  PROVE  Total(side, dims) <= Total(side, more)
  <1> DEFINE parts == PartsOf(side, dims)
             raised == PartsOf(side, more)
  <1>1. /\ parts \in Parts /\ raised \in Parts /\ Len(parts) = Len(raised) /\ DOMAIN parts = 1..9
    BY PartsOfType
  <1>2. \A i \in 1..9 : parts[i][2] = raised[i][2] /\ Raises(parts[i][1], raised[i][1])
    <2> SUFFICES ASSUME NEW i \in 1..9
                 PROVE  parts[i][2] = raised[i][2] /\ Raises(parts[i][1], raised[i][1])
      OBVIOUS
    <2>1. /\ parts[i][1] = PointOf(dims[Rubrics[i]]) /\ raised[i][1] = PointOf(more[Rubrics[i]])
          /\ parts[i][2] = raised[i][2]
      BY PartsOfType
    <2>2. /\ dims[Rubrics[i]] \in Scores /\ more[Rubrics[i]] \in Scores
          /\ Raises(dims[Rubrics[i]], more[Rubrics[i]])
      BY RubricsAre, ScorableIs
    <2>3. Raises(PointOf(dims[Rubrics[i]]), PointOf(more[Rubrics[i]]))
      BY <2>2, PointType
    <2> QED BY <2>1, <2>3
  <1>3. WeightedAverage(parts) \in Scores /\ WeightedAverage(raised) \in Scores
    BY <1>1, AverageType
  <1>4. Raises(WeightedAverage(parts), WeightedAverage(raised))
    <2> HIDE DEF parts, raised
    <2> QED BY <1>1, <1>2, AverageMonotone
  <1> QED BY <1>3, <1>4, TotalIs DEF Raises, Scores

\* Sums and averages of the nine rubrics.
LEMMA NineParts ==
  ASSUME NEW parts \in Parts, DOMAIN parts = 1..9, NEW w, NEW p,
         w = WeightsOf(parts), p = PointsOf(parts)
  PROVE  /\ SumOf(w) \in Nat /\ SumOf(p) \in Nat
         /\ \A i \in 1..9 : /\ parts[i][1] \in Scores /\ parts[i][2] \in Nat
                            /\ w[i] = IF parts[i][1] = NA THEN 0 ELSE parts[i][2]
                            /\ w[i] \in Nat /\ p[i] \in Nat
                            /\ \A c \in Nat : parts[i][1] <= c => p[i] <= c * w[i]
         /\ SumOf(w) = w[1] + w[2] + w[3] + w[4] + w[5] + w[6] + w[7] + w[8] + w[9]
         /\ SumOf(p) = p[1] + p[2] + p[3] + p[4] + p[5] + p[6] + p[7] + p[8] + p[9]
         /\ WeightedAverage(parts) = IF SumOf(w) = 0 THEN NA ELSE RoundDiv(SumOf(p), SumOf(w))
  <1>1. Len(parts) = 9
    BY DEF Parts
  <1>2. /\ w \in Seq(Nat) /\ p \in Seq(Nat) /\ Len(w) = 9 /\ Len(p) = 9
        /\ DOMAIN w = 1..9 /\ DOMAIN p = 1..9
        /\ SumOf(w) \in Nat /\ SumOf(p) \in Nat
    BY <1>1, PartsAdd
  <1>3. w \in Seq(Int) /\ p \in Seq(Int)
    BY <1>2, NaturalsSeq
  <1>4. \A i \in 1..9 : w[i] \in Nat /\ p[i] \in Nat
    BY <1>2, Elements
  <1>5. \A i \in 1..9 :
                       /\ parts[i][1] \in Scores /\ parts[i][2] \in Nat
                       /\ w[i] = IF parts[i][1] = NA THEN 0 ELSE parts[i][2]
                       /\ \A c \in Nat : parts[i][1] <= c => p[i] <= c * w[i]
    BY PartsAdd, PartBounded
  <1>6. /\ SumOf(w) = w[1] + w[2] + w[3] + w[4] + w[5] + w[6] + w[7] + w[8] + w[9]
        /\ SumOf(p) = p[1] + p[2] + p[3] + p[4] + p[5] + p[6] + p[7] + p[8] + p[9]
    BY <1>2, <1>3, SumOfNine
  <1> QED BY <1>2, <1>4, <1>5, <1>6, AverageIs

\* Who did not take part: the tests and the traps alone do not carry a grade.
LEMMA TotalCarried ==
  ASSUME NEW side \in Tracks, NEW dims, Scorable(dims),
         \A d \in NonObjective : dims[d] <= 50,
         \A d \in {"code_quality", "architectural_reasoning", "challenge_specific",
                   "developer_signal"} : dims[d] # NA
  PROVE  Total(side, dims) <= 49
  <1> DEFINE parts == PartsOf(side, dims)
  <1>1. /\ parts \in Parts /\ DOMAIN parts = 1..9
        /\ \A i \in 1..9 : /\ parts[i][1] = PointOf(dims[Rubrics[i]])
                           /\ parts[i][2] = Weights(side)[Rubrics[i]]
    BY PartsOfType
  <1>2. PICK w, p : w = WeightsOf(parts) /\ p = PointsOf(parts)
    OBVIOUS
  <1> HIDE DEF parts
  <1>3. /\ SumOf(w) = w[1] + w[2] + w[3] + w[4] + w[5] + w[6] + w[7] + w[8] + w[9]
        /\ SumOf(p) = p[1] + p[2] + p[3] + p[4] + p[5] + p[6] + p[7] + p[8] + p[9]
        /\ SumOf(w) \in Nat /\ SumOf(p) \in Nat
    BY <1>1, <1>2, NineParts
  <1>4. WeightedAverage(parts) = IF SumOf(w) = 0 THEN NA ELSE RoundDiv(SumOf(p), SumOf(w))
    BY <1>1, <1>2, NineParts
  <1>5. \A i \in 1..9 :
                       /\ parts[i][1] \in Scores
                       /\ w[i] \in Nat /\ p[i] \in Nat /\ w[i] <= Weights(side)[Rubrics[i]]
                       /\ w[i] = IF parts[i][1] = NA THEN 0 ELSE Weights(side)[Rubrics[i]]
                       /\ \A c \in Nat : parts[i][1] <= c => p[i] <= c * w[i]
    <2> SUFFICES ASSUME NEW i \in 1..9
                 PROVE
                       /\ parts[i][1] \in Scores
                       /\ w[i] \in Nat /\ p[i] \in Nat /\ w[i] <= Weights(side)[Rubrics[i]]
                       /\ w[i] = IF parts[i][1] = NA THEN 0 ELSE Weights(side)[Rubrics[i]]
                       /\ \A c \in Nat : parts[i][1] <= c => p[i] <= c * w[i]
      OBVIOUS
    <2>1. /\ parts[i][1] \in Scores /\ parts[i][2] \in Nat
          /\ w[i] = IF parts[i][1] = NA THEN 0 ELSE parts[i][2]
          /\ w[i] \in Nat /\ p[i] \in Nat
          /\ \A c \in Nat : parts[i][1] <= c => p[i] <= c * w[i]
      BY <1>1, <1>2, NineParts
    <2>2. parts[i][2] = Weights(side)[Rubrics[i]]
      BY <1>1
    <2> QED BY <2>1, <2>2
  <1>6. \A i \in 1..2 : p[i] <= 100 * w[i]
    <2> SUFFICES ASSUME NEW i \in 1..2 PROVE p[i] <= 100 * w[i]
      OBVIOUS
    <2>1. i \in 1..9 /\ Rubrics[i] \in {"tests", "traps"}
      BY DEF Rubrics
    <2>2. dims[Rubrics[i]] \in Scores /\ dims[Rubrics[i]] <= 1000
      BY <2>1, RubricsAre, ScorableIs
    <2>3. parts[i][1] <= 100
      BY <1>1, <2>1, <2>2, PointType
    <2> QED BY <1>5, <2>1, <2>3
  <1>7. \A i \in 3..9 : p[i] <= 5 * w[i]
    <2> SUFFICES ASSUME NEW i \in 3..9 PROVE p[i] <= 5 * w[i]
      OBVIOUS
    <2>1. i \in 1..9 /\ Rubrics[i] \in NonObjective
      <3>1. i = 3 \/ i = 4 \/ i = 5 \/ i = 6 \/ i = 7 \/ i = 8 \/ i = 9
        OBVIOUS
      <3> QED BY <3>1, RubricsAre DEF Rubrics
    <2>2. dims[Rubrics[i]] \in Scores /\ dims[Rubrics[i]] <= 50
      BY <2>1, RubricsAre, ScorableIs
    <2>3. parts[i][1] <= 5
      BY <1>1, <2>1, <2>2, PointType
    <2> QED BY <1>5, <2>1, <2>3
  <1>8. \A i \in {3, 4, 5, 9} : w[i] = Weights(side)[Rubrics[i]]
    <2> SUFFICES ASSUME NEW i \in {3, 4, 5, 9} PROVE w[i] = Weights(side)[Rubrics[i]]
      OBVIOUS
    <2>1. i \in 1..9 /\ dims[Rubrics[i]] # NA
      BY DEF Rubrics
    <2>2. dims[Rubrics[i]] \in Scores
      BY <2>1, RubricsAre, ScorableIs
    <2> QED BY <1>1, <1>5, <2>1, <2>2, PointType
  <1>9. /\ w[1] + w[2] <= 36
        /\ side # Vibe => w[3] + w[4] + w[5] + w[9] = 50
        /\ side = Vibe => w[1] + w[2] <= 29 /\ w[3] + w[4] + w[5] + w[9] = 37
    <2>1. /\ Rubrics[1] = "tests" /\ Rubrics[2] = "traps" /\ Rubrics[3] = "code_quality"
          /\ Rubrics[4] = "architectural_reasoning" /\ Rubrics[5] = "challenge_specific"
          /\ Rubrics[9] = "developer_signal"
      BY DEF Rubrics
    <2>2. /\ w[1] \in Nat /\ w[2] \in Nat
          /\ w[1] <= Weights(side)["tests"] /\ w[2] <= Weights(side)["traps"]
          /\ w[3] = Weights(side)["code_quality"] /\ w[4] = Weights(side)["architectural_reasoning"]
          /\ w[5] = Weights(side)["challenge_specific"] /\ w[9] = Weights(side)["developer_signal"]
      BY <1>5, <1>8, <2>1
    <2>3. CASE side = "vibe"
      BY <2>2, <2>3 DEF Weights, Vibe
    <2>4. CASE side # "vibe"
      BY <2>2, <2>4 DEF Weights, Vibe
    <2> QED BY <2>3, <2>4
  <1>10. SumOf(w) > 0 /\ 2 * SumOf(p) < (2 * 49 + 1) * SumOf(w)
    <2>1. /\ w[1] \in Nat /\ w[2] \in Nat /\ w[3] \in Nat /\ w[4] \in Nat /\ w[5] \in Nat
          /\ w[6] \in Nat /\ w[7] \in Nat /\ w[8] \in Nat /\ w[9] \in Nat
          /\ p[1] \in Int /\ p[2] \in Int /\ p[3] \in Int /\ p[4] \in Int /\ p[5] \in Int
          /\ p[6] \in Int /\ p[7] \in Int /\ p[8] \in Int /\ p[9] \in Int
      BY <1>5
    <2>2. /\ p[1] <= 100 * w[1] /\ p[2] <= 100 * w[2]
          /\ p[3] <= 5 * w[3] /\ p[4] <= 5 * w[4] /\ p[5] <= 5 * w[5] /\ p[6] <= 5 * w[6]
          /\ p[7] <= 5 * w[7] /\ p[8] <= 5 * w[8] /\ p[9] <= 5 * w[9]
      BY <1>6, <1>7
    <2> QED BY <1>3, <1>9, <2>1, <2>2
  <1>11. RoundDiv(SumOf(p), SumOf(w)) <= 49
    BY <1>3, <1>10, RoundDivBelow
  <1> QED BY <1>4, <1>10, <1>11, TotalIs DEF parts

LEMMA FlooredType ==
  ASSUME NEW dims, Scorable(dims), NEW keys
  PROVE  /\ Scorable(FloorDims(dims, keys))
         /\ \A d \in Dimensions :
              /\ FloorDims(dims, keys)[d] = IF d \in keys THEN Least(dims[d], NearZero) ELSE dims[d]
              /\ FloorDims(dims, keys)[d] = NA <=> dims[d] = NA
              /\ d \in keys => FloorDims(dims, keys)[d] <= 50
              /\ dims[d] <= 50 => FloorDims(dims, keys)[d] <= 50
  <1> SUFFICES ASSUME NEW d \in Dimensions
               PROVE  /\ FloorDims(dims, keys)[d] \in Marks
                      /\ FloorDims(dims, keys)[d] = IF d \in keys THEN Least(dims[d], NearZero) ELSE dims[d]
                      /\ FloorDims(dims, keys)[d] = NA <=> dims[d] = NA
                      /\ d \in keys => FloorDims(dims, keys)[d] <= 50
                      /\ dims[d] <= 50 => FloorDims(dims, keys)[d] <= 50
    BY DEF Scorable
  <1>1. FloorDims(dims, keys)[d] = IF d \in keys THEN Least(dims[d], NearZero) ELSE dims[d]
    BY DEF FloorDims
  <1>2. dims[d] = NA \/ dims[d] \in Mark
    BY DEF Scorable, Marks
  <1>3. CASE dims[d] = NA
    BY <1>1, <1>3 DEF Least, NearZero, NA, Marks
  <1>4. CASE dims[d] \in Mark
    BY <1>1, <1>4 DEF Least, NearZero, NA, Marks, Mark
  <1> QED BY <1>1, <1>2, <1>3, <1>4

LEMMA FlooredRaised ==
  ASSUME NEW dims, NEW more, Scorable(dims), Scorable(more),
         \A d \in Dimensions : Raises(dims[d], more[d]), NEW keys
  PROVE  \A d \in Dimensions : Raises(FloorDims(dims, keys)[d], FloorDims(more, keys)[d])
  <1> SUFFICES ASSUME NEW d \in Dimensions
               PROVE  Raises(FloorDims(dims, keys)[d], FloorDims(more, keys)[d])
    OBVIOUS
  <1>1. /\ dims[d] \in Scores /\ more[d] \in Scores /\ Raises(dims[d], more[d])
    BY ScorableIs
  <1>2. /\ FloorDims(dims, keys)[d] = IF d \in keys THEN Least(dims[d], NearZero) ELSE dims[d]
        /\ FloorDims(more, keys)[d] = IF d \in keys THEN Least(more[d], NearZero) ELSE more[d]
    BY FlooredType
  <1>3. Raises(Least(dims[d], NearZero), Least(more[d], NearZero))
    BY <1>1 DEF Raises, Least, NearZero, NA, Scores
  <1> QED BY <1>1, <1>2, <1>3

LEMMA BandIs ==
  ASSUME NEW total \in Nat
  PROVE  total <= 49 => BandOf(total) \in {"weak", "reject"}
  <1> DEFINE steps == <<<<90, "outstanding">>, <<70, "good">>, <<50, "acceptable">>, <<30, "weak">>>>
             hit == {i \in DOMAIN steps : total >= steps[i][1]}
  <1> SUFFICES ASSUME total <= 49 PROVE BandOf(total) \in {"weak", "reject"}
    OBVIOUS
  <1>1. BandOf(total) = IF hit = {} THEN "reject" ELSE steps[Min(hit)][2]
    BY DEF BandOf, From, FirstStep
  <1>2. DOMAIN steps = 1..4 /\ \A i \in 1..4 : i = 1 \/ i = 2 \/ i = 3 \/ i = 4
    OBVIOUS
  <1>3. hit \subseteq {4}
    BY <1>2
  <1>4. steps[4][2] = "weak"
    OBVIOUS
  <1> HIDE DEF steps, hit
  <1>5. hit # {} => Min(hit) = 4
    <2>1. ASSUME hit # {} PROVE Min(hit) \in hit
      <3>1. hit \subseteq 0..4 /\ 4 \in Nat
        BY <1>3
      <3> QED BY <2>1, <3>1, SmallestOf
    <2> QED BY <1>3, <2>1
  <1> QED BY <1>1, <1>4, <1>5

----------------------------------------------------------------------------
(* The signals: what is counted is finite, and each signal is a number or NA. *)

EventTypes == {"open", "typed", "pasted", "applied", "rejected", "test", "debug"}
Events == [ts : Nat, kind : EventTypes, file : {"code"}, chars : Nat, block : Nat, of : Nat]
Rows == Seq(Events)

LEMMA RowsAre ==
  ASSUME NEW rows \in Rows
  PROVE  /\ Len(rows) \in Nat /\ DOMAIN rows = 1..Len(rows)
         /\ \A i \in DOMAIN rows : rows[i] \in Events /\ rows[i].ts \in Nat /\ rows[i].chars \in Nat
  <1>1. Len(rows) \in Nat /\ DOMAIN rows = 1..Len(rows)
    BY DEF Rows
  <1>2. \A i \in DOMAIN rows : rows[i] \in Events
    BY Elements DEF Rows
  <1>3. \A e \in Events : e.ts \in Nat /\ e.chars \in Nat
    BY DEF Events
  <1> QED BY <1>1, <1>2, <1>3

\* Places are finitely many.
LEMMA PlacesCount ==
  ASSUME NEW rows \in Rows, NEW S, S \subseteq DOMAIN rows
  PROVE  IsFiniteSet(S) /\ Cardinality(S) \in Nat /\ (Cardinality(S) = 0 <=> S = {})
  <1>1. IsFiniteSet(1..Len(rows))
    <2>1. 1 \in Int /\ Len(rows) \in Int
      BY RowsAre
    <2> QED BY <2>1, FS_Interval
  <1>2. S \in SUBSET (1..Len(rows))
    BY RowsAre
  <1>3. IsFiniteSet(S)
    BY <1>1, <1>2, FS_Subset
  <1> QED BY <1>3, FS_CardinalityType, FS_EmptySet

\* So is what is found at them.
LEMMA FoundCount ==
  ASSUME NEW rows \in Rows, NEW S, S \subseteq DOMAIN rows, NEW f, DOMAIN f = S
  PROVE  Cardinality({f[i] : i \in S}) \in Nat
  <1> DEFINE T == {f[i] : i \in S}
             g == [i \in S |-> f[i]]
  <1>1. g \in Surjection(S, T)
    BY DEF Surjection
  <1>2. IsFiniteSet(S)
    BY PlacesCount
  <1>3. IsFiniteSet(T)
    <2> HIDE DEF T, g
    <2> QED BY <1>1, <1>2, FS_Surjection
  <1> QED BY <1>3, FS_CardinalityType

LEMMA CharsAtType == ASSUME NEW rows \in Rows, NEW S PROVE CharsAt(rows, S) \in Nat
  <1> DEFINE s == [i \in DOMAIN rows |-> IF i \in S THEN rows[i].chars ELSE 0]
  <1>1. s \in Seq(Nat)
    <2>1. s \in [1..Len(rows) -> Nat]
      BY RowsAre
    <2>2. Len(rows) \in Nat
      BY RowsAre
    <2> HIDE DEF s
    <2> QED BY <2>1, <2>2
  <1>2. SumOf(s) \in Nat
    <2> HIDE DEF s
    <2> QED BY <1>1, SumOfNaturals
  <1> QED BY <1>2 DEF CharsAt

LEMMA SignalsType ==
  ASSUME NEW rows \in Rows, NEW s, s.typed \in Nat, s.applied \in Nat, s.chats \in Nat,
         s.specificChats \in Nat
  PROVE  SignalsOK(Signals(rows, s))
  <1> DEFINE sig == Signals(rows, s)
  <1>1. \A kinds : /\ Places(rows, kinds) \subseteq DOMAIN rows
                   /\ IsFiniteSet(Places(rows, kinds)) /\ Cardinality(Places(rows, kinds)) \in Nat
    <2> SUFFICES ASSUME NEW kinds
                 PROVE  /\ Places(rows, kinds) \subseteq DOMAIN rows
                        /\ IsFiniteSet(Places(rows, kinds)) /\ Cardinality(Places(rows, kinds)) \in Nat
      OBVIOUS
    <2>1. Places(rows, kinds) \subseteq DOMAIN rows
      BY DEF Places
    <2> QED BY <2>1, PlacesCount
  <1>2. sig.files \in Nat
    <2> DEFINE S == Places(rows, {"open"})
               f == [i \in S |-> rows[i].file]
    <2>1. sig.files = Cardinality({f[i] : i \in S})
      BY DEF Signals
    <2>2. S \subseteq DOMAIN rows /\ DOMAIN f = S
      BY <1>1
    <2> HIDE DEF S, f, sig
    <2> QED BY <2>1, <2>2, FoundCount
  <1>3. sig.tests \in Nat
    BY <1>1 DEF Signals
  <1>4. sig.rework \in Nat
    <2>1. sig.rework = ReworkRatio(rows)
      BY DEF Signals
    <2>2. Chars(rows, "applied") \in Nat
      BY CharsAtType DEF Chars
    <2>3. \A S : CharsAt(rows, S) \in Nat
      BY CharsAtType
    <2>4. \A S : Chars(rows, "applied") # 0 =>
                   RoundDiv(100 * CharsAt(rows, S), Chars(rows, "applied")) \in Nat
      BY <2>2, <2>3, RoundDivType
    <2>5. \A n \in Nat : Least(100, n) \in Nat
      BY DEF Least
    <2> QED BY <2>1, <2>4, <2>5 DEF ReworkRatio
  <1>5. sig.specific \in Scores
    <2>1. sig.specific = IF s.chats = 0 THEN NA ELSE RoundDiv(100 * s.specificChats, s.chats)
      BY DEF Signals
    <2>2. s.chats # 0 => RoundDiv(100 * s.specificChats, s.chats) \in Nat
      BY RoundDivType
    <2> QED BY <2>1, <2>2 DEF Scores
  <1>6. \A S \in SUBSET DOMAIN rows : \A w : Ratio(Cardinality(Covered(rows, S, w)), Cardinality(S)) \in Scores
    <2> SUFFICES ASSUME NEW S \in SUBSET DOMAIN rows, NEW w
                 PROVE  Ratio(Cardinality(Covered(rows, S, w)), Cardinality(S)) \in Scores
      OBVIOUS
    <2>1. Covered(rows, S, w) \subseteq DOMAIN rows
      BY DEF Covered
    <2>2. Cardinality(Covered(rows, S, w)) \in Nat /\ Cardinality(S) \in Nat
      BY <2>1, PlacesCount
    <2> QED BY <2>2, RatioType
  <1>7. sig.testAfterApply \in Scores
    <2>1. sig.testAfterApply = TestAfterApply(rows)
      BY DEF Signals
    <2> QED BY <1>1, <1>6, <2>1 DEF TestAfterApply
  <1>8. sig.testAfterEdit \in Scores
    <2>1. sig.testAfterEdit = TestAfterEdit(rows)
      BY DEF Signals
    <2>2. Bursts(rows) \in SUBSET DOMAIN rows
      BY <1>1 DEF Bursts
    <2> QED BY <1>6, <2>1, <2>2 DEF TestAfterEdit
  <1>9. sig.incremental.between \in Nat
    <2> DEFINE applies == Places(rows, {"applied"})
               Neighbours(i, j) == i < j /\ \A k \in applies : k <= i \/ j <= k
               between == {i \in applies : \E j \in applies : Neighbours(i, j) /\ TestedApart(rows, i, j)}
    <2>1. sig.incremental.between =
            IF applies = {} THEN 0
            ELSE IF Cardinality(applies) = 1 THEN 0 ELSE Ratio(Cardinality(between), Cardinality(applies) - 1)
      BY DEF Signals, IncrementalApply
    <2>2. between \subseteq DOMAIN rows /\ applies \subseteq DOMAIN rows
      BY <1>1
    <2> HIDE DEF between, applies, sig
    <2>3. Cardinality(between) \in Nat /\ Cardinality(applies) \in Nat
          /\ (Cardinality(applies) = 0 <=> applies = {})
      BY <2>2, PlacesCount
    <2>4. ASSUME applies # {}, Cardinality(applies) # 1
          PROVE  Ratio(Cardinality(between), Cardinality(applies) - 1) \in Nat
      <3>1. Cardinality(applies) - 1 \in Nat /\ Cardinality(applies) - 1 # 0
        BY <2>3, <2>4
      <3> QED BY <2>3, <3>1, RatioType DEF Scores
    <2> QED BY <2>1, <2>4
  <1>10. sig.tested \in BOOLEAN
    BY DEF Signals, TestedBeforeSubmit
  <1> QED BY <1>2, <1>3, <1>4, <1>5, <1>7, <1>8, <1>9, <1>10 DEF SignalsOK

LEMMA DefaultSignalsType == SignalsOK(DefaultSignals)
  BY DEF SignalsOK, DefaultSignals, Scores, NA

----------------------------------------------------------------------------
(* One more run of the tests.  The rows after it move one place up.  Nothing *)
(* but what is found after something else changes, and that only grows.      *)

Moved(m, k) == IF k < m THEN k ELSE k + 1
MovedSet(m, S) == {Moved(m, k) : k \in S}

\* `more` has a run of the tests at place m.
OneMore(rows, more, m) ==
  /\ rows \in Rows /\ more \in Rows /\ m \in 1..(Len(rows) + 1)
  /\ Len(more) = Len(rows) + 1
  /\ more[m].kind = "test" /\ more[m].chars = 0
  /\ \A k \in DOMAIN rows : more[Moved(m, k)] = rows[k]

LEMMA MovedFacts ==
  ASSUME NEW rows, NEW more, NEW m, OneMore(rows, more, m)
  PROVE  /\ Len(rows) \in Nat /\ DOMAIN rows = 1..Len(rows) /\ DOMAIN more = 1..(Len(rows) + 1)
         /\ m \in DOMAIN more /\ m \in Nat
         /\ \A k \in DOMAIN rows : /\ k \in Nat /\ Moved(m, k) \in DOMAIN more /\ Moved(m, k) # m
                                   /\ Moved(m, k) \in Nat
                                   /\ more[Moved(m, k)] = rows[k]
         /\ \A i, j \in DOMAIN rows : /\ Moved(m, i) < Moved(m, j) <=> i < j
                                      /\ Moved(m, i) <= Moved(m, j) <=> i <= j
                                      /\ Moved(m, i) = Moved(m, j) <=> i = j
         /\ \A l \in DOMAIN more : l # m => \E k \in DOMAIN rows : l = Moved(m, k)
  <1>1. /\ Len(rows) \in Nat /\ DOMAIN rows = 1..Len(rows) /\ DOMAIN more = 1..(Len(rows) + 1)
        /\ m \in 1..(Len(rows) + 1)
    BY RowsAre DEF OneMore
  <1>2. \A k \in DOMAIN rows : /\ k \in Nat /\ Moved(m, k) \in DOMAIN more /\ Moved(m, k) # m
                               /\ Moved(m, k) \in Nat
    BY <1>1 DEF Moved
  <1>3. \A i, j \in DOMAIN rows : /\ Moved(m, i) < Moved(m, j) <=> i < j
                                  /\ Moved(m, i) <= Moved(m, j) <=> i <= j
                                  /\ Moved(m, i) = Moved(m, j) <=> i = j
    BY <1>1 DEF Moved
  <1>4. ASSUME NEW l \in DOMAIN more, l # m PROVE \E k \in DOMAIN rows : l = Moved(m, k)
    <2>1. CASE l < m
      <3>1. l \in DOMAIN rows /\ l = Moved(m, l)
        BY <1>1, <2>1 DEF Moved
      <3> QED BY <3>1
    <2>2. CASE l > m
      <3>1. l - 1 \in DOMAIN rows /\ l = Moved(m, l - 1)
        BY <1>1, <2>2 DEF Moved
      <3> QED BY <3>1
    <2> QED BY <1>1, <1>4, <2>1, <2>2
  <1>5. m \in DOMAIN more /\ m \in Nat
    BY <1>1
  <1> QED BY <1>1, <1>2, <1>3, <1>4, <1>5 DEF OneMore

\* As many places, wherever they move.
LEMMA MovedCount ==
  ASSUME NEW rows, NEW more, NEW m, OneMore(rows, more, m), NEW S, S \subseteq DOMAIN rows
  PROVE  Cardinality(MovedSet(m, S)) = Cardinality(S)
  <1> DEFINE f == [k \in S |-> Moved(m, k)]
  <1>1. \A i, j \in S : f[i] = f[j] => i = j
    BY MovedFacts
  <1>2. f \in Bijection(S, MovedSet(m, S))
    <2>1. f \in [S -> MovedSet(m, S)]
      BY DEF MovedSet
    <2>2. f \in Injection(S, MovedSet(m, S))
      BY <1>1, <2>1 DEF Injection, IsInjective
    <2>3. f \in Surjection(S, MovedSet(m, S))
      <3>1. \A t \in MovedSet(m, S) : \E s \in S : f[s] = t
        BY DEF MovedSet
      <3> QED BY <2>1, <3>1 DEF Surjection
    <2> QED BY <2>2, <2>3 DEF Bijection
  <1>3. IsFiniteSet(S)
    BY PlacesCount DEF OneMore
  <1>4. ExistsBijection(S, MovedSet(m, S))
    BY <1>2 DEF ExistsBijection
  <1> QED BY <1>3, <1>4, FS_Bijection

\* The places told by what is the same before and after.
LEMMA MovedPlaces ==
  ASSUME NEW rows, NEW more, NEW m, OneMore(rows, more, m)
  PROVE  \A kinds : "test" \notin kinds => Places(more, kinds) = MovedSet(m, Places(rows, kinds))
  <1> SUFFICES ASSUME NEW kinds, "test" \notin kinds
               PROVE  Places(more, kinds) = MovedSet(m, Places(rows, kinds))
    OBVIOUS
  <1>1. ASSUME NEW l \in Places(more, kinds) PROVE l \in MovedSet(m, Places(rows, kinds))
    <2>1. l \in DOMAIN more /\ more[l].kind \in kinds /\ l # m
      BY <1>1 DEF Places, OneMore
    <2>2. PICK k \in DOMAIN rows : l = Moved(m, k)
      BY <2>1, MovedFacts
    <2>3. more[l] = rows[k]
      BY <2>2, MovedFacts
    <2>4. k \in Places(rows, kinds)
      BY <2>1, <2>2, <2>3 DEF Places
    <2> QED BY <2>2, <2>4 DEF MovedSet
  <1>2. ASSUME NEW l \in MovedSet(m, Places(rows, kinds)) PROVE l \in Places(more, kinds)
    <2>1. PICK k \in Places(rows, kinds) : l = Moved(m, k)
      BY <1>2 DEF MovedSet
    <2>2. k \in DOMAIN rows /\ rows[k].kind \in kinds
      BY DEF Places
    <2>3. l \in DOMAIN more /\ more[l] = rows[k]
      BY <2>1, <2>2, MovedFacts
    <2> QED BY <2>2, <2>3 DEF Places
  <1> QED BY <1>1, <1>2

LEMMA MovedKinds ==
  ASSUME NEW rows, NEW more, NEW m, OneMore(rows, more, m),
         NEW kinds \in {{"open"}, {"typed"}, {"applied"}, {"rejected"}, {"debug"}, HandEdits}
  PROVE  Places(more, kinds) = MovedSet(m, Places(rows, kinds)) /\ Places(rows, kinds) \subseteq DOMAIN rows
  <1>1. "test" \notin kinds
    BY DEF HandEdits
  <1>2. Places(rows, kinds) \subseteq DOMAIN rows
    BY DEF Places
  <1> QED BY <1>1, <1>2, MovedPlaces

LEMMA MovedTests ==
  ASSUME NEW rows, NEW more, NEW m, OneMore(rows, more, m)
  PROVE  /\ TimesOf(rows, {"test"}) \subseteq TimesOf(more, {"test"})
         /\ Cardinality(Places(rows, {"test"})) \in Nat
         /\ Cardinality(Places(more, {"test"})) \in Nat
         /\ Cardinality(Places(rows, {"test"})) <= Cardinality(Places(more, {"test"}))
  <1> DEFINE old == Places(rows, {"test"})
             new == Places(more, {"test"})
  <1>1. MovedSet(m, old) \subseteq new
    <2> SUFFICES ASSUME NEW k \in old PROVE Moved(m, k) \in new
      BY DEF MovedSet
    <2>1. k \in DOMAIN rows /\ rows[k].kind \in {"test"}
      BY DEF Places
    <2>2. Moved(m, k) \in DOMAIN more /\ more[Moved(m, k)] = rows[k]
      BY <2>1, MovedFacts
    <2> QED BY <2>1, <2>2 DEF Places
  <1>2. old \subseteq DOMAIN rows /\ new \subseteq DOMAIN more
    BY DEF Places
  <1>3. TimesOf(rows, {"test"}) \subseteq TimesOf(more, {"test"})
    <2> SUFFICES ASSUME NEW k \in old PROVE rows[k].ts \in TimesOf(more, {"test"})
      BY DEF TimesOf
    <2>1. Moved(m, k) \in new /\ more[Moved(m, k)] = rows[k]
      BY <1>1, <1>2, MovedFacts DEF MovedSet
    <2> QED BY <2>1 DEF TimesOf
  <1> HIDE DEF old, new
  <1>4. IsFiniteSet(new) /\ Cardinality(new) \in Nat /\ Cardinality(old) \in Nat
    BY <1>2, PlacesCount DEF OneMore
  <1>5. Cardinality(MovedSet(m, old)) <= Cardinality(new)
    BY <1>1, <1>4, FS_Subset
  <1>6. Cardinality(MovedSet(m, old)) = Cardinality(old)
    BY <1>2, MovedCount
  <1> QED BY <1>3, <1>4, <1>5, <1>6 DEF old, new

\* What is found after a place.
LEMMA MovedCovered ==
  ASSUME NEW rows, NEW more, NEW m, OneMore(rows, more, m), NEW S, S \subseteq DOMAIN rows, NEW w
  PROVE  Raises(Ratio(Cardinality(Covered(rows, S, w)), Cardinality(S)),
                Ratio(Cardinality(Covered(more, MovedSet(m, S), w)), Cardinality(MovedSet(m, S))))
  <1>1. MovedSet(m, Covered(rows, S, w)) \subseteq Covered(more, MovedSet(m, S), w)
    <2> SUFFICES ASSUME NEW k \in Covered(rows, S, w)
                 PROVE  Moved(m, k) \in Covered(more, MovedSet(m, S), w)
      BY DEF MovedSet
    <2>1. /\ k \in S /\ k \in DOMAIN rows
          /\ \E u \in TimesOf(rows, {"test"}) : u \in rows[k].ts..(rows[k].ts + w)
      BY DEF Covered
    <2>2. Moved(m, k) \in MovedSet(m, S) /\ more[Moved(m, k)] = rows[k]
      BY <2>1, MovedFacts DEF MovedSet
    <2>3. \E u \in TimesOf(more, {"test"}) : u \in rows[k].ts..(rows[k].ts + w)
      BY <2>1, MovedTests
    <2> QED BY <2>2, <2>3 DEF Covered
  <1>2. Covered(rows, S, w) \subseteq DOMAIN rows /\ MovedSet(m, S) \subseteq DOMAIN more
        /\ Covered(more, MovedSet(m, S), w) \subseteq DOMAIN more
    BY MovedFacts DEF Covered, MovedSet
  <1>3. /\ Cardinality(Covered(rows, S, w)) \in Nat /\ Cardinality(S) \in Nat
        /\ IsFiniteSet(Covered(more, MovedSet(m, S), w))
        /\ Cardinality(Covered(more, MovedSet(m, S), w)) \in Nat
    BY <1>2, PlacesCount DEF OneMore
  <1>4. Cardinality(Covered(rows, S, w)) <= Cardinality(Covered(more, MovedSet(m, S), w))
    <2>1. Cardinality(MovedSet(m, Covered(rows, S, w))) <= Cardinality(Covered(more, MovedSet(m, S), w))
      BY <1>1, <1>3, FS_Subset
    <2> QED BY <1>2, <2>1, MovedCount
  <1>5. Cardinality(MovedSet(m, S)) = Cardinality(S)
    BY MovedCount
  <1> QED BY <1>3, <1>4, <1>5, RatioMonotone

\* What was written is the same.
LEMMA MovedChars ==
  ASSUME NEW rows, NEW more, NEW m, OneMore(rows, more, m), NEW S, S \subseteq DOMAIN rows
  PROVE  CharsAt(more, MovedSet(m, S)) = CharsAt(rows, S)
  <1> DEFINE s == [i \in DOMAIN rows |-> IF i \in S THEN rows[i].chars ELSE 0]
             u == [i \in DOMAIN more |-> IF i \in MovedSet(m, S) THEN more[i].chars ELSE 0]
  <1>1. /\ Len(rows) \in Nat /\ DOMAIN rows = 1..Len(rows) /\ DOMAIN more = 1..(Len(rows) + 1)
        /\ m \in 1..(Len(rows) + 1)
    BY MovedFacts
  <1>2. s \in [1..Len(rows) -> Int] /\ u \in [1..(Len(rows) + 1) -> Int]
    <2>1. \A i \in DOMAIN rows : rows[i].chars \in Int
      BY RowsAre DEF OneMore
    <2>2. \A i \in DOMAIN more : more[i].chars \in Int
      BY RowsAre DEF OneMore
    <2> QED BY <1>1, <2>1, <2>2
  <1>3. \A k \in 1..(Len(rows) + 1) : u[k] = IF k < m THEN s[k] ELSE IF k = m THEN 0 ELSE s[k - 1]
    <2> SUFFICES ASSUME NEW k \in 1..(Len(rows) + 1)
                 PROVE  u[k] = IF k < m THEN s[k] ELSE IF k = m THEN 0 ELSE s[k - 1]
      OBVIOUS
    <2>1. ASSUME NEW i \in DOMAIN rows PROVE u[Moved(m, i)] = s[i]
      <3>1. Moved(m, i) \in DOMAIN more /\ more[Moved(m, i)] = rows[i]
        BY MovedFacts
      <3>2. Moved(m, i) \in MovedSet(m, S) <=> i \in S
        BY MovedFacts DEF MovedSet
      <3> QED BY <3>1, <3>2
    <2>2. CASE k < m
      <3>1. k \in DOMAIN rows /\ Moved(m, k) = k
        BY <1>1, <2>2 DEF Moved
      <3> QED BY <2>1, <2>2, <3>1
    <2>3. CASE k = m
      <3>1. k \notin MovedSet(m, S)
        BY <2>3, MovedFacts DEF MovedSet
      <3> QED BY <1>1, <2>3, <3>1
    <2>4. CASE k > m
      <3>1. k - 1 \in DOMAIN rows /\ Moved(m, k - 1) = k
        BY <1>1, <2>4 DEF Moved
      <3> HIDE DEF s, u
      <3> QED BY <1>1, <2>1, <2>4, <3>1
    <2> QED BY <1>1, <2>2, <2>3, <2>4
  <1> HIDE DEF s, u
  <1>4. s \in Seq(Int) /\ u \in Seq(Int) /\ Len(s) = Len(rows) /\ Len(u) = Len(rows) + 1
    BY <1>1, <1>2
  <1>5. SumOf(u) = SumOf(s)
    BY <1>1, <1>3, <1>4, SumOfInserted
  <1> QED BY <1>5 DEF CharsAt, s, u

LEMMA MovedFound ==
  ASSUME NEW rows, NEW more, NEW m, OneMore(rows, more, m), NEW S, S \subseteq DOMAIN rows
  PROVE  /\ {more[i].file : i \in MovedSet(m, S)} = {rows[i].file : i \in S}
         /\ {more[i].block : i \in MovedSet(m, S)} = {rows[i].block : i \in S}
         /\ {more[i].of : i \in MovedSet(m, S)} = {rows[i].of : i \in S}
         /\ MovedSet(m, S) = {} <=> S = {}
  <1>1. \A k \in S : Moved(m, k) \in MovedSet(m, S) /\ more[Moved(m, k)] = rows[k]
    BY MovedFacts DEF MovedSet
  <1>2. \A l \in MovedSet(m, S) : \E k \in S : more[l] = rows[k]
    BY <1>1 DEF MovedSet
  <1> QED BY <1>1, <1>2 DEF MovedSet

\* What is asked of a place alone keeps its answer.
LEMMA MovedFilter ==
  ASSUME NEW rows, NEW more, NEW m, OneMore(rows, more, m), NEW S, S \subseteq DOMAIN rows
  PROVE  {i \in MovedSet(m, S) : more[i].chars > 0} = MovedSet(m, {i \in S : rows[i].chars > 0})
  <1> DEFINE few == {i \in S : rows[i].chars > 0}
  <1>1. ASSUME NEW k \in S PROVE more[Moved(m, k)].chars > 0 <=> k \in few
    BY MovedFacts
  <1>2. {i \in MovedSet(m, S) : more[i].chars > 0} \subseteq MovedSet(m, few)
    <2> SUFFICES ASSUME NEW l \in MovedSet(m, S), more[l].chars > 0 PROVE l \in MovedSet(m, few)
      OBVIOUS
    <2>1. PICK k \in S : l = Moved(m, k)
      BY DEF MovedSet
    <2>2. k \in few
      BY <1>1, <2>1
    <2> QED BY <2>1, <2>2 DEF MovedSet
  <1>3. MovedSet(m, few) \subseteq {i \in MovedSet(m, S) : more[i].chars > 0}
    <2> SUFFICES ASSUME NEW k \in few
                 PROVE  Moved(m, k) \in MovedSet(m, S) /\ more[Moved(m, k)].chars > 0
      BY DEF MovedSet
    <2> QED BY <1>1 DEF MovedSet
  <1> QED BY <1>2, <1>3

LEMMA MovedIncremental ==
  ASSUME NEW rows, NEW more, NEW m, OneMore(rows, more, m)
  PROVE  /\ IncrementalApply(rows).mean = IncrementalApply(more).mean
         /\ IncrementalApply(rows).between <= IncrementalApply(more).between
  <1> DEFINE old == Places(rows, {"applied"})
             new == Places(more, {"applied"})
             Next1(i, j) == i < j /\ \A k \in old : k <= i \/ j <= k
             Next2(i, j) == i < j /\ \A k \in new : k <= i \/ j <= k
             before == {i \in old : \E j \in old : Next1(i, j) /\ TestedApart(rows, i, j)}
             after == {i \in new : \E j \in new : Next2(i, j) /\ TestedApart(more, i, j)}
  <1>1. new = MovedSet(m, old) /\ old \subseteq DOMAIN rows /\ new \subseteq DOMAIN more
    <2>1. new = MovedSet(m, old) /\ old \subseteq DOMAIN rows
      BY MovedKinds
    <2>2. new \subseteq DOMAIN more
      BY DEF Places
    <2> QED BY <2>1, <2>2
  <1>2. /\ IncrementalApply(rows) =
             IF old = {} THEN [mean |-> NA, between |-> 0]
             ELSE [mean |-> MeanTenths(Chars(rows, "applied"), Cardinality({i \in old : rows[i].chars > 0})),
                   between |-> IF Cardinality(old) = 1 THEN 0
                               ELSE Ratio(Cardinality(before), Cardinality(old) - 1)]
        /\ IncrementalApply(more) =
             IF new = {} THEN [mean |-> NA, between |-> 0]
             ELSE [mean |-> MeanTenths(Chars(more, "applied"), Cardinality({i \in new : more[i].chars > 0})),
                   between |-> IF Cardinality(new) = 1 THEN 0
                               ELSE Ratio(Cardinality(after), Cardinality(new) - 1)]
    BY DEF IncrementalApply
  <1>3. MovedSet(m, before) \subseteq after
    <2> SUFFICES ASSUME NEW i \in before PROVE Moved(m, i) \in after
      BY DEF MovedSet
    <2>1. PICK j \in old : Next1(i, j) /\ TestedApart(rows, i, j)
      OBVIOUS
    <2>2. Moved(m, i) \in new /\ Moved(m, j) \in new
      BY <1>1 DEF MovedSet
    <2>3. i \in DOMAIN rows /\ j \in DOMAIN rows
      BY <1>1
    <2>4. Next2(Moved(m, i), Moved(m, j))
      <3>1. Moved(m, i) < Moved(m, j)
        BY <2>1, <2>3, MovedFacts
      <3>2. ASSUME NEW l \in new PROVE l <= Moved(m, i) \/ Moved(m, j) <= l
        <4>1. PICK k \in old : l = Moved(m, k)
          BY <1>1 DEF MovedSet
        <4>2. k <= i \/ j <= k
          BY <2>1
        <4> QED BY <1>1, <2>3, <4>1, <4>2, MovedFacts
      <3> QED BY <3>1, <3>2
    <2>5. TestedApart(more, Moved(m, i), Moved(m, j))
      <3>1. more[Moved(m, i)] = rows[i] /\ more[Moved(m, j)] = rows[j]
        BY <2>3, MovedFacts
      <3> QED BY <2>1, <3>1, MovedTests DEF TestedApart
    <2> QED BY <2>2, <2>4, <2>5
  <1>4. before \subseteq DOMAIN rows /\ after \subseteq DOMAIN more
    BY <1>1
  <1>5. {i \in new : more[i].chars > 0} = MovedSet(m, {i \in old : rows[i].chars > 0})
    BY <1>1, MovedFilter
  <1>6. {i \in old : rows[i].chars > 0} \subseteq DOMAIN rows
    BY <1>1
  <1>7. Chars(more, "applied") = Chars(rows, "applied")
    BY <1>1, MovedChars DEF Chars
  <1> HIDE DEF old, new, before, after
  <1>8. /\ Cardinality(new) = Cardinality(old) /\ (new = {} <=> old = {})
        /\ Cardinality({i \in new : more[i].chars > 0}) = Cardinality({i \in old : rows[i].chars > 0})
    <2>1. Cardinality(new) = Cardinality(old)
      BY <1>1, MovedCount
    <2>2. new = {} <=> old = {}
      BY <1>1, MovedFound
    <2> DEFINE S == {i \in old : rows[i].chars > 0}
    <2>3. {i \in new : more[i].chars > 0} = MovedSet(m, S) /\ S \subseteq DOMAIN rows
      BY <1>5, <1>6
    <2> HIDE DEF S
    <2>4. Cardinality(MovedSet(m, S)) = Cardinality(S)
      BY <2>3, MovedCount
    <2> QED BY <2>1, <2>2, <2>3, <2>4 DEF S
  <1>9. /\ Cardinality(old) \in Nat /\ Cardinality(before) \in Nat /\ Cardinality(after) \in Nat
        /\ IsFiniteSet(after) /\ (Cardinality(old) = 0 <=> old = {})
    BY <1>1, <1>4, PlacesCount DEF OneMore
  <1>10. Cardinality(before) <= Cardinality(after)
    <2>1. Cardinality(MovedSet(m, before)) <= Cardinality(after)
      BY <1>3, <1>9, FS_Subset
    <2> QED BY <1>4, <2>1, MovedCount
  <1>11. old # {} /\ Cardinality(old) # 1 =>
           Ratio(Cardinality(before), Cardinality(old) - 1) <= Ratio(Cardinality(after), Cardinality(old) - 1)
    <2> SUFFICES ASSUME old # {}, Cardinality(old) # 1
                 PROVE  Ratio(Cardinality(before), Cardinality(old) - 1)
                          <= Ratio(Cardinality(after), Cardinality(old) - 1)
      OBVIOUS
    <2>1. Cardinality(old) - 1 \in Nat
      BY <1>9
    <2> QED BY <1>9, <1>10, <2>1, RatioMonotone DEF Raises
  <1> QED BY <1>2, <1>7, <1>8, <1>11

LEMMA MovedBursts ==
  ASSUME NEW rows, NEW more, NEW m, OneMore(rows, more, m)
  PROVE  Bursts(more) = MovedSet(m, Bursts(rows)) /\ Bursts(rows) \subseteq DOMAIN rows
  <1> DEFINE old == Places(rows, HandEdits)
             new == Places(more, HandEdits)
  <1>1. new = MovedSet(m, old) /\ old \subseteq DOMAIN rows
    BY MovedKinds
  <1>2. /\ Bursts(rows) = {i \in old : \A j \in old : i < j => rows[j].ts - rows[i].ts > EditBurstGap}
        /\ Bursts(more) = {i \in new : \A j \in new : i < j => more[j].ts - more[i].ts > EditBurstGap}
    BY DEF Bursts
  <1> HIDE DEF old, new
  <1>3. ASSUME NEW i \in old PROVE Moved(m, i) \in Bursts(more) <=> i \in Bursts(rows)
    <2>1. Moved(m, i) \in new /\ i \in DOMAIN rows /\ more[Moved(m, i)] = rows[i]
      BY <1>1, MovedFacts DEF MovedSet
    <2>2. ASSUME NEW j \in old
          PROVE  /\ Moved(m, j) \in new /\ more[Moved(m, j)] = rows[j]
                 /\ Moved(m, i) < Moved(m, j) <=> i < j
      BY <1>1, <2>1, MovedFacts DEF MovedSet
    <2>3. ASSUME i \in Bursts(rows), NEW l \in new, Moved(m, i) < l
          PROVE  more[l].ts - more[Moved(m, i)].ts > EditBurstGap
      <3>1. PICK j \in old : l = Moved(m, j)
        BY <1>1 DEF MovedSet
      <3>2. i < j /\ more[l] = rows[j]
        BY <2>2, <2>3, <3>1
      <3> QED BY <1>2, <2>1, <2>3, <3>2
    <2>4. ASSUME Moved(m, i) \in Bursts(more), NEW j \in old, i < j
          PROVE  rows[j].ts - rows[i].ts > EditBurstGap
      <3>1. Moved(m, i) < Moved(m, j) /\ Moved(m, j) \in new /\ more[Moved(m, j)] = rows[j]
        BY <2>2, <2>4
      <3> QED BY <1>2, <2>1, <2>4, <3>1
    <2> QED BY <1>2, <2>1, <2>3, <2>4
  <1>4. Bursts(more) \subseteq MovedSet(m, Bursts(rows))
    <2> SUFFICES ASSUME NEW l \in Bursts(more) PROVE l \in MovedSet(m, Bursts(rows))
      OBVIOUS
    <2>1. PICK i \in old : l = Moved(m, i)
      BY <1>1, <1>2 DEF MovedSet
    <2> QED BY <1>3, <2>1 DEF MovedSet
  <1>5. MovedSet(m, Bursts(rows)) \subseteq Bursts(more)
    <2> SUFFICES ASSUME NEW i \in Bursts(rows) PROVE Moved(m, i) \in Bursts(more)
      BY DEF MovedSet
    <2> QED BY <1>2, <1>3
  <1> QED BY <1>1, <1>2, <1>4, <1>5

LEMMA MovedMeanBurst ==
  ASSUME NEW rows, NEW more, NEW m, OneMore(rows, more, m)
  PROVE  MeanBurst(more) = MeanBurst(rows)
  <1> DEFINE old == Places(rows, HandEdits)
             new == Places(more, HandEdits)
             In1(j, i) == j <= i /\ ~ \E k \in Bursts(rows) : j <= k /\ k < i
             In2(j, i) == j <= i /\ ~ \E k \in Bursts(more) : j <= k /\ k < i
             before == {i \in Bursts(rows) : \E j \in old : In1(j, i) /\ rows[j].chars > 0}
             after == {i \in Bursts(more) : \E j \in new : In2(j, i) /\ more[j].chars > 0}
  <1>1. new = MovedSet(m, old) /\ old \subseteq DOMAIN rows
    BY MovedKinds
  <1>2. Bursts(more) = MovedSet(m, Bursts(rows)) /\ Bursts(rows) \subseteq DOMAIN rows
    BY MovedBursts
  <1>3. /\ MeanBurst(rows) = IF Bursts(rows) = {} THEN NA
                             ELSE MeanTenths(CharsAt(rows, old), Cardinality(before))
        /\ MeanBurst(more) = IF Bursts(more) = {} THEN NA
                             ELSE MeanTenths(CharsAt(more, new), Cardinality(after))
    BY DEF MeanBurst
  <1> HIDE DEF old, new
  <1>4. ASSUME NEW i \in DOMAIN rows, NEW j \in DOMAIN rows
        PROVE  In2(Moved(m, j), Moved(m, i)) <=> In1(j, i)
    <2>1. Moved(m, j) <= Moved(m, i) <=> j <= i
      BY MovedFacts
    <2>2. \A k \in Bursts(rows) : /\ Moved(m, k) \in Bursts(more)
                                  /\ Moved(m, j) <= Moved(m, k) <=> j <= k
                                  /\ Moved(m, k) < Moved(m, i) <=> k < i
      BY <1>2, MovedFacts DEF MovedSet
    <2>3. \A l \in Bursts(more) : \E k \in Bursts(rows) : l = Moved(m, k)
      BY <1>2 DEF MovedSet
    <2> QED BY <2>1, <2>2, <2>3
  <1> HIDE DEF In1, In2
  <1>5. ASSUME NEW i \in Bursts(rows) PROVE Moved(m, i) \in after <=> i \in before
    <2>1. Moved(m, i) \in Bursts(more) /\ i \in DOMAIN rows
      BY <1>2 DEF MovedSet
    <2>2. \A j \in old : /\ Moved(m, j) \in new /\ j \in DOMAIN rows
                         /\ more[Moved(m, j)] = rows[j]
      BY <1>1, MovedFacts DEF MovedSet
    <2>3. \A l \in new : \E j \in old : l = Moved(m, j)
      BY <1>1 DEF MovedSet
    <2> QED BY <1>4, <2>1, <2>2, <2>3
  <1>6. after = MovedSet(m, before)
    <2>1. after \subseteq MovedSet(m, before)
      <3> SUFFICES ASSUME NEW l \in after PROVE l \in MovedSet(m, before)
        OBVIOUS
      <3>1. PICK i \in Bursts(rows) : l = Moved(m, i)
        BY <1>2 DEF MovedSet
      <3>2. i \in before
        BY <1>5, <3>1
      <3> QED BY <3>1, <3>2 DEF MovedSet
    <2>2. MovedSet(m, before) \subseteq after
      <3> SUFFICES ASSUME NEW i \in before PROVE Moved(m, i) \in after
        BY DEF MovedSet
      <3> QED BY <1>5
    <2> QED BY <2>1, <2>2
  <1>7. before \subseteq DOMAIN rows
    BY <1>2
  <1> HIDE DEF before, after
  <1>8. /\ Cardinality(after) = Cardinality(before)
        /\ CharsAt(more, new) = CharsAt(rows, old)
        /\ Bursts(more) = {} <=> Bursts(rows) = {}
    BY <1>1, <1>2, <1>6, <1>7, MovedCount, MovedChars, MovedFound
  <1> QED BY <1>3, <1>8

LEMMA MovedRework ==
  ASSUME NEW rows, NEW more, NEW m, OneMore(rows, more, m)
  PROVE  ReworkRatio(more) = ReworkRatio(rows)
  <1> DEFINE Re(s, i, a) == /\ s[a].file = s[i].file
                            /\ s[a].ts < s[i].ts /\ s[i].ts - s[a].ts < PostApplyWindow
             old == {i \in Places(rows, {"typed"}) : \E a \in Places(rows, {"applied"}) : Re(rows, i, a)}
             new == {i \in Places(more, {"typed"}) : \E a \in Places(more, {"applied"}) : Re(more, i, a)}
  <1>1. /\ Places(more, {"typed"}) = MovedSet(m, Places(rows, {"typed"}))
        /\ Places(more, {"applied"}) = MovedSet(m, Places(rows, {"applied"}))
        /\ Places(rows, {"typed"}) \subseteq DOMAIN rows
        /\ Places(rows, {"applied"}) \subseteq DOMAIN rows
    BY MovedKinds
  <1>2. /\ ReworkRatio(rows) = IF Chars(rows, "applied") = 0 THEN 0
               ELSE Least(100, RoundDiv(100 * CharsAt(rows, old), Chars(rows, "applied")))
        /\ ReworkRatio(more) = IF Chars(more, "applied") = 0 THEN 0
               ELSE Least(100, RoundDiv(100 * CharsAt(more, new), Chars(more, "applied")))
    BY DEF ReworkRatio
  <1>3. Chars(more, "applied") = Chars(rows, "applied")
    BY <1>1, MovedChars DEF Chars
  <1>4. ASSUME NEW i \in DOMAIN rows, NEW a \in DOMAIN rows
        PROVE  Re(more, Moved(m, i), Moved(m, a)) <=> Re(rows, i, a)
    <2>1. more[Moved(m, i)] = rows[i] /\ more[Moved(m, a)] = rows[a]
      BY MovedFacts
    <2> QED BY <2>1
  <1> HIDE DEF Re
  <1>5. ASSUME NEW i \in Places(rows, {"typed"}) PROVE Moved(m, i) \in new <=> i \in old
    <2>1. Moved(m, i) \in Places(more, {"typed"}) /\ i \in DOMAIN rows
      BY <1>1 DEF MovedSet
    <2>2. \A a \in Places(rows, {"applied"}) : Moved(m, a) \in Places(more, {"applied"}) /\ a \in DOMAIN rows
      BY <1>1 DEF MovedSet
    <2>3. \A l \in Places(more, {"applied"}) : \E a \in Places(rows, {"applied"}) : l = Moved(m, a)
      BY <1>1 DEF MovedSet
    <2> QED BY <1>4, <2>1, <2>2, <2>3
  <1>6. new = MovedSet(m, old)
    <2>1. new \subseteq MovedSet(m, old)
      <3> SUFFICES ASSUME NEW l \in new PROVE l \in MovedSet(m, old)
        OBVIOUS
      <3>1. PICK i \in Places(rows, {"typed"}) : l = Moved(m, i)
        BY <1>1 DEF MovedSet
      <3>2. i \in old
        BY <1>5, <3>1
      <3> QED BY <3>1, <3>2 DEF MovedSet
    <2>2. MovedSet(m, old) \subseteq new
      <3> SUFFICES ASSUME NEW i \in old PROVE Moved(m, i) \in new
        BY DEF MovedSet
      <3> QED BY <1>5
    <2> QED BY <2>1, <2>2
  <1>7. old \subseteq DOMAIN rows
    BY <1>1
  <1> HIDE DEF old, new
  <1>8. CharsAt(more, new) = CharsAt(rows, old)
    BY <1>6, <1>7, MovedChars
  <1> QED BY <1>2, <1>3, <1>8

LEMMA MovedBlocks ==
  ASSUME NEW rows, NEW more, NEW m, OneMore(rows, more, m)
  PROVE  Blocks(more) = Blocks(rows) /\ ReviewedRate(more) = ReviewedRate(rows)
  <1>1. /\ Places(more, {"applied"}) = MovedSet(m, Places(rows, {"applied"}))
        /\ Places(more, HandEdits) = MovedSet(m, Places(rows, HandEdits))
        /\ Places(rows, {"applied"}) \subseteq DOMAIN rows
        /\ Places(rows, HandEdits) \subseteq DOMAIN rows
    BY MovedKinds
  <1>2. Blocks(more) = Blocks(rows)
    <2> DEFINE S == Places(rows, {"applied"})
    <2>1. Places(more, {"applied"}) = MovedSet(m, S) /\ S \subseteq DOMAIN rows
      BY <1>1
    <2> HIDE DEF S
    <2>2. {more[i].block : i \in MovedSet(m, S)} = {rows[i].block : i \in S}
      BY <2>1, MovedFound
    <2> QED BY <2>1, <2>2 DEF S, Blocks
  <1>3. {more[i].of : i \in Places(more, HandEdits)} = {rows[i].of : i \in Places(rows, HandEdits)}
    <2> DEFINE S == Places(rows, HandEdits)
    <2>1. Places(more, HandEdits) = MovedSet(m, S) /\ S \subseteq DOMAIN rows
      BY <1>1
    <2> HIDE DEF S
    <2>2. {more[i].of : i \in MovedSet(m, S)} = {rows[i].of : i \in S}
      BY <2>1, MovedFound
    <2> QED BY <2>1, <2>2 DEF S
  <1> QED BY <1>2, <1>3 DEF ReviewedRate

LEMMA OneMoreTest ==
  ASSUME NEW rows, NEW more, NEW m, OneMore(rows, more, m), NEW s
  PROVE  MoreTested(Signals(rows, s), Signals(more, s))
  <1>1. \A kind \in {"open", "debug", "rejected", "applied"} :
          /\ Places(more, {kind}) = MovedSet(m, Places(rows, {kind}))
          /\ Places(rows, {kind}) \subseteq DOMAIN rows
    BY MovedKinds
  <1>2. {more[i].file : i \in Places(more, {"open"})} = {rows[i].file : i \in Places(rows, {"open"})}
    <2> DEFINE S == Places(rows, {"open"})
    <2>1. Places(more, {"open"}) = MovedSet(m, S) /\ S \subseteq DOMAIN rows
      BY <1>1
    <2> HIDE DEF S
    <2>2. {more[i].file : i \in MovedSet(m, S)} = {rows[i].file : i \in S}
      BY <2>1, MovedFound
    <2> QED BY <2>1, <2>2 DEF S
  <1>3. Places(more, {"debug"}) = {} <=> Places(rows, {"debug"}) = {}
    BY <1>1, MovedFound
  <1>4. Cardinality(Places(more, {"rejected"})) = Cardinality(Places(rows, {"rejected"}))
    BY <1>1, MovedCount
  <1>5. Raises(TestAfterApply(rows), TestAfterApply(more))
    BY <1>1, MovedCovered DEF TestAfterApply
  <1>6. Raises(TestAfterEdit(rows), TestAfterEdit(more))
    BY MovedBursts, MovedCovered DEF TestAfterEdit
  <1>7. TestedBeforeSubmit(rows, s.submitted) => TestedBeforeSubmit(more, s.submitted)
    BY MovedTests DEF TestedBeforeSubmit
  <1>8. Cardinality(Places(rows, {"test"})) <= Cardinality(Places(more, {"test"}))
    BY MovedTests
  <1>9. /\ ReworkRatio(more) = ReworkRatio(rows) /\ Blocks(more) = Blocks(rows)
        /\ ReviewedRate(more) = ReviewedRate(rows) /\ MeanBurst(more) = MeanBurst(rows)
    BY MovedRework, MovedBlocks, MovedMeanBurst
  <1>10. /\ IncrementalApply(rows).mean = IncrementalApply(more).mean
         /\ IncrementalApply(rows).between <= IncrementalApply(more).between
    BY MovedIncremental
  <1> QED BY <1>2, <1>3, <1>4, <1>5, <1>6, <1>7, <1>8, <1>9, <1>10 DEF Signals, MoreTested
=============================================================================
