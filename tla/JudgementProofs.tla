----------------------------- MODULE JudgementProofs -----------------------------
(***************************************************************************)
(* The verdict of the similarity loop is the quantifier's, for every text, *)
(* history, length of shingle and threshold; so a copy is always caught.   *)
(* Ratings keep the order and the distance of what the model said, and     *)
(* what approves itself passed every check.                                *)
(***************************************************************************)
EXTENDS Judgement, FiniteSetTheorems, TLAPS

Fraction == Nat \X (Nat \ {0})

--------------------------------------------------------------------------------
\* Fractions.

\* What lies below the threshold takes with it all that is not above it.
LEMMA BelowTransitive ==
  ASSUME NEW p \in Fraction, NEW q \in Fraction, NEW r \in Fraction,
         ~ Below(p, q), Below(p, r)
  PROVE  Below(q, r)
<1> DEFINE a == p[1]  b == p[2]  c == q[1]  d == q[2]  e == r[1]  f == r[2]
<1>1. a \in Nat /\ c \in Nat /\ e \in Nat /\ b \in Nat \ {0} /\ d \in Nat \ {0} /\ f \in Nat \ {0}
  BY DEF Fraction
<1>2. c * b <= a * d /\ a * f < e * b
  BY <1>1 DEF Below
<1>3. (c * b) * f <= (a * d) * f /\ (a * f) * d < (e * b) * d
  <2> HIDE DEF a, b, c, d, e, f
  <2> QED
    BY <1>1, <1>2, Z3
<1>4. (c * f) * b < (e * d) * b
  <2> HIDE DEF a, b, c, d, e, f
  <2> QED
    BY <1>1, <1>3, Z3
<1>5. c * f < e * d
  <2> HIDE DEF a, b, c, d, e, f
  <2> QED
    BY <1>1, <1>4, Z3
<1> QED
  BY <1>5 DEF Below

\* So does what lies above something that is not below it.
LEMMA BelowThrough ==
  ASSUME NEW p \in Fraction, NEW q \in Fraction, NEW r \in Fraction,
         ~ Below(p, q), Below(p, r)
  PROVE  ~ Below(r, q)
<1>1. Below(q, r)
  BY BelowTransitive
<1> QED
  BY <1>1 DEF Below, Fraction

--------------------------------------------------------------------------------
\* Shingles and scores.

LEMMA ShinglesFinite ==
  ASSUME CheckAssumption, NEW t \in Seq(Words)
  PROVE  IsFiniteSet(Shingles(t))
<1>1. CASE Len(t) < N
  BY <1>1, FS_EmptySet, FS_Singleton DEF Shingles
<1>2. CASE ~ Len(t) < N
  <2> DEFINE K == 1 .. Len(t) - N + 1
  <2>1. IsFiniteSet(K)
    BY FS_Interval DEF CheckAssumption
  <2> DEFINE f == [k \in K |-> SubSeq(t, k, k + N - 1)]
  <2>2. f \in Surjection(K, {SubSeq(t, k, k + N - 1) : k \in K})
    BY DEF Surjection
  <2>3. IsFiniteSet({SubSeq(t, k, k + N - 1) : k \in K})
    <3> HIDE DEF K, f
    <3> QED
      BY <2>1, <2>2, FS_Surjection
  <2> QED
    BY <1>2, <2>3 DEF Shingles
<1> QED
  BY <1>1, <1>2

\* A score is a fraction.
LEMMA JaccardFraction ==
  ASSUME NEW S, NEW T, IsFiniteSet(S), IsFiniteSet(T)
  PROVE  Jaccard(S, T) \in Fraction
<1>1. CASE S = {} /\ T = {}
  BY <1>1 DEF Jaccard, Zero, Fraction
<1>2. CASE ~ (S = {} /\ T = {})
  <2>1. IsFiniteSet(S \intersect T) /\ IsFiniteSet(S \union T)
    BY FS_Intersection, FS_Union
  <2>2. Cardinality(S \intersect T) \in Nat /\ Cardinality(S \union T) \in Nat
    BY <2>1, FS_CardinalityType
  <2>3. S \union T # {}
    BY <1>2
  <2>4. Cardinality(S \union T) # 0
    BY <2>1, <2>3, FS_EmptySet
  <2> QED
    BY <1>2, <2>2, <2>4 DEF Jaccard, Fraction
<1> QED
  BY <1>1, <1>2

Inputs == candidate \in Seq(Words) /\ sent \in Seq(Seq(Words))

\* The history is made of texts.
LEMMA HistoryOfTexts ==
  ASSUME CheckAssumption, Inputs
  PROVE  History \in Seq(Seq(Words))
<1>1. CASE Len(sent) <= Recent
  BY <1>1 DEF History, Inputs
<1>2. CASE ~ Len(sent) <= Recent
  BY <1>2 DEF History, CheckAssumption, Inputs
<1> QED
  BY <1>1, <1>2

LEMMA ScoreFraction ==
  ASSUME CheckAssumption, Inputs, NEW j \in 1 .. Len(History)
  PROVE  Score(j) \in Fraction
<1>1. candidate \in Seq(Words) /\ History[j] \in Seq(Words)
  BY HistoryOfTexts DEF Inputs
<1> QED
  BY <1>1, ShinglesFinite, JaccardFraction DEF Score

\* A text has no shingle only when it has no word.
LEMMA ShinglesOfWords ==
  ASSUME CheckAssumption, NEW t \in Seq(Words)
  PROVE  Shingles(t) = {} <=> t = <<>>
<1>1. CASE Len(t) < N
  BY <1>1 DEF Shingles
<1>2. CASE ~ Len(t) < N
  <2>1. 1 \in 1 .. Len(t) - N + 1 /\ t # <<>>
    BY <1>2 DEF CheckAssumption
  <2> QED
    BY <1>2, <2>1 DEF Shingles
<1> QED
  BY <1>1, <1>2

--------------------------------------------------------------------------------
\* The loop.

\* While it runs, nothing that was compared is above the best, and the best is one of
\* what was compared.
Running ==
  /\ \A j \in 1 .. i - 1 : ~ Below(best, Score(j))
  /\ best = Zero \/ \E j \in 1 .. i - 1 : best = Score(j)

LoopInv ==
  /\ Inputs
  /\ i \in 1 .. Len(History) + 1
  /\ verdict \in {"running", "similar", "different"}
  /\ verdict = "running" => Running
  /\ VerdictIsRight

LEMMA InitLoop == Init => LoopInv
<1> SUFFICES ASSUME Init PROVE LoopInv
  OBVIOUS
<1>1. Inputs
  <2>1. candidate \in Texts /\ sent \in Seq(Texts)
    BY TextsAssumption DEF Init, TextsAssumption
  <2> QED
    BY <2>1, TextsAssumption DEF Inputs, TextsAssumption
<1>2. Len(History) \in Nat
  BY <1>1, HistoryOfTexts, CheckAssumption
<1> QED
  BY <1>1, <1>2 DEF Init, LoopInv, Inputs, Running, VerdictIsRight

LEMMA StepLoop == LoopInv /\ [Next]_vars => LoopInv'
<1> SUFFICES ASSUME LoopInv, [Next]_vars PROVE LoopInv'
  OBVIOUS
<1> USE CheckAssumption
<1>1. /\ Inputs /\ i \in 1 .. Len(History) + 1
      /\ Len(History) \in Nat
  BY HistoryOfTexts DEF LoopInv, Inputs
<1>2. \A j \in 1 .. Len(History) : Score(j) \in Fraction
  BY <1>1, ScoreFraction DEF Inputs
<1>3. Threshold \in Fraction /\ Zero \in Fraction
  BY DEF CheckAssumption, Fraction, Zero
<1>4. verdict = "running" => best \in Fraction
  BY <1>1, <1>2, <1>3 DEF LoopInv, Running
<1>5. CASE PassesUncompared
  <2>1. ~ TooSimilar
    <3>1. CASE Shingles(candidate) = {}
      BY <1>1, <3>1, ShinglesOfWords DEF TooSimilar, Inputs
    <3>2. CASE History = <<>>
      BY <3>2 DEF TooSimilar
    <3> QED
      BY <1>5, <3>1, <3>2 DEF PassesUncompared, Nothing
  <2>2. Inputs' /\ History' = History /\ TooSimilar' = TooSimilar /\ i' = i
    BY <1>1, <1>5 DEF PassesUncompared, Inputs, History, TooSimilar, Score
  <2> QED
    BY <1>1, <1>5, <2>1, <2>2 DEF PassesUncompared, LoopInv, VerdictIsRight
<1>6. CASE Compare
  <2>1. Inputs' /\ History' = History /\ TooSimilar' = TooSimilar
        /\ \A j : Score(j)' = Score(j)
    BY <1>1, <1>6 DEF Compare, Inputs, History, TooSimilar, Score
  <2>2. i \in 1 .. Len(History) /\ i' = i + 1
    BY <1>1, <1>6 DEF Compare
  <2>3. CASE verdict' = "similar"
    <3>1. Reaches(Score(i)) /\ candidate # <<>>
      BY <1>1, <1>6, <2>3, ShinglesOfWords DEF Compare, Nothing, Inputs
    <3>2. TooSimilar
      BY <2>2, <3>1 DEF TooSimilar
    <3> QED
      BY <1>1, <2>1, <2>2, <2>3, <3>2 DEF LoopInv, VerdictIsRight
  <2>4. CASE verdict' = "running"
    <3>1. verdict = "running" /\ Running
      BY <1>6 DEF Compare, LoopInv
    <3>2. CASE Below(best, Score(i))
      <4>1. best' = Score(i)
        BY <1>6, <3>2 DEF Compare
      <4>2. \A j \in 1 .. i : ~ Below(Score(i), Score(j))
        <5>1. ASSUME NEW j \in 1 .. i - 1, Below(Score(i), Score(j)) PROVE FALSE
          <6>1. ~ Below(best, Score(j))
            BY <3>1 DEF Running
          <6>2. Score(j) \in Fraction /\ Score(i) \in Fraction /\ best \in Fraction
            BY <1>1, <1>2, <1>4, <2>2, <3>1
          <6> QED
            BY <3>2, <5>1, <6>1, <6>2, BelowThrough
        <5>2. ~ Below(Score(i), Score(i))
          BY <1>2, <2>2 DEF Below, Fraction
        <5> QED
          BY <2>2, <5>1, <5>2
      <4>3. Running'
        BY <2>1, <2>2, <4>1, <4>2 DEF Running
      <4> QED
        BY <2>1, <2>2, <2>4, <4>3 DEF LoopInv, VerdictIsRight
    <3>3. CASE ~ Below(best, Score(i))
      <4>1. best' = best
        BY <1>6, <3>3 DEF Compare
      <4>2. Running'
        BY <2>1, <2>2, <3>1, <3>3, <4>1 DEF Running
      <4> QED
        BY <2>1, <2>2, <2>4, <4>2 DEF LoopInv, VerdictIsRight
    <3> QED
      BY <3>2, <3>3
  <2> QED
    BY <1>6, <2>3, <2>4 DEF Compare
<1>7. CASE Conclude
  <2>1. Inputs' /\ History' = History /\ TooSimilar' = TooSimilar /\ i' = i
    BY <1>1, <1>7 DEF Conclude, Inputs, History, TooSimilar, Score
  <2>2. Running /\ best \in Fraction /\ candidate # <<>> /\ Len(History) # 0
        /\ i = Len(History) + 1
    <3>1. verdict = "running" /\ ~ Nothing /\ i > Len(History)
      BY <1>7 DEF Conclude
    <3>2. candidate # <<>> /\ Len(History) # 0
      BY <1>1, <3>1, ShinglesOfWords, HistoryOfTexts DEF Nothing, Inputs
    <3> QED
      BY <1>1, <1>4, <3>1, <3>2 DEF LoopInv
  <2>3. CASE Reaches(best)
    <3>1. \E j \in 1 .. Len(History) : Reaches(Score(j))
      <4>1. CASE best = Zero
        <5>1. 1 \in 1 .. Len(History) /\ Score(1) \in Fraction
          BY <1>1, <1>2, <2>2
        <5>2. Threshold[1] = 0
          BY <1>3, <2>3, <4>1 DEF Reaches, Below, Zero, Fraction
        <5>3. Reaches(Score(1))
          BY <1>3, <5>1, <5>2 DEF Reaches, Below, Fraction
        <5> QED
          BY <5>1, <5>3
      <4>2. CASE \E j \in 1 .. i - 1 : best = Score(j)
        BY <1>1, <2>2, <2>3, <4>2
      <4> QED
        BY <2>2, <4>1, <4>2 DEF Running
    <3> QED
      BY <1>1, <1>7, <2>1, <2>2, <2>3, <3>1 DEF Conclude, LoopInv, VerdictIsRight, TooSimilar
  <2>4. CASE ~ Reaches(best)
    <3>1. ASSUME NEW j \in 1 .. Len(History), Reaches(Score(j)) PROVE FALSE
      <4>1. ~ Below(best, Score(j)) /\ Score(j) \in Fraction
        BY <1>1, <1>2, <2>2 DEF Running
      <4>2. Below(Score(j), Threshold)
        BY <1>3, <2>2, <2>4, <4>1, BelowTransitive DEF Reaches
      <4> QED
        BY <3>1, <4>2 DEF Reaches
    <3>2. ~ TooSimilar
      BY <3>1 DEF TooSimilar
    <3> QED
      BY <1>1, <1>7, <2>1, <2>4, <3>2 DEF Conclude, LoopInv, VerdictIsRight
  <2> QED
    BY <2>3, <2>4
<1>8. CASE UNCHANGED vars
  BY <1>8 DEF vars, LoopInv, Inputs, Running, VerdictIsRight, TooSimilar, History, Score
<1> QED
  BY <1>5, <1>6, <1>7, <1>8 DEF Next

\* The verdict is the one that the definition of too similar gives.
THEOREM VerdictHolds == Spec => []VerdictIsRight
<1>1. LoopInv => VerdictIsRight
  BY DEF LoopInv
<1> QED
  BY <1>1, InitLoop, StepLoop, PTL DEF Spec

\* A text has everything in common with itself, and no threshold is above one.
LEMMA CopyReaches ==
  ASSUME CheckAssumption, Inputs, candidate # <<>>,
         NEW j \in 1 .. Len(History), History[j] = candidate
  PROVE  Reaches(Score(j))
<1> DEFINE S == Shingles(candidate)  c == Cardinality(S)
<1>1. candidate \in Seq(Words)
  BY DEF Inputs
<1>2. IsFiniteSet(S) /\ S # {}
  BY <1>1, ShinglesFinite, ShinglesOfWords
<1>3. c \in Nat
  BY <1>2, FS_CardinalityType
<1>4. Score(j) = <<c, c>>
  <2>1. S \intersect S = S /\ S \union S = S
    OBVIOUS
  <2> QED
    BY <1>2, <2>1 DEF Score, Jaccard
<1>5. Threshold[1] * c <= c * Threshold[2]
  <2>1. Threshold[1] \in Nat /\ Threshold[2] \in Nat /\ Threshold[1] <= Threshold[2]
    BY DEF CheckAssumption
  <2> HIDE DEF c
  <2> QED
    BY <1>3, <2>1, Z3
<1>6. c * Threshold[2] \in Nat /\ Threshold[1] * c \in Nat
  BY <1>3 DEF CheckAssumption
<1> QED
  <2> HIDE DEF c
  <2> QED
    BY <1>4, <1>5, <1>6 DEF Reaches, Below

\* The very words of a recent message never pass the check.
THEOREM CopiesCaught == Spec => []CopyIsCaught
<1>1. LoopInv => CopyIsCaught
  BY CheckAssumption, CopyReaches
     DEF LoopInv, VerdictIsRight, TooSimilar, CopyIsCaught
<1> QED
  BY <1>1, InitLoop, StepLoop, PTL DEF Spec

--------------------------------------------------------------------------------
\* The rules keep order and distance.

LEMMA ClampType ==
  ASSUME NEW x \in RawScores
  PROVE  Clamp(x) \in 0 .. One
BY JudgementAssumption, CallsAssumption DEF JudgementAssumption, CallsAssumption, Clamp

LEMMA ClampInt ==
  ASSUME NEW x \in Int
  PROVE  /\ Clamp(x) \in 0 .. One
         /\ \A y \in Int : x <= y => Clamp(x) <= Clamp(y)
         /\ \A y \in Nat : x <= y => Clamp(x) <= y
BY CallsAssumption DEF CallsAssumption, Clamp

LEMMA BonusBounds ==
  ASSUME NEW s \in Signals
  PROVE  Bonus(s) \in -500 .. 1000
BY DEF Signals, Bonus

LEMMA BonusOrder ==
  ASSUME NEW s \in Signals, NEW q \in Signals, NoLess(s, q)
  PROVE  Bonus(q) <= Bonus(s)
BY DEF Signals, Bonus, NoLess

\* A number lies between two of three digits.
LEMMA Digits ==
  ASSUME NEW x \in Nat
  PROVE  /\ x % 10 \in 0 .. 9
         /\ x - (x % 10) \in Nat /\ (x - (x % 10)) % 10 = 0
OBVIOUS

LEMMA RoundedBounds ==
  ASSUME NEW x \in 0 .. One, NEW y \in Rounded(x)
  PROVE  y \in 0 .. One /\ y <= x + 5
BY JudgementAssumption, CallsAssumption, Digits DEF JudgementAssumption, CallsAssumption, Rounded

LEMMA RoundedOrder ==
  ASSUME NEW x \in Nat, NEW y \in Nat, x <= y, NEW t \in Rounded(y)
  PROVE  \E s \in Rounded(x) : s <= t
<1> DEFINE f == x - (x % 10)  g == y - (y % 10)
<1>1. x % 10 \in 0 .. 9 /\ y % 10 \in 0 .. 9 /\ f \in Int /\ g \in Int
  BY Digits
<1>2. f = g \/ f + 10 <= g
  OBVIOUS
<1>3. t \in {g, g + 10} /\ 2 * (y - t) \in -10 .. 10
  BY DEF Rounded
<1>4. x \in f .. f + 9 /\ y \in g .. g + 9
  BY <1>1
<1>5. \A s \in {f, f + 10} : 2 * (x - s) \in -10 .. 10 => s \in Rounded(x)
  BY DEF Rounded
<1>6. CASE 2 * (x - f) \in -10 .. 10 /\ f <= t
  BY <1>5, <1>6
<1>7. CASE ~ (2 * (x - f) \in -10 .. 10 /\ f <= t)
  <2>1. f <= t
    <3> HIDE DEF f, g
    <3> QED
      BY <1>1, <1>2, <1>3
  <2>2. f + 10 <= t /\ 2 * (x - (f + 10)) \in -10 .. 10
    <3> HIDE DEF f, g
    <3> QED
      BY <1>1, <1>2, <1>3, <1>4, <1>7, <2>1
  <2> QED
    BY <1>5, <2>2
<1> QED
  BY <1>6, <1>7

Rated(s, r) == Clamp(Clamp(r) + Bonus(s))

LEMMA RatedParts ==
  ASSUME NEW s \in Signals, NEW r \in RawScores
  PROVE  Clamp(r) \in Nat /\ Bonus(s) \in -500 .. 1000 /\ Bonus(s) \in Int
<1>1. Clamp(r) \in 0 .. One /\ One \in Nat
  BY ClampType, CallsAssumption DEF CallsAssumption
<1>2. Clamp(r) \in Nat
  <2> DEFINE c == Clamp(r)
  <2>1. c \in 0 .. One
    BY <1>1
  <2> HIDE DEF c
  <2>2. c \in Nat
    BY <1>1, <2>1
  <2> QED
    BY <2>2 DEF c
<1>3. Bonus(s) \in -500 .. 1000
  BY BonusBounds
<1>4. Bonus(s) \in Int
  BY <1>3
<1> QED
  BY <1>2, <1>3, <1>4

LEMMA RatedType ==
  ASSUME NEW s \in Signals, NEW r \in RawScores
  PROVE  Rated(s, r) \in 0 .. One /\ Rated(s, r) <= Clamp(r) + 1000
<1> DEFINE c == Clamp(r)
           b == Bonus(s)
<1>1. c \in Nat /\ b \in -500 .. 1000
  BY RatedParts
<1>2. c + b \in Int /\ c + 1000 \in Nat /\ c + b <= c + 1000
  <2> HIDE DEF c, b
  <2> QED
    BY <1>1
<1>3. Rated(s, r) = Clamp(c + b)
  BY DEF Rated
<1> HIDE DEF c, b
<1>4. Clamp(c + b) \in 0 .. One /\ Clamp(c + b) <= c + 1000
  BY <1>2, ClampInt
<1> QED
  BY <1>3, <1>4 DEF c

LEMMA RatedOrder ==
  ASSUME NEW s \in Signals, NEW q \in Signals, NEW r \in RawScores, NEW u \in RawScores,
         NoLess(s, q), Clamp(u) <= Clamp(r)
  PROVE  Rated(q, u) <= Rated(s, r)
<1> DEFINE c == Clamp(r)
           d == Clamp(u)
           b == Bonus(s)
           e == Bonus(q)
<1>1. c \in Nat /\ b \in Int
  BY RatedParts
<1>2. d \in Nat /\ e \in Int
  BY RatedParts
<1>3. d <= c /\ e <= b
  BY BonusOrder
<1>4. Rated(s, r) = Clamp(c + b) /\ Rated(q, u) = Clamp(d + e)
  BY DEF Rated
<1> HIDE DEF c, d, b, e
<1>5. d + e \in Int /\ c + b \in Int /\ d + e <= c + b
  BY <1>1, <1>2, <1>3
<1>6. Clamp(d + e) <= Clamp(c + b)
  BY <1>5, ClampInt
<1> QED
  BY <1>4, <1>6

\* What the rules make of the model's answer keeps its order and its distance.
LEMMA ScoresAreSound ==
  ASSUME post.signals \in Signals, raw \in RawScores, score \in Scores(post.signals, raw)
  PROVE  score \in 0 .. One /\ KeepsOrder /\ ModelMeantIt
<1> DEFINE x == Rated(post.signals, raw)
<1>1. x \in 0 .. One /\ x <= Clamp(raw) + 1000 /\ Clamp(raw) \in 0 .. One /\ One \in Nat
  BY RatedType, ClampType, CallsAssumption DEF CallsAssumption
<1>2. score \in Rounded(x)
  BY DEF Scores, Rated
<1>3. score \in 0 .. One /\ score <= x + 5
  BY <1>1, <1>2, RoundedBounds
<1>4. ModelMeantIt
  <2> HIDE DEF x
  <2> QED
    BY <1>1, <1>3, JudgementAssumption DEF JudgementAssumption, ModelMeantIt
<1>5. KeepsOrder
  <2> SUFFICES ASSUME NEW q \in Signals, NEW u \in RawScores,
                      NoLess(post.signals, q), Clamp(u) <= Clamp(raw)
               PROVE  \E t \in Scores(q, u) : t <= score
    BY DEF KeepsOrder
  <2>1. Rated(q, u) \in 0 .. One /\ Rated(q, u) <= x
    BY RatedType, RatedOrder
  <2>2. Scores(q, u) = Rounded(Rated(q, u))
    BY DEF Scores, Rated
  <2> HIDE DEF x
  <2> QED
    BY <1>1, <1>2, <2>1, <2>2, RoundedOrder
<1> QED
  BY <1>3, <1>4, <1>5

--------------------------------------------------------------------------------
(***************************************************************************)
(* The analyzer's chain.  Each call leaves what the next one and the       *)
(* properties rely on; the comparison starts afresh.                       *)
(***************************************************************************)
ChainInv ==
  /\ phase \in {"classify", "score", "qualify", "generate"} =>
       i = 1 /\ best = Zero /\ verdict = "running"
  /\ phase = "qualify" => raw \in RawScores /\ score \in Scores(post.signals, raw)
  /\ phase \in {"generate", "compare", "approved"} => score >= Relevance
  /\ phase \in {"compare", "approved"} =>
       Valid(body) /\ Passes(body, post.title) /\ candidate = body.words
  /\ phase = "approved" => verdict = "different" /\ score >= Confidence

IInv == TypeOK /\ LoopInv /\ ChainInv

LEMMA PostSignals ==
  ASSUME NEW p \in Post \union {NoPost}
  PROVE  p.signals \in Signals
<1>1. CASE p \in Post
  BY <1>1 DEF Post
<1>2. CASE p = NoPost
  BY <1>2 DEF NoPost, Signals
<1> QED
  BY <1>1, <1>2

LEMMA InitIInv == JudgementInit => IInv
<1> SUFFICES ASSUME JudgementInit PROVE IInv
  OBVIOUS
<1>1. TypeOK
  BY CallsAssumption DEF CallsAssumption, JudgementInit, TypeOK, Calls
<1>2. ChainInv
  BY DEF JudgementInit, ChainInv
<1>3. LoopInv
  <2>1. Inputs
    BY DEF JudgementInit, Inputs
  <2>2. Len(History) \in Nat
    BY <2>1, HistoryOfTexts, CheckAssumption
  <2> QED
    BY <2>1, <2>2 DEF JudgementInit, LoopInv, Running, VerdictIsRight
<1> QED
  BY <1>1, <1>2, <1>3 DEF IInv

LEMMA StepIInv == IInv /\ [JudgementNext]_all => IInv'
<1> SUFFICES ASSUME IInv, [JudgementNext]_all PROVE IInv'
  OBVIOUS
<1> USE CallsAssumption, JudgementAssumption DEF CallsAssumption, JudgementAssumption
<1>1. TypeOK /\ LoopInv /\ ChainInv
  BY DEF IInv
<1>2. UNCHANGED vars => LoopInv'
  BY <1>1, StepLoop
<1>3. ASSUME NEW r \in Reply, AskAgain(r) PROVE IInv'
  <2>1. TypeOK'
    BY <1>1, <1>3 DEF AskAgain, GoTo, TypeOK, Calls, Ends, vars
  <2>2. ChainInv'
    BY <1>1, <1>3 DEF AskAgain, GoTo, ChainInv, Calls, vars, Valid, Passes
  <2> QED
    BY <1>2, <1>3, <2>1, <2>2 DEF AskAgain, IInv
<1>4. ASSUME NEW r \in Reply, CallBreaks(r) PROVE IInv'
  <2>1. TypeOK'
    BY <1>1, <1>4 DEF CallBreaks, GoTo, TypeOK, Calls, Ends, vars
  <2>2. ChainInv'
    BY <1>1, <1>4 DEF CallBreaks, GoTo, ChainInv
  <2> QED
    BY <1>2, <1>4, <2>1, <2>2 DEF CallBreaks, IInv
<1>5. ASSUME NEW vacancy \in Truth, NEW budget \in Truth, NEW sure \in BOOLEAN,
             NEW requirements \in BOOLEAN, NEW short \in BOOLEAN, NEW title \in Titles,
             Classify(vacancy, sure, budget, requirements, short, title)
      PROVE IInv'
  <2>1. post' \in Post
    BY <1>5 DEF Classify, Post, Signals, Bool
  <2>2. TypeOK'
    BY <1>1, <1>5, <2>1 DEF Classify, GoTo, TypeOK, Calls, Ends, vars
  <2>3. ChainInv'
    BY <1>1, <1>5 DEF Classify, GoTo, ChainInv, vars
  <2> QED
    BY <1>2, <1>5, <2>2, <2>3 DEF Classify, IInv
<1>6. ASSUME NEW r \in RawScores, ScoreRelevance(r) PROVE IInv'
  <2>1. PICK x \in Scores(post.signals, r) : score' = x
    BY <1>6 DEF ScoreRelevance
  <2>2. score' \in 0 .. One
    BY <1>1, <2>1, PostSignals, RatedType, RoundedBounds DEF TypeOK, Scores, Rated
  <2>3. TypeOK'
    BY <1>1, <1>6, <2>2 DEF ScoreRelevance, GoTo, TypeOK, Calls, Ends, vars
  <2>4. ChainInv'
    BY <1>1, <1>6, <2>1 DEF ScoreRelevance, GoTo, ChainInv, vars
  <2> QED
    BY <1>2, <1>6, <2>3, <2>4 DEF ScoreRelevance, IInv
<1>7. ASSUME Qualify PROVE IInv'
  <2>1. post' \in Post \union {NoPost}
    <3>1. [NoPost EXCEPT !.title = post.title] \in Post \union {NoPost}
      BY <1>1 DEF TypeOK, Post, NoPost, Signals
    <3> QED
      BY <1>1, <1>7, <3>1 DEF Qualify, TypeOK
  <2>2. TypeOK'
    BY <1>1, <1>7, <2>1 DEF Qualify, GoTo, TypeOK, Calls, Ends, vars
  <2>3. ChainInv'
    BY <1>1, <1>7 DEF Qualify, GoTo, ChainInv, TypeOK, vars
  <2> QED
    BY <1>2, <1>7, <2>2, <2>3 DEF Qualify, IInv
<1>8. ASSUME Generate PROVE IInv'
  <2>1. PICK t \in Bodies : body' = t /\ (Refuses(t) \/ Accepts(t))
    BY <1>8 DEF Generate
  <2>2. UNCHANGED <<post, raw, score, i, best, verdict>> /\ phase = "generate"
    BY <1>8 DEF Generate
  <2>3. i = 1 /\ best = Zero /\ verdict = "running" /\ score >= Relevance
    BY <1>1, <2>2 DEF ChainInv
  <2>4. CASE Refuses(t)
    <3>1. TypeOK'
      BY <1>1, <2>1, <2>2, <2>4 DEF Refuses, GoTo, TypeOK, Calls, Ends
    <3>2. ChainInv'
      BY <2>2, <2>4 DEF Refuses, GoTo, ChainInv
    <3> QED
      BY <1>2, <2>2, <2>4, <3>1, <3>2 DEF Refuses, IInv, vars
  <2>5. CASE Accepts(t)
    <3>1. candidate' \in Seq(Words) /\ sent' \in Sent
      BY <2>5 DEF Accepts
    <3>2. TypeOK'
      BY <1>1, <2>1, <2>2, <2>5, <3>1 DEF Accepts, GoTo, TypeOK, Calls, Ends
    <3>3. ChainInv'
      BY <2>1, <2>2, <2>3, <2>5 DEF Accepts, GoTo, ChainInv
    <3>4. Inputs'
      <4>1. sent' \in Seq(Texts) /\ Texts \subseteq Seq(Words)
        BY <3>1, TextsAssumption DEF TextsAssumption
      <4> QED
        BY <3>1, <4>1 DEF Inputs
    <3>5. (Len(History) \in Nat)'
      <4>1. (CheckAssumption /\ Inputs)' => (Len(History) \in Nat)'
        BY HistoryOfTexts
      <4> QED
        BY <3>4, <4>1, CheckAssumption DEF CheckAssumption
    <3>6. LoopInv'
      BY <2>2, <2>3, <3>4, <3>5 DEF LoopInv, Running, VerdictIsRight
    <3> QED
      BY <3>2, <3>3, <3>6 DEF IInv
  <2> QED
    BY <2>1, <2>4, <2>5
<1>9. ASSUME CheckSimilarity PROVE IInv'
  <2>1. Next
    BY <1>9 DEF CheckSimilarity, Next
  <2>2. UNCHANGED <<judging, candidate, sent>> /\ phase = "compare"
    BY <1>9 DEF CheckSimilarity, PassesUncompared, Compare, Conclude
  <2>3. LoopInv'
    BY <1>1, <2>1, StepLoop
  <2>4. TypeOK'
    BY <1>1, <2>2 DEF judging, TypeOK
  <2>5. ChainInv'
    BY <1>1, <2>2 DEF judging, ChainInv
  <2> QED
    BY <2>3, <2>4, <2>5 DEF IInv
<1>10. ASSUME Decide PROVE IInv'
  <2>1. TypeOK'
    BY <1>1, <1>10 DEF Decide, GoTo, TypeOK, Calls, Ends, vars
  <2>2. ChainInv'
    BY <1>1, <1>10 DEF Decide, GoTo, ChainInv, LoopInv, vars
  <2> QED
    BY <1>2, <1>10, <2>1, <2>2 DEF Decide, IInv
<1>11. CASE UNCHANGED all
  BY <1>1, <1>2, <1>11 DEF all, judging, vars, IInv, TypeOK, ChainInv
<1> QED
  BY <1>3, <1>4, <1>5, <1>6, <1>7, <1>8, <1>9, <1>10, <1>11 DEF JudgementNext

LEMMA AlwaysIInv == JudgementSpec => []IInv
BY InitIInv, StepIInv, PTL DEF JudgementSpec

\* Every variable keeps its type; a score lies between zero and one, whatever number,
\* or none, the model gives (client.py, scoring.py).
THEOREM TypeCorrect == JudgementSpec => []TypeOK
<1>1. IInv => TypeOK
  BY DEF IInv
<1> QED
  BY <1>1, AlwaysIInv, PTL

\* In the analyzer's chain too the verdict is the one the definition gives
\* (generate_message.py).
THEOREM JudgedVerdictHolds == JudgementSpec => []VerdictIsRight
<1>1. IInv => VerdictIsRight
  BY DEF IInv, LoopInv
<1> QED
  BY <1>1, AlwaysIInv, PTL

\* Bonuses, clamps and rounding keep the order of what is rated and its distance from
\* the threshold, for every score the model may give (scoring.py, client.py).
THEOREM RatingKeepsOrder == JudgementSpec => []RatingIsSound
<1>1. IInv => RatingIsSound
  BY PostSignals, ScoresAreSound DEF IInv, TypeOK, ChainInv, RatingIsSound
<1> QED
  BY <1>1, AlwaysIInv, PTL

\* What approves itself passed every check there is, for that very text
\* (analyzer_worker.py, generate_message.py).
THEOREM OnlyFitApproves == JudgementSpec => []ApprovedIsFit
<1>1. IInv => ApprovedIsFit
  BY DEF IInv, LoopInv, ChainInv, VerdictIsRight, ApprovedIsFit
<1> QED
  BY <1>1, AlwaysIInv, PTL

================================================================================
