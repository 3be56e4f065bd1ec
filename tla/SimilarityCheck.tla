----------------------------- MODULE SimilarityCheck -----------------------------
(***************************************************************************)
(* Whether a generated text is too similar to those sent before:           *)
(* NGramSimilarityChecker.check on the recent history that                 *)
(* GenerateMessageUseCase takes from the database.  A text is the sequence *)
(* of its words in lower case; a score is a fraction <<over, under>>.      *)
(***************************************************************************)
EXTENDS Integers, Sequences, FiniteSets

CONSTANTS
  Words,
  Texts,      \* the texts there are
  Sent,       \* the lists of texts of SENT outreaches there are
  N,          \* words in a shingle, 3 in the code
  Recent,     \* how many of the texts sent are looked at, 50 in the code
  Threshold   \* settings.similarity_threshold, a fraction in [0, 1]

ASSUME TextsAssumption ==
  /\ Texts \subseteq Seq(Words)
  /\ Sent \subseteq Seq(Texts)

ASSUME CheckAssumption ==
  /\ N \in Nat \ {0}
  /\ Recent \in Nat \ {0}
  /\ Threshold \in Nat \X (Nat \ {0})
  /\ Threshold[1] <= Threshold[2]

VARIABLES
  candidate,
  sent,
  i,         \* the text of the history that is compared next
  best,      \* the best score so far
  verdict    \* "running", or what is_too_similar says

vars == <<candidate, sent, i, best, verdict>>

Zero     == <<0, 1>>
Below(p, q) == p[1] * q[2] < q[1] * p[2]
Reaches(p)  == ~ Below(p, Threshold)

\* A text shorter than a shingle is one itself.
Shingles(t) ==
  IF Len(t) < N
  THEN IF t = <<>> THEN {} ELSE {t}
  ELSE {SubSeq(t, k, k + N - 1) : k \in 1 .. Len(t) - N + 1}

Jaccard(a, b) ==
  IF a = {} /\ b = {} THEN Zero ELSE <<Cardinality(a \intersect b), Cardinality(a \union b)>>

History == IF Len(sent) <= Recent THEN sent ELSE SubSeq(sent, Len(sent) - Recent + 1, Len(sent))

Score(j) == Jaccard(Shingles(candidate), Shingles(History[j]))

Init ==
  /\ candidate \in Texts
  /\ sent \in Sent
  /\ i = 1
  /\ best = Zero
  /\ verdict = "running"

Nothing == Shingles(candidate) = {} \/ History = <<>>

PassesUncompared ==
  /\ verdict = "running" /\ Nothing
  /\ verdict' = "different"
  /\ UNCHANGED <<candidate, sent, i, best>>

\* Mutant: the first text that is compared decides.
CompareFirst ==
  /\ verdict = "running" /\ ~ Nothing
  /\ i <= Len(History)
  /\ i' = i + 1
  /\ best' = Score(i)
  /\ verdict' = IF Reaches(Score(i)) THEN "similar" ELSE "different"
  /\ UNCHANGED <<candidate, sent>>

\* The loop ends early once a better score reaches the threshold.
Compare ==
  /\ verdict = "running" /\ ~ Nothing
  /\ i <= Len(History)
  /\ i' = i + 1
  /\ best' = IF Below(best, Score(i)) THEN Score(i) ELSE best
  /\ verdict' = IF Below(best, Score(i)) /\ Reaches(Score(i)) THEN "similar" ELSE "running"
  /\ UNCHANGED <<candidate, sent>>

Conclude ==
  /\ verdict = "running" /\ ~ Nothing
  /\ i > Len(History)
  /\ verdict' = IF Reaches(best) THEN "similar" ELSE "different"
  /\ UNCHANGED <<candidate, sent, i, best>>

Next == PassesUncompared \/ Compare \/ Conclude

Spec == Init /\ [][Next]_vars

--------------------------------------------------------------------------------
\* What the loop is to compute: one of the recent texts has at least the threshold's
\* share of its shingles, and the candidate's, in common with the candidate.
TooSimilar ==
  /\ candidate # <<>>
  /\ \E j \in 1 .. Len(History) : Reaches(Score(j))

\* The early exit and the running maximum give what the quantifier says, whatever the
\* order of the history, and for thresholds of 0 and 1 as well (ngram.py).
VerdictIsRight == verdict # "running" => (verdict = "similar" <=> TooSimilar)

\* The very words of a recent message never pass, neither those shorter than a shingle
\* nor under the strictest threshold (ngram.py, generate_message.py).
CopyIsCaught ==
  (candidate # <<>> /\ \E j \in 1 .. Len(History) : History[j] = candidate)
    => verdict # "different"

================================================================================
