-------------------------------- MODULE Judgement --------------------------------
(***************************************************************************)
(* How one post is judged: the model says whether it is a vacancy, how     *)
(* relevant it is, and what to write; rules correct the score, two         *)
(* thresholds, the text policies and the similarity check decide.          *)
(*                                                                         *)
(* VacancyPipeline has the rows and the other processes and takes these    *)
(* verdicts as choices; here they are computed.  A body is its words and   *)
(* the places where sentences end: after how many words . ! or ? stands    *)
(* before a space or at the end.                                           *)
(***************************************************************************)
EXTENDS SimilarityCheck, ModelCalls

CONSTANTS
  Bodies,        \* the messages the model writes, stripped and cut
  Titles,        \* the titles it finds, each the set of its words of four letters
  RawScores,     \* the scores it gives, in units of 1/10000
  Forbidden,     \* words of the forbidden phrases
  MinSentences,  \* 2 in the code
  MaxSentences,  \* 5 in the code
  MaxLength,     \* 700 letters in the code, here words and sentence ends
  Relevance,     \* settings.relevance_threshold
  Confidence,    \* settings.confidence_threshold
  AutoApprove    \* settings.auto_approve

ASSUME JudgementAssumption ==
  /\ Bodies \subseteq [words : Seq(Words), ends : SUBSET Nat]
  /\ Titles \subseteq SUBSET Words
  /\ RawScores \subseteq Int \union {NaN}
  /\ One % 10 = 0  \* what round(x, 3) leaves as it is
  /\ Relevance \in 0 .. One /\ Confidence \in 0 .. One
  /\ AutoApprove \in BOOLEAN

VARIABLES
  phase,   \* the call that is made, or how the judgement ended
  asked,   \* replies of the running call that were of no use
  post,    \* what classify_vacancy said of it
  raw,     \* what score_relevance said
  score,   \* leads.score
  body     \* the generated text

judging == <<phase, asked, post, raw, score, body>>
all     == <<judging, vars>>

Calls == {"classify", "score", "generate"}
Ends  == {"dismissed", "rejected", "refused", "similar", "failed", "pending", "approved"}

Signals == [contact : BOOLEAN, requirements : BOOLEAN, budget : BOOLEAN, short : BOOLEAN]
Post    == [signals : Signals, title : Titles]
NoPost  == [signals |-> [contact |-> FALSE, requirements |-> FALSE, budget |-> FALSE,
                         short |-> FALSE],
            title |-> {}]
NoBody  == [words |-> <<>>, ends |-> {}]

TypeOK ==
  /\ phase \in Calls \union {"qualify", "compare"} \union Ends
  /\ asked \in 0 .. Attempts - 1
  /\ post \in Post \union {NoPost}
  /\ raw \in RawScores \union {0}
  /\ score \in 0 .. One
  /\ body \in Bodies \union {NoBody}
  /\ candidate \in Seq(Words)
  /\ sent \in Sent \union {<<>>}

--------------------------------------------------------------------------------
(***************************************************************************)
(* The rules.                                                              *)
(***************************************************************************)

\* Mutant: a vacancy with a budget is rated lower.
BonusLessBudget(s) ==
    (IF s.requirements THEN 300 ELSE 0) + (IF s.contact THEN 400 ELSE 0)
  - (IF s.budget THEN 300 ELSE 0) - (IF s.short THEN 500 ELSE 0)

Bonus(s) ==
    (IF s.requirements THEN 300 ELSE 0) + (IF s.contact THEN 400 ELSE 0)
  + (IF s.budget THEN 300 ELSE 0) - (IF s.short THEN 500 ELSE 0)

\* To three digits; a tie goes where its binary form lies.
Rounded(x) == {y \in {x - (x % 10), x - (x % 10) + 10} : 2 * (x - y) \in -10 .. 10}

Scores(s, r) == Rounded(Clamp(Clamp(r) + Bonus(s)))

\* What stands between two ends, if there is a word in it, is a sentence.
SentenceCount(t) ==
  Cardinality({k \in DOMAIN t.words : k = Len(t.words) \/ k \in t.ends})

Length(t) == Len(t.words) + Cardinality(t.ends)

Mentions(t, words) == \E k \in DOMAIN t.words : t.words[k] \in words

Valid(t) == SentenceCount(t) \in MinSentences .. MaxSentences /\ ~ Mentions(t, Forbidden)

\* A title without a word of four letters asks for nothing.
Passes(t, title) == Length(t) <= MaxLength /\ (title # {} => Mentions(t, title))

--------------------------------------------------------------------------------
(***************************************************************************)
(* The analyzer's chain.                                                   *)
(***************************************************************************)
JudgementInit ==
  /\ phase = "classify" /\ asked = 0
  /\ post = NoPost /\ raw = 0 /\ score = 0 /\ body = NoBody
  /\ candidate = <<>> /\ sent = <<>>
  /\ i = 1 /\ best = Zero /\ verdict = "running"

GoTo(p) == phase' = p /\ asked' = 0

AskAgain(r) ==
  /\ phase \in Calls
  /\ AskedAgain(r)
  /\ IF asked + 1 < Attempts
     THEN asked' = asked + 1 /\ UNCHANGED phase
     ELSE GoTo("failed")
  /\ UNCHANGED <<post, raw, score, body, vars>>

\* An error _chat_json does not catch, or a field that cannot be converted.
CallBreaks(r) ==
  /\ phase \in Calls
  /\ ~ AskedAgain(r)
  /\ GoTo("failed")
  /\ UNCHANGED <<post, raw, score, body, vars>>

Classify(vacancy, sure, budget, requirements, short, title) ==
  /\ phase = "classify"
  /\ post' = [signals |-> [contact |-> TRUE, requirements |-> requirements,
                           budget |-> Bool(budget), short |-> short],
              title |-> title]
  /\ GoTo(IF Bool(vacancy) /\ sure THEN "score" ELSE "dismissed")
  /\ UNCHANGED <<raw, score, body, vars>>

ScoreRelevance(r) ==
  /\ phase = "score"
  /\ raw' = r
  /\ \E x \in Scores(post.signals, r) : score' = x
  /\ GoTo("qualify")
  /\ UNCHANGED <<post, body, vars>>

\* What is rejected keeps nothing but a log line, what qualifies keeps its score.
Qualify ==
  /\ phase = "qualify"
  /\ IF score < Relevance
     THEN GoTo("rejected") /\ UNCHANGED <<post, raw>>
     ELSE /\ GoTo("generate")
          /\ raw' = 0
          /\ post' = [NoPost EXCEPT !.title = post.title]
  /\ UNCHANGED <<score, body, vars>>

\* Mutant: the policies do not look at the text.
GenerateUnchecked ==
  /\ phase = "generate"
  /\ \E t \in Bodies, history \in Sent :
       /\ body' = t
       /\ candidate' = t.words /\ sent' = history
       /\ GoTo("compare")
  /\ UNCHANGED <<post, raw, score, i, best, verdict>>

\* An empty text is no answer; one that is unfit is given up.
Refuses(t) ==
  /\ ~ (Valid(t) /\ Passes(t, post.title))
  /\ GoTo(IF t = NoBody THEN "failed" ELSE "refused")
  /\ UNCHANGED <<candidate, sent>>

Accepts(t) ==
  /\ Valid(t) /\ Passes(t, post.title)
  /\ GoTo("compare")
  /\ candidate' = t.words
  /\ sent' \in Sent

Generate ==
  /\ phase = "generate"
  /\ \E t \in Bodies : body' = t /\ (Refuses(t) \/ Accepts(t))
  /\ UNCHANGED <<post, raw, score, i, best, verdict>>

CheckSimilarity ==
  /\ phase = "compare"
  /\ PassesUncompared \/ Compare \/ Conclude
  /\ UNCHANGED judging

\* A draft, which approves itself or waits for an operator.
Decide ==
  /\ phase = "compare" /\ verdict # "running"
  /\ GoTo(IF verdict = "similar" THEN "similar"
          ELSE IF AutoApprove /\ score >= Confidence THEN "approved" ELSE "pending")
  /\ UNCHANGED <<post, raw, score, body, vars>>

JudgementNext ==
  \/ \E r \in Reply : AskAgain(r) \/ CallBreaks(r)
  \/ \E vacancy, budget \in Truth, sure, requirements, short \in BOOLEAN, title \in Titles :
       Classify(vacancy, sure, budget, requirements, short, title)
  \/ \E r \in RawScores : ScoreRelevance(r)
  \/ Qualify
  \/ Generate
  \/ CheckSimilarity
  \/ Decide

JudgementSpec == JudgementInit /\ [][JudgementNext]_all

--------------------------------------------------------------------------------
(***************************************************************************)
(* What must hold.                                                         *)
(***************************************************************************)

NoLess(s, q) ==
  /\ q.contact => s.contact
  /\ q.requirements => s.requirements
  /\ q.budget => s.budget
  /\ s.short => q.short

\* A vacancy that says less, and that the model likes no better, is not rated higher.
KeepsOrder ==
  \A q \in Signals, r \in RawScores :
    NoLess(post.signals, q) /\ Clamp(r) <= Clamp(raw) => \E s \in Scores(q, r) : s <= score

\* Whoever comes to stand at the confidence threshold was not rated more than a tenth
\* below it; a rating below zero counts as zero, one that is no number as the highest.
ModelMeantIt == score >= Confidence => Clamp(raw) + 1000 + 5 >= Confidence

\* The rules only correct what the model said: bonuses, two clamps and the rounding keep
\* the order of what is rated and its distance from the thresholds (scoring.py "Slight
\* bonus", client.py, qualify_vacancy.py).
RatingIsSound == phase = "qualify" => KeepsOrder /\ ModelMeantIt

\* What approves itself has passed every check there is for that very text: sentences,
\* phrases, length, title, and no recent text like it (analyzer_worker.py).
ApprovedIsFit ==
  phase = "approved" =>
    /\ Valid(body) /\ Passes(body, post.title)
    /\ candidate = body.words /\ ~ TooSimilar
    /\ score >= Confidence /\ score >= Relevance

================================================================================
