-------------------------- MODULE VacancyPipelineProofs --------------------------
(***************************************************************************)
(* For any number of posts, scanners, analyzers, tasks, decisions, faults  *)
(* and crashes: TypeOK, one analyzer takes a post past parsing, a lead     *)
(* agrees with its draft, and only a failure of its own chain leaves work  *)
(* that nobody is at.  With one scanner and no QUALIFY_VACANCY tasks: a    *)
(* later copy is never drafted.                                            *)
(***************************************************************************)
EXTENDS VacancyPipeline, TLAPS

\* An analyzer has a task exactly when it is not idle.
JobInv ==
  \A a \in Analyzers :
    /\ at[a] = "idle" => job[a] = NoTask
    /\ at[a] # "idle" => job[a] \in Task

\* A message is generated for a vacancy, approved for a draft.
ChainInv ==
  \A a \in Analyzers :
    /\ at[a] \in {"generate", "compose", "draft", "announce", "approve"} => vacancy[Post(a)] # "none"
    /\ at[a] = "approve" => draft[Post(a)] # "none"

\* RowsAgree, but for what became of the vacancy.
AgreeInv ==
  \A m \in Posts :
    /\ draft[m] # "none" <=> lead[m] \in {"outreach_drafted", "outreach_approved"}
    /\ draft[m] = "approved" => lead[m] = "outreach_approved"
    /\ draft[m] = "drafted" => lead[m] = "outreach_drafted"
    /\ lead[m] # "none" => vacancy[m] # "none"

\* A call decides on a draft there is.
DecisionInv ==
  \A d \in Decisions : decision[d] # Undecided =>
    decision[d].found = "drafted" /\ draft[decision[d].post] # "none"

IInv == TypeOK /\ JobInv /\ ChainInv /\ OneAnalyzerPerPost /\ AgreeInv /\ DecisionInv

--------------------------------------------------------------------------------
(***************************************************************************)
(* The tables of Transitions, and functions.                               *)
(***************************************************************************)
LEMMA Statuses ==
  /\ {"parsed", "duplicate", "qualified", "rejected"} \subseteq VacancyStatus
  /\ {"qualified", "outreach_drafted", "outreach_approved"} \subseteq LeadStatus
  /\ {"drafted", "approved", "rejected"} \subseteq OutreachStatus
  /\ "none" \notin VacancyStatus /\ "none" \notin LeadStatus /\ "none" \notin OutreachStatus
BY DEF VacancyStatus, LeadStatus, OutreachStatus

LEMMA Replaced ==
  ASSUME NEW S, NEW T, NEW f \in [S -> T], NEW x, NEW v \in T
  PROVE  [f EXCEPT ![x] = v] \in [S -> T]
<1>1. CASE x \in S
  BY <1>1
<1>2. CASE x \notin S
  <2>1. [f EXCEPT ![x] = v] = [y \in S |-> f[y]]
    BY <1>2
  <2> QED
    BY <2>1
<1> QED
  BY <1>1, <1>2

LEMMA Tasks ==
  /\ NoTask \notin Task
  /\ \A t \in Task : t.kind \in {"parse", "qualify"} /\ t.post \in Posts
  /\ \A t \in Task, m \in Posts : t = [kind |-> "parse", post |-> m] <=> t.kind = "parse" /\ t.post = m
BY DEF NoTask, Task

--------------------------------------------------------------------------------
\* Init establishes the invariant.
LEMMA InitIInv == Init => IInv
<1> SUFFICES ASSUME Init PROVE IInv
  OBVIOUS
<1>1. TypeOK
  <2>1. /\ seenAt \in [Posts -> 0 .. MaxScans]
        /\ scan \in [Scanners -> [Posts -> 0 .. MaxScans]]
        /\ clock \in 0 .. MaxScans /\ parses \in 0 .. MaxParses /\ qualifies \in 0 .. MaxQualifies
        /\ faults \in 0 .. MaxFaults /\ crashes \in 0 .. MaxCrashes
    BY BoundsAssumption DEF Init, Unseen
  <2>2. /\ vacancy \in [Posts -> {"none"} \union VacancyStatus]
        /\ lead \in [Posts -> {"none"} \union LeadStatus]
        /\ confident \in [Posts -> BOOLEAN]
        /\ draft \in [Posts -> {"none"} \union OutreachStatus]
        /\ contactRows \in [Contacts -> Nat] /\ optedOut \in [Contacts -> BOOLEAN]
        /\ dlq \subseteq Posts /\ cards \subseteq Posts
    BY DEF Init
  <2>3. /\ tasks \in [Analyzers -> SUBSET Task] /\ at \in [Analyzers -> Steps]
        /\ job \in [Analyzers -> Task \union {NoTask}]
        /\ attempt \in [Analyzers -> 0 .. MaxAttempts]
    BY BoundsAssumption DEF Init, Steps
  <2>4. /\ seen \in [Analyzers -> [contact : BOOLEAN, lead : {"none"} \union LeadStatus]]
        /\ decision \in [Decisions -> Decision \union {Undecided}]
    BY DEF Init, Nothing
  <2> QED
    BY <2>1, <2>2, <2>3, <2>4 DEF TypeOK
<1>2. JobInv /\ ChainInv
  BY DEF Init, JobInv, ChainInv
<1>3. OneAnalyzerPerPost
  BY DEF Init, OneAnalyzerPerPost, Past
<1>4. AgreeInv /\ DecisionInv
  BY DEF Init, AgreeInv, DecisionInv
<1> QED
  BY <1>1, <1>2, <1>3, <1>4 DEF IInv

--------------------------------------------------------------------------------
(***************************************************************************)
(* A step of an analyzer.                                                  *)
(***************************************************************************)
PastSteps == Steps \ {"idle", "parse", "store", "failed"}

\* No vacancy and no draft goes away.
RowsStay ==
  \A m \in Posts : /\ vacancy[m] # "none" => vacancy'[m] # "none"
                   /\ draft[m] # "none" => draft'[m] # "none"

\* Analyzer a moves: it gets past the parsing of a post when it stores the vacancy, or was
\* past it before.
LEMMA AnalyzerMoves ==
  ASSUME IInv, RowsStay, NEW a \in Analyzers, NEW s \in Steps, NEW j \in Task \union {NoTask},
         at' = [at EXCEPT ![a] = s], job' = [job EXCEPT ![a] = j],
         s = "idle" <=> j = NoTask,
         s \in {"generate", "compose", "draft", "announce", "approve"} => vacancy'[j.post] # "none",
         s = "approve" => draft'[j.post] # "none",
         j # NoTask /\ j.kind = "parse" /\ s \in PastSteps =>
           \/ Past(a, j.post)
           \/ vacancy[j.post] = "none" /\ vacancy'[j.post] # "none"
  PROVE  JobInv' /\ ChainInv' /\ OneAnalyzerPerPost'
<1>1. /\ at'[a] = s /\ job'[a] = j
      /\ \A b \in Analyzers \ {a} : at'[b] = at[b] /\ job'[b] = job[b]
  BY DEF IInv, TypeOK
<1>2. JobInv'
  BY <1>1 DEF IInv, JobInv
<1>3. ChainInv'
  <2>1. ASSUME NEW b \in Analyzers \ {a}
        PROVE  /\ at'[b] \in {"generate", "compose", "draft", "announce", "approve"} =>
                    vacancy'[job'[b].post] # "none"
               /\ at'[b] = "approve" => draft'[job'[b].post] # "none"
    BY <1>1, Tasks DEF IInv, JobInv, ChainInv, RowsStay, Post
  <2> QED
    BY <1>1, <2>1 DEF ChainInv, Post
<1>4. OneAnalyzerPerPost'
  <2> SUFFICES ASSUME NEW m \in Posts, NEW b \in Analyzers, Past(b, m)'
               PROVE  vacancy'[m] # "none" /\ \A c \in Analyzers : Past(c, m)' => c = b
    BY DEF OneAnalyzerPerPost
  <2>1. \A c \in Analyzers \ {a} : Past(c, m)' <=> Past(c, m)
    BY <1>1 DEF Past
  <2>2. Past(a, m)' => Past(a, m) \/ (vacancy[m] = "none" /\ vacancy'[m] # "none")
    <3>1. SUFFICES ASSUME Past(a, m)'
                   PROVE  Past(a, m) \/ (vacancy[m] = "none" /\ vacancy'[m] # "none")
      OBVIOUS
    <3>2. j = [kind |-> "parse", post |-> m] /\ s \in PastSteps
      BY <1>1, <3>1 DEF Past, PastSteps
    <3>3. j # NoTask /\ j.kind = "parse" /\ j.post = m
      BY <3>2, Tasks DEF NoTask
    <3> QED
      BY <3>2, <3>3
  <2>3. \A c \in Analyzers : Past(c, m) =>
          vacancy[m] # "none" /\ \A d \in Analyzers : Past(d, m) => d = c
    BY DEF IInv, OneAnalyzerPerPost
  <2> QED
    BY <2>1, <2>2, <2>3 DEF RowsStay
<1> QED
  BY <1>2, <1>3, <1>4

\* Leads and drafts agree as long as they are not written.
LEMMA LeadStays ==
  ASSUME IInv, RowsStay, lead' = lead, \A m \in Posts : draft'[m] = draft[m]
  PROVE  AgreeInv'
BY DEF IInv, AgreeInv, RowsStay

\* So do the decisions.
LEMMA DecidedPosts ==
  ASSUME IInv, NEW d \in Decisions, decision[d] # Undecided
  PROVE  decision[d] \in Decision /\ decision[d].post \in Posts
BY DEF IInv, TypeOK, Decision

LEMMA DecisionsStay ==
  ASSUME IInv, RowsStay, decision' = decision
  PROVE  DecisionInv'
BY DecidedPosts DEF IInv, DecisionInv, RowsStay

Chain == JobInv /\ ChainInv /\ OneAnalyzerPerPost

\* The chain ends, or breaks off.
LEMMA DoneKeeps ==
  ASSUME IInv, RowsStay, NEW a \in Analyzers, Done(a)
  PROVE  Chain'
<1>1. "idle" \in Steps \ PastSteps
  BY DEF Steps, PastSteps
<1> QED
  BY <1>1, AnalyzerMoves DEF Done, Chain

LEMMA FailedKeeps ==
  ASSUME IInv, RowsStay, NEW a \in Analyzers, at[a] # "idle", GoTo(a, "failed")
  PROVE  Chain'
<1>1. "failed" \in Steps \ PastSteps
  BY DEF Steps, PastSteps
<1>2. job[a] \in Task /\ job[a] # NoTask /\ job' = [job EXCEPT ![a] = job[a]]
  BY Tasks DEF IInv, TypeOK, JobInv, GoTo
<1> QED
  BY <1>1, <1>2, AnalyzerMoves DEF GoTo, Chain

\* An analyzer that handles a task goes to the next step.
LEMMA GoesKeeps ==
  ASSUME IInv, RowsStay, NEW a \in Analyzers, at[a] # "idle", NEW s \in Steps \ {"idle"},
         at' = [at EXCEPT ![a] = s], job' = job,
         s \in {"generate", "compose", "draft", "announce", "approve"} => vacancy'[Post(a)] # "none",
         s = "approve" => draft'[Post(a)] # "none",
         s \in PastSteps =>
           \/ at[a] \in PastSteps
           \/ vacancy[Post(a)] = "none" /\ vacancy'[Post(a)] # "none"
  PROVE  Chain'
<1>1. job[a] \in Task /\ job[a] # NoTask /\ job' = [job EXCEPT ![a] = job[a]]
  BY Tasks DEF IInv, TypeOK, JobInv
<1>2. job[a].kind = "parse" => job[a] = [kind |-> "parse", post |-> Post(a)]
  BY <1>1, Tasks DEF Post
<1>3. job[a].kind = "parse" /\ at[a] \in PastSteps => Past(a, Post(a))
  BY <1>2 DEF Past, PastSteps
<1> QED
  BY <1>1, <1>3, AnalyzerMoves DEF Post, Chain

--------------------------------------------------------------------------------
(***************************************************************************)
(* The use cases.                                                          *)
(***************************************************************************)
LEMMA StepNames ==
  /\ {"dedupe", "qualify", "score", "generate", "compose", "draft", "announce", "approve"} = PastSteps
  /\ PastSteps \union {"parse", "store", "failed"} = Steps \ {"idle"}
BY DEF Steps, PastSteps

\* What an analyzer works on is a post.
LEMMA AtWork ==
  ASSUME IInv, NEW a \in Analyzers, at[a] # "idle"
  PROVE  job[a] \in Task /\ Post(a) \in Posts
BY Tasks DEF IInv, JobInv, Post

\* Parsing and deduplication.
LEMMA ParseKeeps ==
  ASSUME IInv, NEW a \in Analyzers,
         ParseDismisses(a) \/ ParseReads(a) \/ ParseStores(a) \/ Dedupe(a)
  PROVE  Chain' /\ AgreeInv' /\ RowsStay
<1>1. at[a] # "idle" /\ Post(a) \in Posts /\ vacancy \in [Posts -> {"none"} \union VacancyStatus]
  BY AtWork DEF IInv, TypeOK, ParseDismisses, ParseReads, ParseStores, Dedupe
<1>2. lead' = lead /\ draft' = draft
  BY DEF ParseDismisses, ParseReads, ParseStores, Dedupe, Raise, rows
<1>3. \/ vacancy' = vacancy
      \/ \E v \in {"parsed", "duplicate"} : vacancy' = [vacancy EXCEPT ![Post(a)] = v]
  BY DEF ParseDismisses, ParseReads, ParseStores, Dedupe, Raise, rows
<1>4. RowsStay
  BY <1>1, <1>2, <1>3 DEF RowsStay
<1>5. AgreeInv'
  BY <1>2, <1>4, LeadStays
<1>6. CASE Done(a)
  BY <1>4, <1>5, <1>6, DoneKeeps
<1>7. CASE GoTo(a, "failed")
  BY <1>1, <1>4, <1>5, <1>7, FailedKeeps
<1>8. CASE ~ Done(a) /\ ~ GoTo(a, "failed")
  <2>1. CASE ParseReads(a)
    <3>1. at' = [at EXCEPT ![a] = "store"] /\ job' = job
      BY <1>8, <2>1 DEF ParseReads, Raise
    <3> QED
      BY <1>1, <1>4, <1>5, <3>1, StepNames, GoesKeeps DEF PastSteps
  <2>2. CASE ParseStores(a)
    <3>1. /\ at' = [at EXCEPT ![a] = "dedupe"] /\ job' = job
          /\ vacancy[Post(a)] = "none" /\ vacancy' = [vacancy EXCEPT ![Post(a)] = "parsed"]
      BY <1>8, <2>2 DEF ParseStores, Raise, GoTo
    <3> QED
      BY <1>1, <1>4, <1>5, <3>1, StepNames, GoesKeeps
  <2>3. CASE Dedupe(a)
    <3>1. at[a] = "dedupe" /\ at' = [at EXCEPT ![a] = "qualify"] /\ job' = job
      BY <1>8, <2>3 DEF Dedupe, Raise, GoTo
    <3> QED
      BY <1>1, <1>4, <1>5, <3>1, StepNames, GoesKeeps
  <2> QED
    BY <1>8, <2>1, <2>2, <2>3 DEF ParseDismisses
<1> QED
  BY <1>6, <1>7, <1>8

\* Qualification.  A lead is created where there is none, and so no draft.
LEMMA QualifyKeeps ==
  ASSUME IInv, NEW a \in Analyzers,
         QualifyReads(a) \/ QualifyRejects(a) \/ \E high \in BOOLEAN : QualifyAccepts(a, high)
  PROVE  Chain' /\ AgreeInv' /\ RowsStay
<1>1. /\ at[a] \in {"qualify", "score"} /\ Post(a) \in Posts
      /\ vacancy \in [Posts -> {"none"} \union VacancyStatus]
      /\ lead \in [Posts -> {"none"} \union LeadStatus]
  BY AtWork DEF IInv, TypeOK, QualifyReads, QualifyRejects, QualifyAccepts
<1>2. draft' = draft
  BY DEF QualifyReads, QualifyRejects, QualifyAccepts, Raise, rows
<1>3. \/ vacancy' = vacancy
      \/ \E v \in {"rejected", "qualified"} : vacancy' = [vacancy EXCEPT ![Post(a)] = v]
  BY DEF QualifyReads, QualifyRejects, QualifyAccepts, Raise, rows
<1>4. RowsStay
  BY <1>1, <1>2, <1>3 DEF RowsStay
<1>5. CASE Done(a) \/ GoTo(a, "failed")
  <2>1. lead' = lead
    BY <1>1, <1>5 DEF QualifyReads, QualifyRejects, QualifyAccepts, Raise, GoTo, Done, rows, IInv, TypeOK
  <2> QED
    BY <1>1, <1>2, <1>4, <1>5, <2>1, LeadStays, DoneKeeps, FailedKeeps
<1>6. CASE ~ Done(a) /\ ~ GoTo(a, "failed")
  <2>1. CASE QualifyReads(a)
    <3>1. /\ lead' = lead /\ vacancy' = vacancy /\ job' = job
          /\ at' = [at EXCEPT ![a] = IF lead[Post(a)] # "none" THEN "generate" ELSE "score"]
      BY <1>6, <2>1 DEF QualifyReads, Raise, GoTo, rows
    <3>2. lead[Post(a)] # "none" => vacancy[Post(a)] # "none"
      BY <1>1 DEF IInv, AgreeInv
    <3>3. Chain'
      <4>1. CASE lead[Post(a)] # "none"
        BY <1>1, <1>4, <3>1, <3>2, <4>1, StepNames, GoesKeeps
      <4>2. CASE lead[Post(a)] = "none"
        BY <1>1, <1>4, <3>1, <4>2, StepNames, GoesKeeps
      <4> QED
        BY <4>1, <4>2
    <3> QED
      BY <1>2, <1>4, <3>1, <3>3, LeadStays
  <2>2. ASSUME NEW high \in BOOLEAN, QualifyAccepts(a, high)
        PROVE  Chain' /\ AgreeInv'
    <3>1. /\ lead[Post(a)] = "none" /\ lead' = [lead EXCEPT ![Post(a)] = "qualified"]
          /\ vacancy' = [vacancy EXCEPT ![Post(a)] = "qualified"]
          /\ at' = [at EXCEPT ![a] = "generate"] /\ job' = job
      BY <1>6, <2>2 DEF QualifyAccepts, Raise, GoTo
    <3>2. vacancy'[Post(a)] = "qualified"
      BY <1>1, <3>1
    <3>3. Chain'
      BY <1>1, <1>4, <3>1, <3>2, StepNames, GoesKeeps
    <3>4. AgreeInv'
      BY <1>1, <1>2, <1>4, <3>1, <3>2 DEF IInv, AgreeInv, RowsStay
    <3> QED
      BY <3>3, <3>4
  <2> QED
    BY <1>4, <1>6, <2>1, <2>2 DEF QualifyRejects
<1> QED
  BY <1>4, <1>5, <1>6

\* Generation.  The lead moves on with its draft.
LEMMA GenerateKeeps ==
  ASSUME IInv, NEW a \in Analyzers,
         GenerateReads(a) \/ GenerateRefuses(a) \/ GenerateLooksUp(a) \/ GenerateWrites(a)
  PROVE  Chain' /\ AgreeInv' /\ RowsStay
<1>1. /\ at[a] \in {"generate", "compose", "draft"} /\ Post(a) \in Posts
      /\ vacancy[Post(a)] # "none"
      /\ lead \in [Posts -> {"none"} \union LeadStatus]
      /\ draft \in [Posts -> {"none"} \union OutreachStatus]
  BY AtWork DEF IInv, TypeOK, ChainInv, GenerateReads, GenerateRefuses, GenerateLooksUp, GenerateWrites
<1>2. vacancy' = vacancy
  BY DEF GenerateReads, GenerateRefuses, GenerateLooksUp, GenerateWrites, Raise, rows
<1>3. CASE lead' = lead /\ draft' = draft
  <2>1. RowsStay
    BY <1>2, <1>3 DEF RowsStay
  <2>2. AgreeInv'
    BY <1>3, <2>1, LeadStays
  <2>3. CASE Done(a) \/ GoTo(a, "failed")
    BY <1>1, <2>1, <2>2, <2>3, DoneKeeps, FailedKeeps
  <2>4. CASE ~ Done(a) /\ ~ GoTo(a, "failed")
    <3>1. PICK s \in {"compose", "draft", "announce"} : at' = [at EXCEPT ![a] = s] /\ job' = job
      <4>1. CASE GenerateReads(a)
        BY <2>4, <4>1 DEF GenerateReads, Raise
      <4>2. CASE GenerateLooksUp(a)
        BY <4>2 DEF GenerateLooksUp, GoTo
      <4>3. CASE GenerateWrites(a)
        BY <2>4, <4>3 DEF GenerateWrites, Raise, GoTo
      <4> QED
        BY <2>4, <4>1, <4>2, <4>3 DEF GenerateRefuses
    <3> QED
      BY <1>1, <1>2, <2>1, <2>2, <3>1, StepNames, GoesKeeps
  <2> QED
    BY <2>1, <2>2, <2>3, <2>4
<1>4. CASE ~ (lead' = lead /\ draft' = draft)
  <2>1. GenerateWrites(a) /\ draft[Post(a)] = "none"
    BY <1>4 DEF GenerateReads, GenerateRefuses, GenerateLooksUp, GenerateWrites, Raise, rows
  <2>2. PICK d \in {"drafted", "rejected"} : draft' = [draft EXCEPT ![Post(a)] = d]
    BY <1>4, <2>1 DEF GenerateWrites, Raise, rows
  <2>3. /\ lead' = [lead EXCEPT ![Post(a)] = "outreach_drafted"]
        /\ at' = [at EXCEPT ![a] = "announce"] /\ job' = job
    BY <1>4, <2>1 DEF GenerateWrites, Raise, GoTo, rows
  <2>4. RowsStay
    BY <1>1, <1>2, <2>2 DEF RowsStay
  <2>5. Chain'
    BY <1>1, <1>2, <2>3, <2>4, StepNames, GoesKeeps
  <2>6. AgreeInv'
    BY <1>1, <1>2, <2>2, <2>3 DEF IInv, AgreeInv
  <2> QED
    BY <2>4, <2>5, <2>6
<1> QED
  BY <1>3, <1>4

\* The announcement, and the approval of a confident lead.
LEMMA AnnounceKeeps ==
  ASSUME IInv, NEW a \in Analyzers,
         Announce(a) \/ AnnounceFails(a) \/ ApproveReads(a) \/ ApproveCommits(a)
  PROVE  Chain' /\ AgreeInv' /\ RowsStay
<1>1. /\ at[a] \in {"announce", "approve"} /\ Post(a) \in Posts /\ vacancy[Post(a)] # "none"
      /\ lead \in [Posts -> {"none"} \union LeadStatus]
      /\ draft \in [Posts -> {"none"} \union OutreachStatus]
  BY AtWork DEF IInv, TypeOK, ChainInv, Announce, AnnounceFails, ApproveReads, ApproveCommits
<1>2. vacancy' = vacancy
  BY DEF Announce, AnnounceFails, ApproveReads, ApproveCommits, rows
<1>3. CASE Announce(a) \/ AnnounceFails(a) \/ ApproveReads(a)
  <2>1. lead' = lead /\ draft' = draft
    BY <1>3 DEF Announce, AnnounceFails, ApproveReads, rows
  <2>2. RowsStay
    BY <1>2, <2>1 DEF RowsStay
  <2>3. CASE Done(a)
    BY <2>1, <2>2, <2>3, LeadStays, DoneKeeps
  <2>4. CASE ~ Done(a)
    <3>1. draft[Post(a)] = "drafted" /\ at' = [at EXCEPT ![a] = "approve"] /\ job' = job
      BY <1>3, <2>4 DEF Announce, AnnounceFails, ApproveReads, GoTo
    <3>2. Chain'
      BY <1>1, <1>2, <2>1, <2>2, <3>1, StepNames, GoesKeeps
    <3> QED
      BY <2>1, <2>2, <3>2, LeadStays
  <2> QED
    BY <2>3, <2>4
<1>4. CASE ApproveCommits(a)
  <2>1. /\ draft[Post(a)] # "none" /\ Done(a)
        /\ draft' = [draft EXCEPT ![Post(a)] = "approved"]
        /\ lead' = [lead EXCEPT ![Post(a)] = "outreach_approved"]
    BY <1>4 DEF ApproveCommits, IInv, ChainInv
  <2>2. RowsStay
    BY <1>1, <1>2, <2>1 DEF RowsStay
  <2>3. AgreeInv'
    BY <1>1, <1>2, <2>1 DEF IInv, AgreeInv
  <2> QED
    BY <2>1, <2>2, <2>3, DoneKeeps
<1> QED
  BY <1>3, <1>4

\* Failures, retries, crashes: no row is written.
LEMMA FailureKeeps ==
  ASSUME IInv, NEW a \in Analyzers,
         StepFails(a) \/ Retry(a) \/ DeadLetter(a) \/ QualifyLost(a) \/ Crash(a)
  PROVE  Chain' /\ AgreeInv' /\ RowsStay
<1>1. UNCHANGED rows
  BY DEF StepFails, Retry, DeadLetter, QualifyLost, Crash
<1>2. RowsStay /\ AgreeInv'
  BY <1>1, LeadStays DEF RowsStay, rows
<1>3. CASE DeadLetter(a) \/ QualifyLost(a) \/ Crash(a)
  BY <1>2, <1>3, DoneKeeps DEF DeadLetter, QualifyLost, Crash
<1>4. CASE StepFails(a)
  BY <1>2, <1>4, FailedKeeps DEF StepFails
<1>5. CASE Retry(a)
  <2>1. at[a] # "idle" /\ at' = [at EXCEPT ![a] = "parse"] /\ job' = job
    BY <1>5 DEF Retry
  <2> QED
    BY <1>2, <2>1, StepNames, GoesKeeps DEF PastSteps
<1> QED
  BY <1>2, <1>3, <1>4, <1>5

LEMMA TakeKeeps ==
  ASSUME IInv, NEW a \in Analyzers, Take(a)
  PROVE  Chain' /\ AgreeInv' /\ RowsStay
<1>1. UNCHANGED rows
  BY DEF Take
<1>2. RowsStay /\ AgreeInv'
  BY <1>1, LeadStays DEF RowsStay, rows
<1>3. PICK t \in tasks[a] : /\ job' = [job EXCEPT ![a] = t]
                           /\ at' = [at EXCEPT ![a] = IF t.kind = "parse" THEN "parse" ELSE "qualify"]
  BY DEF Take
<1>4. t \in Task /\ t # NoTask
  BY Tasks DEF IInv, TypeOK
<1>5. CASE t.kind = "parse"
  BY <1>2, <1>3, <1>4, <1>5, AnalyzerMoves DEF Steps, PastSteps, Chain
<1>6. CASE t.kind # "parse"
  BY <1>2, <1>3, <1>4, <1>6, AnalyzerMoves DEF Steps, PastSteps, Chain
<1> QED
  BY <1>2, <1>5, <1>6

\* Operators and recipients.
Deciding ==
  \/ \E d \in Decisions :
       \/ DecisionCommits(d) \/ DecisionFails(d)
       \/ \E m \in Posts, to \in {"approved", "rejected"} : DecisionReads(d, m, to)
  \/ \E m \in Posts : OptOut(m)

\* What a decision on the draft of m writes.
Writing(m) ==
  /\ draft[m] # "none"
  /\ \/ /\ draft' = [draft EXCEPT ![m] = "approved"]
        /\ lead' = [lead EXCEPT ![m] = "outreach_approved"]
     \/ /\ draft' = [draft EXCEPT ![m] = "rejected"]
        /\ lead' = lead

LEMMA DecisionWrites ==
  ASSUME IInv, Deciding
  PROVE  /\ UNCHANGED <<scanning, vacancy, confident, contactRows, dlq, cards, tasks, analyzer>>
         /\ (lead' = lead /\ draft' = draft) \/ \E m \in Posts : Writing(m)
<1>1. ASSUME NEW d \in Decisions, DecisionCommits(d)
      PROVE  \E m \in Posts : Writing(m)
  <2>1. decision[d] \in Decision /\ draft[decision[d].post] # "none"
    BY <1>1 DEF DecisionCommits, IInv, TypeOK, DecisionInv
  <2>2. decision[d].post \in Posts /\ decision[d].to \in {"approved", "rejected"}
    BY <2>1 DEF Decision
  <2> QED
    BY <1>1, <2>1, <2>2 DEF DecisionCommits, Writing
<1>2. UNCHANGED <<scanning, vacancy, confident, contactRows, dlq, cards, tasks, analyzer>>
  BY DEF Deciding, DecisionCommits, DecisionFails, DecisionReads, OptOut, rows
<1> QED
  BY <1>1, <1>2 DEF Deciding, DecisionFails, DecisionReads, OptOut, rows

LEMMA DecisionKeeps ==
  ASSUME IInv, Deciding
  PROVE  Chain' /\ AgreeInv' /\ DecisionInv' /\ RowsStay
<1>1. /\ vacancy' = vacancy /\ UNCHANGED analyzer
      /\ draft \in [Posts -> {"none"} \union OutreachStatus]
      /\ lead \in [Posts -> {"none"} \union LeadStatus]
      /\ (lead' = lead /\ draft' = draft) \/ \E m \in Posts : Writing(m)
  BY DecisionWrites DEF IInv, TypeOK
<1>2. RowsStay
  BY <1>1 DEF RowsStay, Writing
<1>3. AgreeInv'
  <2>1. CASE lead' = lead /\ draft' = draft
    BY <1>2, <2>1, LeadStays
  <2>2. ASSUME NEW m \in Posts, Writing(m) PROVE AgreeInv'
    BY <1>1, <2>2 DEF Writing, IInv, AgreeInv
  <2> QED
    BY <1>1, <2>1, <2>2
<1>4. JobInv' /\ OneAnalyzerPerPost'
  BY <1>1 DEF IInv, JobInv, OneAnalyzerPerPost, Past, analyzer
<1>5. ChainInv'
  <2> SUFFICES ASSUME NEW a \in Analyzers
               PROVE  /\ at'[a] \in {"generate", "compose", "draft", "announce", "approve"} =>
                           vacancy'[job'[a].post] # "none"
                      /\ at'[a] = "approve" => draft'[job'[a].post] # "none"
    BY DEF ChainInv, Post
  <2>1. at'[a] = at[a] /\ job'[a] = job[a]
    BY <1>1 DEF analyzer
  <2>2. at[a] # "idle" => job[a].post \in Posts
    BY AtWork DEF Post
  <2> QED
    BY <1>1, <1>2, <2>1, <2>2 DEF IInv, ChainInv, RowsStay, Post
<1>6. DecisionInv'
  <2>1. CASE decision' = decision
    BY <1>2, <2>1, DecisionsStay
  <2>2. ASSUME NEW d \in Decisions, decision' = [decision EXCEPT ![d] = Undecided]
        PROVE  DecisionInv'
    <3>1. \A e \in Decisions : decision'[e] # Undecided => decision'[e] = decision[e]
      BY <2>2 DEF IInv, TypeOK
    <3> QED
      BY <1>2, <3>1, DecidedPosts DEF IInv, DecisionInv, RowsStay
  <2>3. ASSUME NEW d \in Decisions, NEW m \in Posts, NEW to \in {"approved", "rejected"},
               DecisionReads(d, m, to)
        PROVE  DecisionInv'
    <3>1. /\ draft[m] = "drafted" /\ draft' = draft
          /\ \A e \in Decisions : decision'[e] =
               IF e = d THEN [to |-> to, post |-> m, found |-> draft[m]] ELSE decision[e]
      BY <2>3 DEF DecisionReads, rows, IInv, TypeOK
    <3> QED
      BY <3>1 DEF IInv, DecisionInv
  <2> QED
    BY <2>1, <2>2, <2>3 DEF Deciding, DecisionCommits, DecisionFails, OptOut
<1> QED
  BY <1>2, <1>3, <1>4, <1>5, <1>6 DEF Chain

\* The scanners and the tasks that are given out.
LEMMA RestKeeps ==
  ASSUME IInv, UNCHANGED <<rows, analyzer>>
  PROVE  Chain' /\ AgreeInv' /\ RowsStay
<1>1. RowsStay /\ AgreeInv'
  BY LeadStays DEF RowsStay, rows
<1>2. JobInv' /\ OneAnalyzerPerPost' /\ ChainInv'
  BY DEF IInv, JobInv, ChainInv, OneAnalyzerPerPost, Past, Post, analyzer, rows
<1> QED
  BY <1>1, <1>2 DEF Chain

--------------------------------------------------------------------------------
(***************************************************************************)
(* Types.                                                                  *)
(***************************************************************************)
ScanOK ==
  /\ seenAt \in [Posts -> 0 .. MaxScans] /\ clock \in 0 .. MaxScans
  /\ scan \in [Scanners -> [Posts -> 0 .. MaxScans]]

\* A bounded counter is counted up to its bound.
LEMMA Counted ==
  ASSUME NEW max \in Nat, NEW n \in 0 .. max, NEW next, next = n \/ (n < max /\ next = n + 1)
  PROVE  next \in 0 .. max
OBVIOUS

LEMMA ScanTypes ==
  ASSUME TypeOK, NEW s \in Scanners,
         ScanCommits(s) \/ ScanFails(s) \/ \E found \in Fetched : ScanChannel(s, found)
  PROVE  TypeOK'
<1>1. /\ seenAt \in [Posts -> 0 .. MaxScans] /\ clock \in 0 .. MaxScans /\ MaxScans \in Nat
      /\ scan \in [Scanners -> [Posts -> 0 .. MaxScans]]
      /\ Unseen \in [Posts -> 0 .. MaxScans]
  BY BoundsAssumption DEF TypeOK, Unseen
<1>2. UNCHANGED <<rows, dlq, cards, tasks, analyzer, decision, parses, qualifies, crashes>>
  BY DEF ScanCommits, ScanFails, ScanChannel, env
<1>3. faults' \in 0 .. MaxFaults
  <2>1. faults' = faults \/ (faults < MaxFaults /\ faults' = faults + 1)
    BY DEF ScanCommits, ScanFails, ScanChannel, env
  <2> QED
    BY <2>1, BoundsAssumption, Counted DEF TypeOK
<1>4. ScanOK'
  <2>1. CASE ScanCommits(s)
    <3>1. scan' = [scan EXCEPT ![s] = Unseen] /\ clock' = clock
      BY <2>1 DEF ScanCommits
    <3>2. \/ seenAt' = seenAt
          \/ seenAt' = [m \in Posts |-> IF scan[s][m] > 0 THEN scan[s][m] ELSE seenAt[m]]
      BY <2>1 DEF ScanCommits
    <3>3. seenAt' \in [Posts -> 0 .. MaxScans]
      BY <1>1, <3>2
    <3> QED
      BY <1>1, <3>1, <3>3 DEF ScanOK
  <2>2. CASE ScanFails(s)
    <3>1. scan' = [scan EXCEPT ![s] = Unseen] /\ clock' = clock /\ seenAt' = seenAt
      BY <2>2 DEF ScanFails
    <3> QED
      BY <1>1, <3>1 DEF ScanOK
  <2>3. ASSUME NEW found \in Fetched, ScanChannel(s, found)
        PROVE  ScanOK'
    <3>1. /\ clock < MaxScans /\ clock' = clock + 1 /\ seenAt' = seenAt
          /\ scan' = [scan EXCEPT ![s] = [m \in Posts |->
                        IF m \in found \intersect Unstored(s) THEN clock' ELSE scan[s][m]]]
      BY <2>3 DEF ScanChannel
    <3>2. clock' \in 0 .. MaxScans
      BY <1>1, <3>1
    <3>3. [m \in Posts |-> IF m \in found \intersect Unstored(s) THEN clock' ELSE scan[s][m]]
            \in [Posts -> 0 .. MaxScans]
      BY <1>1, <3>2
    <3> QED
      BY <1>1, <3>1, <3>2, <3>3 DEF ScanOK
  <2> QED
    BY <2>1, <2>2, <2>3
<1> QED
  BY <1>2, <1>3, <1>4 DEF ScanOK, TypeOK, rows, analyzer

LEMMA TaskTypes ==
  ASSUME TypeOK, NEW a \in Analyzers, Take(a) \/ \E m \in Posts : ParseTask(a, m) \/ QualifyTask(a, m)
  PROVE  TypeOK'
<1>1. UNCHANGED <<scanning, rows, dlq, cards, seen, decision, faults, crashes>>
  BY DEF Take, ParseTask, QualifyTask, analyzer, env
<1>2. parses' \in 0 .. MaxParses /\ qualifies' \in 0 .. MaxQualifies
  <2>1. /\ parses' = parses \/ (parses < MaxParses /\ parses' = parses + 1)
        /\ qualifies' = qualifies \/ (qualifies < MaxQualifies /\ qualifies' = qualifies + 1)
    BY DEF Take, ParseTask, QualifyTask, env
  <2> QED
    BY <2>1, BoundsAssumption, Counted DEF TypeOK
<1>3. tasks' \in [Analyzers -> SUBSET Task]
  <2>1. PICK t \in Task : \/ tasks' = [tasks EXCEPT ![a] = tasks[a] \union {t}]
                        \/ tasks' = [tasks EXCEPT ![a] = tasks[a] \ {t}]
    <3>1. CASE Take(a)
      BY <3>1 DEF Take, TypeOK
    <3>2. ASSUME NEW m \in Posts, ParseTask(a, m) \/ QualifyTask(a, m)
          PROVE  \E t \in Task : tasks' = [tasks EXCEPT ![a] = tasks[a] \union {t}]
      <4>1. [kind |-> "parse", post |-> m] \in Task /\ [kind |-> "qualify", post |-> m] \in Task
        BY DEF Task
      <4> QED
        BY <3>2, <4>1 DEF ParseTask, QualifyTask
    <3> QED
      BY <3>1, <3>2
  <2>2. tasks \in [Analyzers -> SUBSET Task]
    BY DEF TypeOK
  <2>3. tasks[a] \union {t} \in SUBSET Task /\ tasks[a] \ {t} \in SUBSET Task
    BY <2>2
  <2> QED
    BY <2>1, <2>2, <2>3
<1>4. /\ at' \in [Analyzers -> Steps] /\ job' \in [Analyzers -> Task \union {NoTask}]
      /\ attempt' \in [Analyzers -> 0 .. MaxAttempts]
  <2>1. CASE Take(a)
    <3>1. PICK t \in tasks[a] :
            /\ job' = [job EXCEPT ![a] = t] /\ attempt' = [attempt EXCEPT ![a] = 1]
            /\ at' = [at EXCEPT ![a] = IF t.kind = "parse" THEN "parse" ELSE "qualify"]
      BY <2>1 DEF Take
    <3>2. 1 \in 0 .. MaxAttempts /\ t \in Task
      BY BoundsAssumption DEF TypeOK
    <3>3. {"parse", "qualify"} \subseteq Steps
      BY DEF Steps
    <3> QED
      BY <3>1, <3>2, <3>3 DEF TypeOK
  <2>2. CASE ~ Take(a)
    BY <2>2 DEF ParseTask, QualifyTask, analyzer, TypeOK
  <2> QED
    BY <2>1, <2>2
<1> QED
  BY <1>1, <1>2, <1>3, <1>4 DEF TypeOK, scanning, rows

LEMMA DecisionTypes ==
  ASSUME IInv, Deciding
  PROVE  TypeOK'
<1>1. UNCHANGED <<scanning, vacancy, confident, contactRows, dlq, cards, tasks, analyzer>>
  BY DecisionWrites
<1>2. /\ lead \in [Posts -> {"none"} \union LeadStatus]
      /\ draft \in [Posts -> {"none"} \union OutreachStatus]
      /\ optedOut \in [Contacts -> BOOLEAN]
      /\ decision \in [Decisions -> Decision \union {Undecided}]
  BY DEF IInv, TypeOK
<1>3. /\ lead' \in [Posts -> {"none"} \union LeadStatus]
      /\ draft' \in [Posts -> {"none"} \union OutreachStatus]
  <2>1. CASE lead' = lead /\ draft' = draft
    BY <1>2, <2>1
  <2>2. ASSUME NEW m \in Posts, Writing(m)
        PROVE  /\ lead' \in [Posts -> {"none"} \union LeadStatus]
               /\ draft' \in [Posts -> {"none"} \union OutreachStatus]
    <3>1. lead' \in [Posts -> {"none"} \union LeadStatus]
      BY <1>2, <2>2, Statuses, Replaced DEF Writing
    <3>2. draft' \in [Posts -> {"none"} \union OutreachStatus]
      BY <1>2, <2>2, Statuses, Replaced DEF Writing
    <3> QED
      BY <3>1, <3>2
  <2> QED
    BY <2>1, <2>2, DecisionWrites
<1>4. optedOut' \in [Contacts -> BOOLEAN]
  <2>1. optedOut' = optedOut \/ \E m \in Posts : optedOut' = [optedOut EXCEPT ![ContactOf[m]] = TRUE]
    BY DEF Deciding, DecisionCommits, DecisionFails, DecisionReads, OptOut, rows
  <2> QED
    BY <1>2, <2>1, Replaced
<1>5. decision' \in [Decisions -> Decision \union {Undecided}]
  <2>1. ASSUME NEW d \in Decisions, NEW m \in Posts, NEW to \in {"approved", "rejected"},
               DecisionReads(d, m, to)
        PROVE  decision' \in [Decisions -> Decision \union {Undecided}]
    <3>1. draft[m] \in OutreachStatus
      BY <2>1, Statuses DEF DecisionReads
    <3>2. [to |-> to, post |-> m, found |-> draft[m]] \in Decision
      BY <3>1 DEF Decision
    <3> QED
      BY <1>2, <2>1, <3>2 DEF DecisionReads
  <2>2. CASE \E d \in Decisions : decision' = [decision EXCEPT ![d] = Undecided]
    BY <1>2, <2>2
  <2>3. CASE decision' = decision
    BY <1>2, <2>3
  <2> QED
    BY <2>1, <2>2, <2>3 DEF Deciding, DecisionCommits, DecisionFails, OptOut
<1>6. /\ parses' \in 0 .. MaxParses /\ qualifies' \in 0 .. MaxQualifies
      /\ faults' \in 0 .. MaxFaults /\ crashes' \in 0 .. MaxCrashes
  <2>1. /\ UNCHANGED <<parses, qualifies, crashes>>
        /\ faults' = faults \/ (faults < MaxFaults /\ faults' = faults + 1)
    BY DEF Deciding, DecisionCommits, DecisionFails, DecisionReads, OptOut, env
  <2> QED
    BY <2>1, BoundsAssumption, Counted DEF IInv, TypeOK
<1> QED
  BY <1>1, <1>3, <1>4, <1>5, <1>6 DEF IInv, TypeOK, scanning, analyzer

RowsOK ==
  /\ vacancy \in [Posts -> {"none"} \union VacancyStatus]
  /\ lead \in [Posts -> {"none"} \union LeadStatus]
  /\ confident \in [Posts -> BOOLEAN]
  /\ draft \in [Posts -> {"none"} \union OutreachStatus]
  /\ contactRows \in [Contacts -> Nat]
  /\ optedOut \in [Contacts -> BOOLEAN]

AnalyzerOK ==
  /\ at \in [Analyzers -> Steps]
  /\ job \in [Analyzers -> Task \union {NoTask}]
  /\ attempt \in [Analyzers -> 0 .. MaxAttempts]
  /\ seen \in [Analyzers -> [contact : BOOLEAN, lead : {"none"} \union LeadStatus]]

LEMMA NewContactType ==
  ASSUME RowsOK, NEW a \in Analyzers
  PROVE  NewContact(a) \in [Contacts -> Nat]
<1>1. contactRows \in [Contacts -> Nat]
  BY DEF RowsOK
<1>2. CASE Contact(a) \in Contacts
  BY <1>1, <1>2 DEF NewContact
<1>3. CASE Contact(a) \notin Contacts
  <2>1. NewContact(a) = contactRows
    BY <1>1, <1>3 DEF NewContact
  <2> QED
    BY <1>1, <2>1
<1> QED
  BY <1>2, <1>3

\* What the use cases write.
LEMMA RowTypes ==
  ASSUME TypeOK, NEW a \in Analyzers, Analyze(a)
  PROVE  RowsOK'
<1>0. RowsOK
  BY DEF TypeOK, RowsOK
<1>1. CASE ParseStores(a) \/ Dedupe(a) \/ QualifyReads(a) \/ QualifyRejects(a)
  <2>1. /\ \/ vacancy' = vacancy
           \/ \E v \in {"parsed", "duplicate", "rejected"} :
                vacancy' = [vacancy EXCEPT ![Post(a)] = v]
        /\ contactRows' = contactRows \/ contactRows' = NewContact(a)
        /\ UNCHANGED <<lead, confident, draft, optedOut>>
    BY <1>1 DEF ParseStores, Dedupe, QualifyReads, QualifyRejects, Raise, rows
  <2>2. vacancy' \in [Posts -> {"none"} \union VacancyStatus]
    BY <1>0, <2>1, Statuses, Replaced DEF RowsOK
  <2> QED
    BY <1>0, <2>1, <2>2, NewContactType DEF RowsOK
<1>2. ASSUME NEW high \in BOOLEAN, QualifyAccepts(a, high) PROVE RowsOK'
  <2>1. CASE UNCHANGED rows
    BY <1>0, <2>1 DEF RowsOK, rows
  <2>2. CASE ~ UNCHANGED rows
    <3>1. /\ lead' = [lead EXCEPT ![Post(a)] = "qualified"]
          /\ confident' = [confident EXCEPT ![Post(a)] = high]
          /\ vacancy' = [vacancy EXCEPT ![Post(a)] = "qualified"]
          /\ UNCHANGED <<draft, contactRows, optedOut>>
      BY <1>2, <2>2 DEF QualifyAccepts, Raise
    <3>2. lead' \in [Posts -> {"none"} \union LeadStatus]
      BY <1>0, <3>1, Statuses, Replaced DEF RowsOK
    <3>3. confident' \in [Posts -> BOOLEAN]
      BY <1>0, <3>1, Replaced DEF RowsOK
    <3>4. vacancy' \in [Posts -> {"none"} \union VacancyStatus]
      BY <1>0, <3>1, Statuses, Replaced DEF RowsOK
    <3> QED
      BY <1>0, <3>1, <3>2, <3>3, <3>4 DEF RowsOK
  <2> QED
    BY <2>1, <2>2
<1>3. CASE GenerateWrites(a) \/ ApproveCommits(a)
  <2>1. CASE UNCHANGED rows
    BY <1>0, <2>1 DEF RowsOK, rows
  <2>2. CASE ~ UNCHANGED rows
    <3>1. /\ \E l \in {"outreach_drafted", "outreach_approved"} : lead' = [lead EXCEPT ![Post(a)] = l]
          /\ \E d \in {"drafted", "rejected", "approved"} : draft' = [draft EXCEPT ![Post(a)] = d]
          /\ UNCHANGED <<vacancy, confident, contactRows, optedOut>>
      BY <1>3, <2>2 DEF GenerateWrites, ApproveCommits, Raise
    <3>2. lead' \in [Posts -> {"none"} \union LeadStatus]
      BY <1>0, <3>1, Statuses, Replaced DEF RowsOK
    <3>3. draft' \in [Posts -> {"none"} \union OutreachStatus]
      BY <1>0, <3>1, Statuses, Replaced DEF RowsOK
    <3> QED
      BY <1>0, <3>1, <3>2, <3>3 DEF RowsOK
  <2> QED
    BY <2>1, <2>2
<1>4. CASE \/ ParseDismisses(a) \/ ParseReads(a) \/ GenerateReads(a) \/ GenerateRefuses(a)
           \/ GenerateLooksUp(a) \/ Announce(a) \/ ApproveReads(a)
           \/ Retry(a) \/ DeadLetter(a) \/ QualifyLost(a)
  <2>1. UNCHANGED rows
    BY <1>4 DEF ParseDismisses, ParseReads, GenerateReads, GenerateRefuses, GenerateLooksUp, Announce,
                ApproveReads, Retry, DeadLetter, QualifyLost, Raise, rows
  <2> QED
    BY <1>0, <2>1 DEF RowsOK, rows
<1> QED
  BY <1>1, <1>2, <1>3, <1>4 DEF Analyze

\* What a use case read is a pair of these.
SeenRow == [contact : BOOLEAN, lead : {"none"} \union LeadStatus]

LEMMA SeenChanges ==
  ASSUME NEW r \in SeenRow, NEW c \in BOOLEAN, NEW l \in {"none"} \union LeadStatus
  PROVE  [r EXCEPT !.contact = c] \in SeenRow /\ [r EXCEPT !.lead = l] \in SeenRow
BY DEF SeenRow

\* Where the analyzer goes.
LEMMA AnalyzerTypes ==
  ASSUME IInv, NEW a \in Analyzers,
         \/ Done(a)
         \/ \E s \in Steps : GoTo(a, s)
         \/ ParseReads(a) \/ GenerateReads(a) \/ Retry(a)
  PROVE  AnalyzerOK'
<1>0. AnalyzerOK
  BY DEF IInv, TypeOK, AnalyzerOK
<1>1. CASE Done(a)
  <2>1. "idle" \in Steps /\ 0 \in 0 .. MaxAttempts
        /\ Nothing \in [contact : BOOLEAN, lead : {"none"} \union LeadStatus]
    BY BoundsAssumption DEF Steps, Nothing
  <2> QED
    BY <1>0, <1>1, <2>1 DEF AnalyzerOK, Done
<1>2. ASSUME NEW s \in Steps, GoTo(a, s) PROVE AnalyzerOK'
  BY <1>0, <1>2 DEF AnalyzerOK, GoTo
<1>3. CASE (ParseReads(a) \/ GenerateReads(a)) /\ ~ Done(a) /\ ~ GoTo(a, "failed")
  <2>1. at[a] # "idle" /\ \E s \in {"store", "compose"} : at' = [at EXCEPT ![a] = s]
        /\ UNCHANGED <<job, attempt>>
    BY <1>3 DEF ParseReads, GenerateReads, Raise
  <2>2. lead[Post(a)] \in {"none"} \union LeadStatus
    BY <2>1, AtWork DEF IInv, TypeOK
  <2>3. PICK r \in SeenRow : seen' = [seen EXCEPT ![a] = r]
    <3>1. seen[a] \in SeenRow
      BY <1>0 DEF AnalyzerOK, SeenRow
    <3>2. CASE ParseReads(a)
      <4>1. seen' = [seen EXCEPT ![a] = [seen[a] EXCEPT !.contact =
                       Contact(a) = NoContact \/ contactRows[Contact(a)] > 0]]
        BY <1>3, <3>2 DEF ParseReads, Raise
      <4>2. [seen[a] EXCEPT !.contact = Contact(a) = NoContact \/ contactRows[Contact(a)] > 0] \in SeenRow
        BY <3>1, SeenChanges
      <4> QED
        BY <4>1, <4>2
    <3>3. CASE GenerateReads(a)
      <4>1. seen' = [seen EXCEPT ![a] = [seen[a] EXCEPT !.lead = lead[Post(a)]]]
        BY <1>3, <3>3 DEF GenerateReads, Raise
      <4>2. [seen[a] EXCEPT !.lead = lead[Post(a)]] \in SeenRow
        BY <2>2, <3>1, SeenChanges
      <4> QED
        BY <4>1, <4>2
    <3> QED
      BY <1>3, <3>2, <3>3
  <2>4. {"store", "compose"} \subseteq Steps
    BY DEF Steps
  <2>5. at' \in [Analyzers -> Steps]
    BY <1>0, <2>1, <2>4 DEF AnalyzerOK
  <2>6. seen' \in [Analyzers -> SeenRow]
    BY <1>0, <2>3 DEF AnalyzerOK, SeenRow
  <2> QED
    BY <1>0, <2>1, <2>5, <2>6 DEF AnalyzerOK, SeenRow
<1>4. CASE Retry(a)
  <2>1. /\ at' = [at EXCEPT ![a] = "parse"] /\ attempt' = [attempt EXCEPT ![a] = attempt[a] + 1]
        /\ attempt[a] < MaxAttempts /\ seen' = [seen EXCEPT ![a] = Nothing] /\ job' = job
    BY <1>4 DEF Retry
  <2>2. /\ "parse" \in Steps /\ attempt[a] + 1 \in 0 .. MaxAttempts
        /\ Nothing \in [contact : BOOLEAN, lead : {"none"} \union LeadStatus]
    BY <1>0, <2>1, BoundsAssumption DEF AnalyzerOK, Steps, Nothing
  <2> QED
    BY <1>0, <2>1, <2>2 DEF AnalyzerOK
<1> QED
  BY <1>1, <1>2, <1>3, <1>4 DEF Steps

LEMMA AnalyzeTypes ==
  ASSUME IInv, NEW a \in Analyzers, Analyze(a) \/ AnnounceFails(a) \/ StepFails(a) \/ Crash(a)
  PROVE  TypeOK'
<1>1. UNCHANGED <<scanning, decision>> /\ tasks' \in [Analyzers -> SUBSET Task]
  <2>1. CASE Analyze(a) \/ AnnounceFails(a) \/ StepFails(a)
    <3>1. UNCHANGED <<scanning, decision>> /\ tasks' = tasks
      BY <2>1 DEF Analyze, AnalyzerOnly, ParseDismisses, ParseReads, ParseStores, Dedupe, QualifyReads,
         QualifyRejects, QualifyAccepts, GenerateReads, GenerateRefuses, GenerateLooksUp,
         GenerateWrites, Announce, ApproveReads, ApproveCommits, Retry, DeadLetter, QualifyLost,
         AnnounceFails, StepFails
    <3> QED
      BY <3>1 DEF IInv, TypeOK
  <2>2. CASE Crash(a)
    BY <2>2 DEF Crash, IInv, TypeOK
  <2> QED
    BY <2>1, <2>2
<1>2. /\ parses' \in 0 .. MaxParses /\ qualifies' \in 0 .. MaxQualifies
      /\ faults' \in 0 .. MaxFaults /\ crashes' \in 0 .. MaxCrashes
  <2>1. /\ parses' = parses /\ qualifies' = qualifies
        /\ faults' = faults \/ (faults < MaxFaults /\ faults' = faults + 1)
        /\ crashes' = crashes \/ (crashes < MaxCrashes /\ crashes' = crashes + 1)
    BY DEF Analyze, AnalyzerOnly, ParseDismisses, ParseReads, ParseStores, Dedupe, QualifyReads,
       QualifyRejects, QualifyAccepts, GenerateReads, GenerateRefuses, GenerateLooksUp,
       GenerateWrites, Announce, ApproveReads, ApproveCommits, Retry, DeadLetter, QualifyLost,
       AnnounceFails, StepFails, Crash, env
  <2> QED
    BY <2>1, BoundsAssumption, Counted DEF IInv, TypeOK
<1>3. RowsOK'
  <2>1. CASE Analyze(a)
    BY <2>1, RowTypes DEF IInv
  <2>2. CASE AnnounceFails(a) \/ StepFails(a) \/ Crash(a)
    BY <2>2 DEF AnnounceFails, StepFails, Crash, rows, RowsOK, IInv, TypeOK
  <2> QED
    BY <2>1, <2>2
<1>4. AnalyzerOK'
  <2>1. \/ Done(a)
        \/ \E s \in Steps : GoTo(a, s)
        \/ ParseReads(a) \/ GenerateReads(a) \/ Retry(a)
    <3>1. {"failed", "dedupe", "qualify", "score", "generate", "announce", "draft", "approve"} \subseteq Steps
      BY DEF Steps
    <3>2. CASE ParseStores(a) \/ Dedupe(a) \/ QualifyReads(a)
      BY <3>1, <3>2 DEF ParseStores, Dedupe, QualifyReads, Raise
    <3>3. CASE \E high \in BOOLEAN : QualifyAccepts(a, high)
      BY <3>1, <3>3 DEF QualifyAccepts, Raise
    <3>4. CASE GenerateLooksUp(a) \/ GenerateWrites(a) \/ ApproveReads(a) \/ StepFails(a)
      BY <3>1, <3>4 DEF GenerateLooksUp, GenerateWrites, ApproveReads, StepFails, Raise
    <3>5. CASE \/ ParseDismisses(a) \/ QualifyRejects(a) \/ GenerateRefuses(a) \/ Announce(a)
               \/ AnnounceFails(a) \/ ApproveCommits(a) \/ DeadLetter(a) \/ QualifyLost(a) \/ Crash(a)
      BY <3>5 DEF ParseDismisses, QualifyRejects, GenerateRefuses, Announce, AnnounceFails,
                  ApproveCommits, DeadLetter, QualifyLost, Crash
    <3> QED
      BY <3>2, <3>3, <3>4, <3>5 DEF Analyze
  <2> QED
    BY <2>1, AnalyzerTypes
<1>5. dlq' \subseteq Posts /\ cards' \subseteq Posts
  <2>1. CASE Announce(a) \/ DeadLetter(a)
    <3>1. Post(a) \in Posts
      BY <2>1, AtWork DEF Announce, DeadLetter
    <3> QED
      BY <2>1, <3>1 DEF Announce, DeadLetter, IInv, TypeOK
  <2>2. CASE ~ Announce(a) /\ ~ DeadLetter(a)
    <3>1. dlq' = dlq /\ cards' = cards
      BY <2>2 DEF Analyze, ParseDismisses, ParseReads, ParseStores, Dedupe, QualifyReads,
         QualifyRejects, QualifyAccepts, GenerateReads, GenerateRefuses, GenerateLooksUp,
         GenerateWrites, ApproveReads, ApproveCommits, Retry, QualifyLost, AnnounceFails, StepFails, Crash
    <3> QED
      BY <3>1 DEF IInv, TypeOK
  <2> QED
    BY <2>1, <2>2
<1> QED
  BY <1>1, <1>2, <1>3, <1>4, <1>5 DEF IInv, TypeOK, RowsOK, AnalyzerOK, scanning

--------------------------------------------------------------------------------
(***************************************************************************)
(* The specification.                                                      *)
(***************************************************************************)

\* Every step keeps the invariant, and neither vacancy nor draft goes away.
LEMMA StepIInv == ASSUME IInv, [Next]_vars PROVE IInv' /\ RowsStay
<1>1. ASSUME NEW s \in Scanners,
             ScanCommits(s) \/ ScanFails(s) \/ \E found \in Fetched : ScanChannel(s, found)
      PROVE  IInv' /\ RowsStay
  <2>1. UNCHANGED <<rows, analyzer, decision>>
    BY <1>1 DEF ScanCommits, ScanFails, ScanChannel
  <2> QED
    BY <1>1, <2>1, ScanTypes, RestKeeps, DecisionsStay DEF IInv, Chain
<1>2. ASSUME NEW a \in Analyzers,
             Take(a) \/ \E m \in Posts : ParseTask(a, m) \/ QualifyTask(a, m)
      PROVE  IInv' /\ RowsStay
  <2>1. Take(a) \/ UNCHANGED <<rows, analyzer>>
    BY <1>2 DEF ParseTask, QualifyTask
  <2>2. decision' = decision
    BY <1>2 DEF Take, ParseTask, QualifyTask
  <2> QED
    BY <1>2, <2>1, <2>2, TaskTypes, TakeKeeps, RestKeeps, DecisionsStay DEF IInv, Chain
<1>3. ASSUME NEW a \in Analyzers, Analyze(a) \/ AnnounceFails(a) \/ StepFails(a) \/ Crash(a)
      PROVE  IInv' /\ RowsStay
  <2>1. Chain' /\ AgreeInv' /\ RowsStay
    BY <1>3, ParseKeeps, QualifyKeeps, GenerateKeeps, AnnounceKeeps, FailureKeeps DEF Analyze
  <2>2. decision' = decision
    BY <1>3 DEF Analyze, AnalyzerOnly, ParseDismisses, ParseReads, ParseStores, Dedupe, QualifyReads,
       QualifyRejects, QualifyAccepts, GenerateReads, GenerateRefuses, GenerateLooksUp,
       GenerateWrites, Announce, ApproveReads, ApproveCommits, Retry, DeadLetter, QualifyLost,
       AnnounceFails, StepFails, Crash
  <2> QED
    BY <1>3, <2>1, <2>2, AnalyzeTypes, DecisionsStay DEF IInv, Chain
<1>4. CASE Deciding
  BY <1>4, DecisionTypes, DecisionKeeps DEF IInv, Chain
<1>5. CASE UNCHANGED vars
  <2>1. TypeOK'
    BY <1>5 DEF vars, scanning, rows, analyzer, env, IInv, TypeOK
  <2> QED
    BY <1>5, <2>1, RestKeeps, DecisionsStay DEF IInv, Chain, vars
<1> QED
  BY <1>1, <1>2, <1>3, <1>4, <1>5 DEF Next, Deciding

LEMMA AlwaysIInv == Spec => []IInv
<1>1. IInv /\ [Next]_vars => IInv'
  BY StepIInv
<1> QED
  BY <1>1, InitIInv, PTL DEF Spec

\* The variables keep their types.
THEOREM TypeCorrect == Spec => []TypeOK
<1>1. IInv => TypeOK
  BY DEF IInv
<1> QED
  BY <1>1, AlwaysIInv, PTL

\* Of the analyzers that are given a post, one alone takes it past parsing.
THEOREM OnePastParsing == Spec => []OneAnalyzerPerPost
<1>1. IInv => OneAnalyzerPerPost
  BY DEF IInv
<1> QED
  BY <1>1, AlwaysIInv, PTL

--------------------------------------------------------------------------------
(***************************************************************************)
(* Copies: one scanner, and no task that skips deduplication.              *)
(***************************************************************************)
OneScanner == \A s, r \in Scanners : s = r
ParseOnly  == MaxQualifies = 0

\* What a scanner has found and not committed is newer than all that is stored.
TimeInv ==
  /\ \A m \in Posts : seenAt[m] <= clock
  /\ \A s \in Scanners, m \in Posts : scan[s][m] <= clock
  /\ \A s \in Scanners, m, n \in Posts : scan[s][m] > 0 => seenAt[n] < scan[s][m]

\* Tasks are to parse stored posts, and a vacancy is PARSED from then on until its
\* analyzer has scored it.
WorkInv ==
  /\ \A a \in Analyzers : \A t \in tasks[a] : t.kind = "parse" /\ seenAt[t.post] > 0
  /\ \A a \in Analyzers : at[a] # "idle" => job[a].kind = "parse" /\ seenAt[Post(a)] > 0
  /\ \A a \in Analyzers : at[a] \in {"dedupe", "qualify", "score"} => vacancy[Post(a)] = "parsed"

First(m) == seenAt[m] > 0 /\ EarlierCopies(m) = {}

\* Past deduplication there are first copies only.
FirstInv ==
  /\ \A a \in Analyzers : at[a] \in PastSteps \ {"dedupe"} => First(Post(a))
  /\ \A m \in Posts : draft[m] # "none" => First(m)

CopyInv == OneScanner /\ ParseOnly /\ TimeInv /\ WorkInv /\ FirstInv

LEMMA InitCopyInv == OneScanner /\ ParseOnly /\ Init => CopyInv
<1> SUFFICES ASSUME OneScanner, ParseOnly, Init PROVE CopyInv
  OBVIOUS
<1>1. TimeInv
  BY DEF Init, Unseen, TimeInv
<1>2. WorkInv /\ FirstInv
  BY DEF Init, WorkInv, FirstInv, PastSteps
<1> QED
  BY <1>1, <1>2 DEF CopyInv

\* A scan gives new posts times of their own: a first copy stays one.
LEMMA FirstStays ==
  ASSUME IInv, OneScanner, TimeInv, NEW s \in Scanners,
         ScanCommits(s) \/ ScanFails(s) \/ \E found \in Fetched : ScanChannel(s, found)
  PROVE  /\ TimeInv'
         /\ \A m \in Posts : seenAt[m] > 0 => seenAt'[m] > 0
         /\ \A m \in Posts : First(m) => First(m)'
<1>1. /\ seenAt \in [Posts -> 0 .. MaxScans] /\ clock \in 0 .. MaxScans /\ MaxScans \in Nat
      /\ scan \in [Scanners -> [Posts -> 0 .. MaxScans]]
  BY BoundsAssumption DEF IInv, TypeOK
<1>2. Scanners = {s}
  BY DEF OneScanner
<1>3. CASE seenAt' = seenAt
  <2>1. \/ clock' = clock /\ scan' = scan
        \/ clock' = clock /\ \A m \in Posts : scan'[s][m] = 0
        \/ clock' = clock + 1 /\ \A m \in Posts : scan'[s][m] \in {clock', scan[s][m]}
    BY <1>1 DEF ScanCommits, ScanFails, ScanChannel, Unseen
  <2>2. TimeInv'
    BY <1>1, <1>2, <1>3, <2>1 DEF TimeInv
  <2> QED
    BY <1>3, <2>2 DEF First, EarlierCopies, StoredWithText
<1>4. CASE seenAt' # seenAt
  <2>1. /\ \A m \in Posts : scan'[s][m] = 0 /\ clock' = clock
        /\ \A m \in Posts : ~ (scan[s][m] > 0 /\ seenAt[m] > 0)
        /\ seenAt' = [m \in Posts |-> IF scan[s][m] > 0 THEN scan[s][m] ELSE seenAt[m]]
    BY <1>1, <1>4 DEF ScanCommits, ScanFails, ScanChannel, Unseen
  <2>2. TimeInv'
    BY <1>1, <1>2, <1>4, <2>1 DEF TimeInv, ScanCommits, ScanFails, ScanChannel
  <2>3. \A m \in Posts : seenAt[m] > 0 => seenAt'[m] = seenAt[m]
    BY <1>1, <2>1
  <2>4. ASSUME NEW m \in Posts, First(m), NEW n \in EarlierCopies(m)' PROVE FALSE
    <3>1. /\ n \in Posts \ {m} /\ seenAt'[n] > 0 /\ TextOf[n] = TextOf[m]
          /\ seenAt'[n] < seenAt'[m] /\ seenAt'[m] = seenAt[m]
      BY <2>3, <2>4 DEF First, EarlierCopies, StoredWithText
    <3>2. seenAt'[n] = seenAt[n]
      BY <1>1, <2>1, <3>1 DEF TimeInv
    <3> QED
      BY <2>4, <3>1, <3>2 DEF First, EarlierCopies, StoredWithText
  <2> QED
    BY <2>2, <2>3, <2>4 DEF First
<1> QED
  BY <1>3, <1>4

LEMMA ScanCopies ==
  ASSUME IInv, CopyInv, NEW s \in Scanners,
         ScanCommits(s) \/ ScanFails(s) \/ \E found \in Fetched : ScanChannel(s, found)
  PROVE  CopyInv'
<1>1. UNCHANGED <<rows, tasks, analyzer>>
  BY DEF ScanCommits, ScanFails, ScanChannel
<1>2. /\ TimeInv'
      /\ \A m \in Posts : seenAt[m] > 0 => seenAt'[m] > 0
      /\ \A m \in Posts : First(m) => First(m)'
  BY FirstStays DEF CopyInv
<1>3. \A a \in Analyzers : at[a] # "idle" => Post(a) \in Posts /\ Post(a)' = Post(a)
  BY <1>1, AtWork DEF Post, analyzer
<1>4. WorkInv'
  <2>1. \A a \in Analyzers : \A t \in tasks[a] : t.post \in Posts
    BY Tasks DEF IInv, TypeOK
  <2> QED
    BY <1>1, <1>2, <1>3, <2>1 DEF CopyInv, WorkInv, analyzer, rows
<1>5. FirstInv'
  <2>1. ASSUME NEW a \in Analyzers, at'[a] \in PastSteps \ {"dedupe"}
        PROVE  First(Post(a))'
    <3>1. at[a] = at'[a] /\ at[a] # "idle" /\ job'[a] = job[a]
      BY <1>1, <2>1 DEF analyzer, PastSteps
    <3>2. Post(a) \in Posts /\ First(Post(a))
      BY <2>1, <3>1, AtWork DEF CopyInv, FirstInv
    <3>3. PICK m \in Posts : m = Post(a)
      BY <3>2
    <3>4. First(m)'
      BY <1>2, <3>2, <3>3
    <3> QED
      BY <3>1, <3>3, <3>4 DEF Post, First, EarlierCopies, StoredWithText
  <2> QED
    BY <1>1, <1>2, <2>1 DEF CopyInv, FirstInv, rows, analyzer
<1> QED
  BY <1>1, <1>2, <1>4, <1>5 DEF CopyInv, OneScanner, ParseOnly, rows

\* As long as no scanner moves, nothing becomes or ceases to be a copy.
LEMMA FirstFixed ==
  ASSUME UNCHANGED scanning, TimeInv
  PROVE  TimeInv' /\ \A m \in Posts : First(m)' = First(m)
BY DEF scanning, TimeInv, First, EarlierCopies, StoredWithText

LEMMA TaskCopies ==
  ASSUME IInv, CopyInv, NEW a \in Analyzers,
         Take(a) \/ \E m \in Posts : ParseTask(a, m) \/ QualifyTask(a, m)
  PROVE  CopyInv'
<1>1. UNCHANGED <<scanning, rows>>
  BY DEF Take, ParseTask, QualifyTask
<1>2. TimeInv' /\ \A m \in Posts : First(m)' = First(m)
  BY <1>1, FirstFixed DEF CopyInv
<1>3. tasks \in [Analyzers -> SUBSET Task] /\ seenAt' = seenAt /\ vacancy' = vacancy /\ draft' = draft
  BY <1>1 DEF IInv, TypeOK, scanning, rows
<1>4. CASE Take(a)
  <2>1. PICK t \in tasks[a] : /\ tasks' = [tasks EXCEPT ![a] = tasks[a] \ {t}]
                             /\ job' = [job EXCEPT ![a] = t]
                             /\ at' = [at EXCEPT ![a] = IF t.kind = "parse" THEN "parse" ELSE "qualify"]
    BY <1>4 DEF Take
  <2>2. t.kind = "parse" /\ seenAt[t.post] > 0
    BY DEF CopyInv, WorkInv
  <2>3. /\ at'[a] = "parse" /\ job'[a] = t
        /\ \A b \in Analyzers \ {a} : at'[b] = at[b] /\ job'[b] = job[b]
        /\ \A b \in Analyzers : tasks'[b] \subseteq tasks[b]
    BY <1>3, <2>1, <2>2 DEF IInv, TypeOK
  <2>4. WorkInv'
    BY <1>3, <2>2, <2>3 DEF CopyInv, WorkInv, Post
  <2>5. FirstInv'
    <3>1. ASSUME NEW b \in Analyzers, at'[b] \in PastSteps \ {"dedupe"}
          PROVE  First(Post(b))'
      <4>1. at[b] = at'[b] /\ at[b] # "idle" /\ job'[b] = job[b]
        BY <2>3, <3>1 DEF PastSteps
      <4>2. Post(b) \in Posts /\ First(Post(b))
        BY <3>1, <4>1, AtWork DEF CopyInv, FirstInv
      <4> QED
        BY <1>1, <4>1, <4>2 DEF Post, First, EarlierCopies, StoredWithText, scanning
    <3> QED
      BY <1>2, <1>3, <3>1 DEF CopyInv, FirstInv
  <2> QED
    BY <1>2, <1>3, <2>4, <2>5 DEF CopyInv, OneScanner, ParseOnly
<1>5. ASSUME NEW m \in Posts, ParseTask(a, m) PROVE CopyInv'
  <2>1. /\ seenAt[m] > 0 /\ UNCHANGED analyzer
        /\ tasks' = [tasks EXCEPT ![a] = tasks[a] \union {[kind |-> "parse", post |-> m]}]
    BY <1>5 DEF ParseTask
  <2>2. WorkInv'
    <3>1. \A b \in Analyzers : \A t \in tasks'[b] :
            t \in tasks[b] \/ t = [kind |-> "parse", post |-> m]
      BY <1>3, <2>1
    <3> QED
      BY <1>3, <2>1, <3>1 DEF CopyInv, WorkInv, Post, analyzer
  <2>3. FirstInv'
    BY <1>1, <2>1 DEF CopyInv, FirstInv, First, EarlierCopies, StoredWithText, Post, analyzer,
                      scanning, rows
  <2> QED
    BY <1>2, <1>3, <2>2, <2>3 DEF CopyInv, OneScanner, ParseOnly
<1>6. ASSUME NEW m \in Posts PROVE ~ QualifyTask(a, m)
  BY DEF QualifyTask, CopyInv, ParseOnly, IInv, TypeOK
<1> QED
  BY <1>4, <1>5, <1>6

\* An analyzer at work: where it goes, and what it writes.
AtWorkSteps == {"dedupe", "qualify", "score"}

Moved(a, s) ==
  /\ at' = [at EXCEPT ![a] = s]
  /\ \A b \in Analyzers \ {a} : job'[b] = job[b]
  /\ s # "idle" => at[a] # "idle" /\ job' = job
  /\ s \in AtWorkSteps => vacancy'[Post(a)] = "parsed"
  /\ s \in PastSteps \ {"dedupe"} => First(Post(a))

WroteVacancy(a) ==
  \/ vacancy' = vacancy
  \/ \E v \in VacancyStatus :
       /\ vacancy' = [vacancy EXCEPT ![Post(a)] = v]
       /\ \/ vacancy[Post(a)] = "none"
          \/ /\ at[a] \in AtWorkSteps
             /\ v \in {"duplicate", "qualified", "rejected"}

WroteDraft(a) ==
  \/ draft' = draft
  \/ at[a] \in PastSteps \ {"dedupe"} /\ \E d \in OutreachStatus : draft' = [draft EXCEPT ![Post(a)] = d]

LEMMA MovedCopies ==
  ASSUME IInv, CopyInv, NEW a \in Analyzers, at[a] # "idle" \/ UNCHANGED rows, NEW s \in Steps,
         UNCHANGED scanning, \A b \in Analyzers : tasks'[b] \subseteq tasks[b],
         Moved(a, s), WroteVacancy(a), WroteDraft(a)
  PROVE  CopyInv'
<1>1. TimeInv' /\ (\A m \in Posts : First(m)' = First(m)) /\ seenAt' = seenAt
  BY FirstFixed DEF CopyInv, scanning
<1>2. /\ at'[a] = s /\ \A b \in Analyzers \ {a} : at'[b] = at[b] /\ job'[b] = job[b]
      /\ vacancy \in [Posts -> {"none"} \union VacancyStatus]
      /\ draft \in [Posts -> {"none"} \union OutreachStatus]
  BY DEF Moved, IInv, TypeOK
<1>3. \A b \in Analyzers : at[b] # "idle" => Post(b) \in Posts
  BY AtWork
\* No other analyzer is between the parsing and the score of the post that is written.
<1>4. ASSUME NEW b \in Analyzers \ {a}, at[b] \in AtWorkSteps
      PROVE  vacancy'[Post(b)] = vacancy[Post(b)]
  <2>1. at[b] # "idle" /\ job[b] \in Task /\ job[b].kind = "parse" /\ Past(b, Post(b))
    <3>1. at[b] # "idle"
      BY <1>4 DEF AtWorkSteps
    <3>2. job[b] \in Task /\ job[b].kind = "parse"
      BY <3>1, AtWork DEF CopyInv, WorkInv
    <3>3. job[b] = [kind |-> "parse", post |-> Post(b)]
      BY <1>3, <3>1, <3>2, Tasks DEF Post
    <3> QED
      BY <1>4, <3>1, <3>2, <3>3 DEF AtWorkSteps, Past, Steps
  <2>2. CASE vacancy[Post(a)] = "none" /\ at[a] # "idle"
    <3>1. vacancy[Post(b)] # "none"
      BY <1>3, <2>1 DEF IInv, OneAnalyzerPerPost
    <3> QED
      BY <1>2, <1>3, <2>1, <2>2, <3>1 DEF WroteVacancy
  <2>3. CASE at[a] \in AtWorkSteps
    <3>1. at[a] # "idle" /\ job[a] \in Task /\ job[a].kind = "parse"
      BY <2>3, AtWork DEF CopyInv, WorkInv, AtWorkSteps
    <3>2. job[a] = [kind |-> "parse", post |-> Post(a)]
      BY <1>3, <3>1, Tasks DEF Post
    <3>3. Past(a, Post(a))
      BY <2>3, <3>2 DEF AtWorkSteps, Past, Steps
    <3>4. Post(a) # Post(b)
      BY <1>3, <2>1, <3>1, <3>3 DEF IInv, OneAnalyzerPerPost
    <3> QED
      BY <1>2, <1>3, <2>1, <3>1, <3>4 DEF WroteVacancy
  <2> QED
    BY <2>2, <2>3 DEF WroteVacancy, rows
<1>5. WorkInv'
  <2>1. \A b \in Analyzers : at'[b] # "idle" => job'[b].kind = "parse" /\ seenAt'[job'[b].post] > 0
    BY <1>1, <1>2 DEF CopyInv, WorkInv, Moved, Post
  <2>2. \A b \in Analyzers : at'[b] \in AtWorkSteps => vacancy'[job'[b].post] = "parsed"
    <3>1. ASSUME NEW b \in Analyzers \ {a}, at'[b] \in AtWorkSteps
          PROVE  vacancy'[job'[b].post] = "parsed"
      <4>1. at[b] \in AtWorkSteps /\ job'[b] = job[b]
        BY <1>2, <3>1
      <4>2. vacancy[Post(b)] = "parsed"
        BY <4>1 DEF CopyInv, WorkInv, AtWorkSteps
      <4> QED
        BY <1>4, <4>1, <4>2 DEF Post
    <3>2. ASSUME s \in AtWorkSteps PROVE vacancy'[job'[a].post] = "parsed"
      BY <1>2, <3>2 DEF Moved, AtWorkSteps, Post
    <3> QED
      BY <1>2, <3>1, <3>2
  <2>3. \A b \in Analyzers : \A t \in tasks'[b] : t.kind = "parse" /\ seenAt'[t.post] > 0
    BY <1>1 DEF CopyInv, WorkInv
  <2> QED
    BY <2>1, <2>2, <2>3 DEF WorkInv, Post, AtWorkSteps
<1>6. FirstInv'
  <2>1. ASSUME NEW b \in Analyzers, at'[b] \in PastSteps \ {"dedupe"}
        PROVE  First(Post(b))'
    <3>1. job'[b] = job[b] /\ First(Post(b))
      <4>1. CASE b = a
        BY <1>2, <2>1, <4>1 DEF Moved, PastSteps
      <4>2. CASE b # a
        BY <1>2, <2>1, <4>2 DEF CopyInv, FirstInv
      <4> QED
        BY <4>1, <4>2
    <3> QED
      BY <3>1 DEF Post, First, EarlierCopies, StoredWithText, scanning
  <2>2. ASSUME NEW m \in Posts, draft'[m] # "none"
        PROVE  First(m)'
    <3>1. CASE draft[m] # "none"
      BY <1>1, <3>1 DEF CopyInv, FirstInv
    <3>2. CASE draft[m] = "none"
      <4>1. at[a] \in PastSteps \ {"dedupe"} /\ m = Post(a)
        BY <1>2, <2>2, <3>2 DEF WroteDraft
      <4> QED
        BY <1>1, <4>1 DEF CopyInv, FirstInv
    <3> QED
      BY <3>1, <3>2
  <2> QED
    BY <2>1, <2>2 DEF FirstInv
<1> QED
  BY <1>1, <1>5, <1>6 DEF CopyInv, OneScanner, ParseOnly

\* The chain ends or breaks off.
LEMMA EndMoves ==
  ASSUME IInv, NEW a \in Analyzers, Done(a) \/ (GoTo(a, "failed") /\ at[a] # "idle")
  PROVE  \E s \in Steps : Moved(a, s)
<1>1. {"idle", "failed"} \subseteq Steps \ (AtWorkSteps \union PastSteps)
  BY DEF Steps, AtWorkSteps, PastSteps
<1>2. CASE Done(a)
  <2>1. \A b \in Analyzers \ {a} : job'[b] = job[b]
    BY <1>2 DEF Done, IInv, TypeOK
  <2>2. Moved(a, "idle")
    BY <1>1, <1>2, <2>1 DEF Moved, Done
  <2> QED
    BY <1>1, <2>2
<1>3. CASE GoTo(a, "failed") /\ at[a] # "idle"
  <2>1. Moved(a, "failed")
    BY <1>1, <1>3 DEF Moved, GoTo
  <2> QED
    BY <1>1, <2>1
<1> QED
  BY <1>2, <1>3

\* A step of the chain that leaves the rows alone, or ends it.
LEMMA QuietMoves ==
  ASSUME IInv, CopyInv, NEW a \in Analyzers,
         \/ ParseDismisses(a) \/ ParseReads(a) \/ GenerateReads(a) \/ GenerateRefuses(a)
         \/ GenerateLooksUp(a) \/ Announce(a) \/ AnnounceFails(a) \/ ApproveReads(a)
         \/ Retry(a) \/ DeadLetter(a) \/ QualifyLost(a) \/ StepFails(a) \/ Crash(a)
  PROVE  CopyInv'
<1>1. UNCHANGED <<scanning, rows>> /\ \A b \in Analyzers : tasks'[b] \subseteq tasks[b]
  <2>1. CASE Crash(a)
    BY <2>1 DEF Crash, IInv, TypeOK
  <2>2. CASE ~ Crash(a)
    BY <2>2 DEF ParseDismisses, ParseReads, GenerateReads, GenerateRefuses, GenerateLooksUp,
      Announce, AnnounceFails, ApproveReads, Retry, DeadLetter, QualifyLost, StepFails, Raise,
      AnalyzerOnly
  <2> QED
    BY <2>1, <2>2
<1>2. WroteVacancy(a) /\ WroteDraft(a)
  BY <1>1 DEF WroteVacancy, WroteDraft, rows
<1>3. \E s \in Steps : Moved(a, s)
  <2>1. CASE Done(a) \/ (GoTo(a, "failed") /\ at[a] # "idle")
    BY <2>1, EndMoves
  <2>2. CASE /\ ~ Done(a) /\ ~ GoTo(a, "failed")
             /\ \/ GenerateReads(a) \/ GenerateLooksUp(a) \/ ApproveReads(a)
    <3>1. PICK s \in {"compose", "draft", "announce", "approve"} : at' = [at EXCEPT ![a] = s]
      BY <2>2 DEF GenerateReads, GenerateLooksUp, ApproveReads, GoTo, Raise
    <3>2. job' = job /\ at[a] \in PastSteps \ {"dedupe"}
      BY <2>2 DEF GenerateReads, GenerateLooksUp, ApproveReads, GoTo, Raise, PastSteps, Steps
    <3>3. First(Post(a))
      BY <3>2 DEF CopyInv, FirstInv
    <3>4. s \in Steps \ ({"idle"} \union AtWorkSteps) /\ at[a] # "idle"
      BY <3>2 DEF Steps, AtWorkSteps, PastSteps
    <3> QED
      BY <3>1, <3>2, <3>3, <3>4 DEF Moved
  <2>3. CASE (ParseReads(a) /\ ~ GoTo(a, "failed")) \/ Retry(a)
    <3>1. PICK s \in {"store", "parse"} : at' = [at EXCEPT ![a] = s] /\ job' = job /\ at[a] # "idle"
      BY <2>3 DEF ParseReads, Retry, Raise
    <3>2. s \in Steps \ ({"idle"} \union AtWorkSteps \union PastSteps)
      BY DEF Steps, AtWorkSteps, PastSteps
    <3> QED
      BY <3>1, <3>2 DEF Moved
  <2> QED
    BY <2>1, <2>2, <2>3 DEF ParseDismisses, ParseReads, GenerateReads, GenerateRefuses,
      GenerateLooksUp, Announce, AnnounceFails, ApproveReads, DeadLetter, QualifyLost, StepFails, Crash
<1> QED
  BY <1>1, <1>2, <1>3, MovedCopies

\* Parsing stores the vacancy, deduplication lets first copies past.
LEMMA StoreCopies ==
  ASSUME IInv, CopyInv, NEW a \in Analyzers, ParseStores(a) \/ Dedupe(a)
  PROVE  CopyInv'
<1>1. /\ UNCHANGED scanning /\ tasks' = tasks /\ at[a] # "idle" /\ Post(a) \in Posts
      /\ vacancy \in [Posts -> {"none"} \union VacancyStatus] /\ draft' = draft
  BY AtWork DEF ParseStores, Dedupe, AnalyzerOnly, Raise, rows, IInv, TypeOK
<1>2. WroteVacancy(a)
  <2>1. CASE vacancy' = vacancy
    BY <2>1 DEF WroteVacancy
  <2>2. CASE vacancy' # vacancy /\ ParseStores(a)
    BY <2>2, Statuses DEF ParseStores, Raise, rows, WroteVacancy
  <2>3. CASE vacancy' # vacancy /\ Dedupe(a)
    BY <2>3, Statuses DEF Dedupe, Raise, rows, WroteVacancy, AtWorkSteps
  <2> QED
    BY <2>1, <2>2, <2>3
<1>3. \E s \in Steps : Moved(a, s)
  <2>1. CASE Done(a) \/ GoTo(a, "failed")
    BY <1>1, <2>1, EndMoves
  <2>2. CASE ~ Done(a) /\ ~ GoTo(a, "failed") /\ ParseStores(a)
    <3>1. GoTo(a, "dedupe") /\ vacancy'[Post(a)] = "parsed"
      BY <1>1, <2>2 DEF ParseStores, Raise
    <3>2. "dedupe" \in Steps
      BY DEF Steps
    <3> QED
      BY <1>1, <3>1, <3>2 DEF Moved, GoTo
  <2>3. CASE ~ Done(a) /\ ~ GoTo(a, "failed") /\ Dedupe(a)
    <3>1. GoTo(a, "qualify") /\ vacancy' = vacancy /\ at[a] = "dedupe" /\ EarlierCopies(Post(a)) = {}
      BY <2>3 DEF Dedupe, Raise, rows
    <3>2. First(Post(a)) /\ vacancy[Post(a)] = "parsed"
      BY <3>1 DEF First, CopyInv, WorkInv
    <3>3. "qualify" \in Steps
      BY DEF Steps
    <3> QED
      BY <1>1, <3>1, <3>2, <3>3 DEF Moved, GoTo
  <2> QED
    BY <2>1, <2>2, <2>3
<1> QED
  BY <1>1, <1>2, <1>3, MovedCopies DEF WroteDraft

\* Qualification settles the vacancy.
LEMMA QualifyCopies ==
  ASSUME IInv, CopyInv, NEW a \in Analyzers,
         QualifyReads(a) \/ QualifyRejects(a) \/ \E high \in BOOLEAN : QualifyAccepts(a, high)
  PROVE  CopyInv'
<1>1. /\ UNCHANGED scanning /\ tasks' = tasks /\ at[a] \in {"qualify", "score"} /\ at[a] # "idle"
      /\ draft' = draft
  BY DEF QualifyReads, QualifyRejects, QualifyAccepts, AnalyzerOnly, Raise, rows
<1>2. \/ vacancy' = vacancy
      \/ \E v \in {"rejected", "qualified"} : vacancy' = [vacancy EXCEPT ![Post(a)] = v]
  BY DEF QualifyReads, QualifyRejects, QualifyAccepts, Raise, rows
<1>3. WroteVacancy(a)
  BY <1>1, <1>2, Statuses DEF WroteVacancy, AtWorkSteps
<1>4. First(Post(a)) /\ vacancy[Post(a)] = "parsed"
  BY <1>1 DEF CopyInv, FirstInv, WorkInv, PastSteps, Steps
<1>5. \E s \in Steps : Moved(a, s)
  <2>1. CASE Done(a) \/ GoTo(a, "failed")
    BY <1>1, <2>1, EndMoves
  <2>2. CASE ~ Done(a) /\ ~ GoTo(a, "failed")
    <3>1. \/ at' = [at EXCEPT ![a] = "generate"] /\ job' = job
          \/ at' = [at EXCEPT ![a] = "score"] /\ job' = job /\ vacancy' = vacancy
      BY <2>2 DEF QualifyReads, QualifyRejects, QualifyAccepts, Raise, GoTo, rows
    <3>2. {"generate", "score"} \subseteq Steps /\ "generate" \notin AtWorkSteps
      BY DEF Steps, AtWorkSteps
    <3> QED
      BY <1>1, <1>4, <3>1, <3>2 DEF Moved
  <2> QED
    BY <2>1, <2>2
<1> QED
  BY <1>1, <1>3, <1>5, MovedCopies DEF WroteDraft

\* The draft, and its approval.
LEMMA DraftCopies ==
  ASSUME IInv, CopyInv, NEW a \in Analyzers, GenerateWrites(a) \/ ApproveCommits(a)
  PROVE  CopyInv'
<1>1. /\ UNCHANGED scanning /\ tasks' = tasks /\ at[a] \in {"draft", "approve"} /\ vacancy' = vacancy
  BY DEF GenerateWrites, ApproveCommits, AnalyzerOnly, Raise, rows
<1>2. at[a] # "idle" /\ at[a] \in PastSteps \ {"dedupe"}
  BY <1>1 DEF PastSteps, Steps
<1>3. WroteDraft(a)
  <2>1. \/ draft' = draft
        \/ \E d \in {"drafted", "rejected", "approved"} : draft' = [draft EXCEPT ![Post(a)] = d]
    BY DEF GenerateWrites, ApproveCommits, Raise, rows
  <2> QED
    BY <1>2, <2>1, Statuses DEF WroteDraft
<1>4. \E s \in Steps : Moved(a, s)
  <2>1. CASE Done(a) \/ GoTo(a, "failed")
    BY <1>2, <2>1, EndMoves
  <2>2. CASE ~ Done(a) /\ ~ GoTo(a, "failed")
    <3>1. at' = [at EXCEPT ![a] = "announce"] /\ job' = job
      BY <2>2 DEF GenerateWrites, ApproveCommits, Raise, GoTo
    <3>2. "announce" \in Steps \ AtWorkSteps /\ First(Post(a))
      BY <1>2 DEF Steps, AtWorkSteps, CopyInv, FirstInv
    <3> QED
      BY <1>2, <3>1, <3>2 DEF Moved
  <2> QED
    BY <2>1, <2>2
<1> QED
  BY <1>1, <1>2, <1>3, <1>4, MovedCopies DEF WroteVacancy

\* Operators decide on drafts there are.
LEMMA DecisionCopies ==
  ASSUME IInv, CopyInv, Deciding
  PROVE  CopyInv'
<1>1. UNCHANGED <<scanning, vacancy, tasks, analyzer>>
  BY DecisionWrites
<1>2. \A n \in Posts : draft'[n] # "none" => draft[n] # "none"
  BY DecisionWrites DEF Writing, IInv, TypeOK
<1>3. TimeInv' /\ \A n \in Posts : First(n)' = First(n)
  BY <1>1, FirstFixed DEF CopyInv
<1>4. WorkInv'
  BY <1>1 DEF CopyInv, WorkInv, Post, analyzer, scanning
<1>5. FirstInv'
  <2>1. \A a \in Analyzers : at'[a] \in PastSteps \ {"dedupe"} => First(Post(a))'
    BY <1>1 DEF CopyInv, FirstInv, First, EarlierCopies, StoredWithText, Post, analyzer, scanning
  <2> QED
    BY <1>2, <1>3, <2>1 DEF CopyInv, FirstInv
<1> QED
  BY <1>1, <1>3, <1>4, <1>5 DEF CopyInv, OneScanner, ParseOnly

LEMMA StepCopyInv == ASSUME IInv, CopyInv, [Next]_vars PROVE CopyInv'
<1>1. CASE UNCHANGED vars
  <2>1. UNCHANGED <<scanning, rows, tasks, analyzer>>
    BY <1>1 DEF vars
  <2>2. TimeInv'
    BY <2>1, FirstFixed DEF CopyInv
  <2>3. WorkInv' /\ FirstInv'
    BY <2>1 DEF CopyInv, WorkInv, FirstInv, First, EarlierCopies, StoredWithText, Post, scanning,
                rows, analyzer
  <2> QED
    BY <2>1, <2>2, <2>3 DEF CopyInv, OneScanner, ParseOnly, rows
<1>2. CASE Next
  BY <1>2, ScanCopies, TaskCopies, QuietMoves, StoreCopies, QualifyCopies, DraftCopies,
     DecisionCopies DEF Next, Deciding, Analyze
<1> QED
  BY <1>1, <1>2

LEMMA AlwaysCopyInv == OneScanner /\ ParseOnly /\ Spec => [](IInv /\ CopyInv)
<1>1. OneScanner /\ ParseOnly /\ Init => IInv /\ CopyInv
  BY InitIInv, InitCopyInv
<1>2. (IInv /\ CopyInv) /\ [Next]_vars => (IInv /\ CopyInv)'
  BY StepIInv, StepCopyInv
<1> QED
  BY <1>1, <1>2, PTL DEF Spec

\* With one scanner and no QUALIFY_VACANCY task, a copy that is discovered after the
\* original never becomes a draft (deduplicate.py), whoever analyzes which of them first.
THEOREM CopiesAreNotDrafted == OneScanner /\ ParseOnly /\ Spec => []LaterCopyNeverDrafted
<1>1. IInv /\ CopyInv => LaterCopyNeverDrafted
  <2> SUFFICES ASSUME IInv, CopyInv, NEW m \in Posts, NEW n \in Posts, TextOf[m] = TextOf[n],
                      0 < seenAt[n], seenAt[n] < seenAt[m], draft[m] # "none"
               PROVE  FALSE
    BY DEF LaterCopyNeverDrafted
  <2>1. EarlierCopies(m) = {}
    BY DEF CopyInv, FirstInv, First
  <2>2. n # m
    BY DEF IInv, TypeOK
  <2> QED
    BY <2>1, <2>2 DEF EarlierCopies, StoredWithText
<1> QED
  BY <1>1, AlwaysCopyInv, PTL

--------------------------------------------------------------------------------
(***************************************************************************)
(* Who is at work on a post.  A lead is created with a vacancy that is     *)
(* judged, and generation begins with a lead.                              *)
(***************************************************************************)
Judge  == {"dedupe", "qualify", "score"}
Bring  == {"announce", "approve"}
Writes == {"generate", "compose", "draft"} \union Bring

LeadInv ==
  /\ \A m \in Posts : lead[m] # "none" => vacancy[m] \in {"qualified", "duplicate", "rejected"}
  /\ \A a \in Analyzers : at[a] \in Writes => lead[Post(a)] # "none"

\* What a step of analyzer a does to leads and vacancies.
LeadMoves(a) ==
  \/ lead' = lead /\ vacancy' = vacancy
  \/ /\ lead' = lead
     /\ \/ vacancy[Post(a)] = "none" /\ vacancy' = [vacancy EXCEPT ![Post(a)] = "parsed"]
        \/ \E v \in {"duplicate", "rejected"} : vacancy' = [vacancy EXCEPT ![Post(a)] = v]
  \/ /\ lead' = [lead EXCEPT ![Post(a)] = "qualified"]
     /\ vacancy' = [vacancy EXCEPT ![Post(a)] = "qualified"]
  \/ /\ at[a] \in Writes /\ vacancy' = vacancy
     /\ \E l \in {"outreach_drafted", "outreach_approved"} : lead' = [lead EXCEPT ![Post(a)] = l]

\* Where it goes.
LeadWalks(a) ==
  /\ \A b \in Analyzers \ {a} : at'[b] = at[b] /\ job'[b] = job[b]
  /\ at'[a] \in Writes => /\ job'[a] = job[a] /\ at[a] # "idle"
                          /\ at[a] \in Writes \/ lead'[Post(a)] # "none"

LEMMA LeadInvKept ==
  ASSUME IInv, LeadInv, NEW a \in Analyzers, LeadMoves(a), LeadWalks(a)
  PROVE  LeadInv'
<1>1. /\ vacancy \in [Posts -> {"none"} \union VacancyStatus]
      /\ lead \in [Posts -> {"none"} \union LeadStatus]
  BY DEF IInv, TypeOK
<1>2. \A b \in Analyzers : at[b] # "idle" => Post(b) \in Posts
  BY AtWork
<1>3. "idle" \notin Writes
  BY DEF Writes, Bring
<1>4. \A m \in Posts : lead[m] # "none" => lead'[m] # "none"
  BY <1>1 DEF LeadMoves
<1>5. ASSUME NEW m \in Posts, lead'[m] # "none"
      PROVE  vacancy'[m] \in {"qualified", "duplicate", "rejected"}
  <2>1. CASE m # Post(a) \/ (lead' = lead /\ vacancy' = vacancy)
    <3>1. lead'[m] = lead[m] /\ vacancy'[m] = vacancy[m]
      BY <1>1, <2>1 DEF LeadMoves
    <3> QED
      BY <1>5, <3>1 DEF LeadInv
  <2>2. CASE m = Post(a) /\ ~ (lead' = lead /\ vacancy' = vacancy)
    BY <1>1, <1>5, <2>2 DEF LeadInv, LeadMoves
  <2> QED
    BY <2>1, <2>2
<1>6. \A b \in Analyzers : at'[b] \in Writes => lead'[job'[b].post] # "none"
  <2>1. ASSUME NEW b \in Analyzers \ {a}, at'[b] \in Writes
        PROVE  lead'[job'[b].post] # "none"
    BY <1>2, <1>3, <1>4, <2>1 DEF LeadInv, LeadWalks, Post
  <2>2. ASSUME at'[a] \in Writes PROVE lead'[job'[a].post] # "none"
    <3>1. job'[a].post = Post(a) /\ Post(a) \in Posts
      BY <1>2, <2>2 DEF LeadWalks, Post
    <3>2. CASE at[a] \in Writes
      BY <1>4, <3>1, <3>2 DEF LeadInv
    <3> QED
      BY <2>2, <3>1, <3>2 DEF LeadWalks
  <2> QED
    BY <2>1, <2>2
<1> QED
  BY <1>5, <1>6 DEF LeadInv, Post

\* A step of analyzer a leaves no post without somebody at work on it, when it takes up
\* what it writes, and lets go only of what is settled.
LEMMA StaysAtWork ==
  ASSUME NEW m \in Posts, NEW a \in Analyzers,
         \A b \in Analyzers \ {a} : at'[b] = at[b] /\ job'[b] = job[b],
         m \in cards => m \in cards',
         vacancy'[m] = "parsed" =>
           \/ job'[a].post = m /\ at'[a] \in Judge
           \/ vacancy[m] = "parsed" /\ ~ (Post(a) = m /\ at[a] \in Judge),
         draft'[m] = "drafted" /\ m \notin cards' =>
           \/ job'[a].post = m /\ at'[a] \in Bring
           \/ draft[m] = "drafted" /\ ~ (Post(a) = m /\ at[a] \in Bring)
  PROVE  Stranded(m)' => Stranded(m)
<1>1. ASSUME vacancy'[m] = "parsed", ~ Judging(m)'
      PROVE  vacancy[m] = "parsed" /\ ~ Judging(m)
  <2>1. ~ (job'[a].post = m /\ at'[a] \in Judge)
    BY <1>1 DEF Judging, Judge, Post
  <2>2. \A b \in Analyzers \ {a} : ~ (Post(b) = m /\ at[b] \in Judge)
    BY <1>1 DEF Judging, Judge, Post
  <2> QED
    BY <1>1, <2>1, <2>2 DEF Judging, Judge
<1>2. ASSUME draft'[m] = "drafted", m \notin cards', ~ Announcing(m)'
      PROVE  draft[m] = "drafted" /\ m \notin cards /\ ~ Announcing(m)
  <2>1. ~ (job'[a].post = m /\ at'[a] \in Bring)
    BY <1>2 DEF Announcing, Bring, Post
  <2>2. \A b \in Analyzers \ {a} : ~ (Post(b) = m /\ at[b] \in Bring)
    BY <1>2 DEF Announcing, Bring, Post
  <2> QED
    BY <1>2, <2>1, <2>2 DEF Announcing, Bring
<1> QED
  BY <1>1, <1>2 DEF Stranded

\* What is shown of the steps of an analyzer.
Excused(a) ==
  \A m \in Posts : Stranded(m)' => Stranded(m) \/ (Post(a) = m /\ Breaks(a))

\* The chain breaks off.
LEMMA BreakExcused ==
  ASSUME NEW a \in Analyzers, UNCHANGED <<rows, cards>>, Breaks(a),
         \A b \in Analyzers \ {a} : at'[b] = at[b] /\ job'[b] = job[b]
  PROVE  Excused(a)
<1> SUFFICES ASSUME NEW m \in Posts, Post(a) # m PROVE Stranded(m)' => Stranded(m)
  BY DEF Excused
<1> QED
  BY StaysAtWork DEF rows

\* A step that is neither in a judgement nor in an announcement, and writes no row.
LEMMA QuietExcused ==
  ASSUME NEW a \in Analyzers, UNCHANGED <<rows, cards>>, at[a] \notin Judge \union Bring,
         \A b \in Analyzers \ {a} : at'[b] = at[b] /\ job'[b] = job[b]
  PROVE  Excused(a)
<1> SUFFICES ASSUME NEW m \in Posts PROVE Stranded(m)' => Stranded(m)
  BY DEF Excused
<1> QED
  BY StaysAtWork DEF rows

\* What is shown of every step of an analyzer.
Answers(a) == LeadMoves(a) /\ LeadWalks(a) /\ Excused(a)

\* A use case raises; Telegram, the process or the database fails.
LEMMA RaiseAnswers ==
  ASSUME IInv, NEW a \in Analyzers, UNCHANGED cards,
         \/ at[a] \notin {"idle", "failed"} /\ Raise(a)
         \/ StepFails(a) \/ AnnounceFails(a) \/ Crash(a)
  PROVE  Answers(a)
<1>1. CASE (at[a] \notin {"idle", "failed"} /\ Raise(a)) \/ StepFails(a)
  <2>1. /\ UNCHANGED rows /\ at' = [at EXCEPT ![a] = "failed"] /\ job' = job /\ at[a] # "failed"
        /\ at'[a] = "failed"
    BY <1>1 DEF Raise, StepFails, GoTo, IInv, TypeOK
  <2>2. \A b \in Analyzers \ {a} : at'[b] = at[b] /\ job'[b] = job[b]
    BY <2>1 DEF IInv, TypeOK
  <2>3. Excused(a)
    BY <2>1, <2>2, BreakExcused DEF Breaks
  <2> QED
    BY <2>1, <2>2, <2>3 DEF Answers, LeadMoves, LeadWalks, rows, Writes, Bring
<1>2. CASE AnnounceFails(a) \/ Crash(a)
  <2>1. UNCHANGED rows /\ Done(a) /\ Breaks(a)
    BY <1>2 DEF AnnounceFails, Crash, Breaks
  <2>2. /\ at'[a] = "idle"
        /\ \A b \in Analyzers \ {a} : at'[b] = at[b] /\ job'[b] = job[b]
    BY <2>1 DEF Done, IInv, TypeOK
  <2>3. Excused(a)
    BY <2>1, <2>2, BreakExcused
  <2> QED
    BY <2>1, <2>2, <2>3 DEF Answers, LeadMoves, LeadWalks, rows, Writes, Bring
<1> QED
  BY <1>1, <1>2

\* The chain ends, or goes on at another step.
LEMMA DoneWalks ==
  ASSUME IInv, NEW a \in Analyzers, Done(a)
  PROVE  /\ at'[a] = "idle" /\ at'[a] \notin Writes
         /\ \A b \in Analyzers \ {a} : at'[b] = at[b] /\ job'[b] = job[b]
BY DEF Done, IInv, TypeOK, Writes, Bring

LEMMA GoWalks ==
  ASSUME IInv, NEW a \in Analyzers, NEW s, at' = [at EXCEPT ![a] = s], job' = job
  PROVE  /\ at'[a] = s /\ job'[a] = job[a]
         /\ \A b \in Analyzers \ {a} : at'[b] = at[b] /\ job'[b] = job[b]
BY DEF IInv, TypeOK

\* A step that is neither in a judgement nor in an announcement, and writes no row.
LEMMA QuietAnswers ==
  ASSUME IInv, LeadInv, NEW a \in Analyzers,
         \/ Take(a) \/ ParseDismisses(a) \/ ParseReads(a)
         \/ GenerateReads(a) \/ GenerateRefuses(a) \/ GenerateLooksUp(a)
         \/ Retry(a) \/ DeadLetter(a) \/ QualifyLost(a)
  PROVE  Answers(a)
<1>1. UNCHANGED <<rows, cards>> /\ at[a] \in {"idle", "parse", "generate", "compose", "failed"}
  BY DEF Take, ParseDismisses, ParseReads, GenerateReads, GenerateRefuses, GenerateLooksUp,
         Retry, DeadLetter, QualifyLost, Raise
<1>2. at[a] \notin Judge \union Bring /\ LeadMoves(a)
  BY <1>1 DEF Judge, Bring, LeadMoves, rows
<1>3. LeadWalks(a)
  <2>1. CASE Done(a)
    BY <2>1, DoneWalks DEF LeadWalks
  <2>2. CASE Take(a)
    <3>1. PICK t \in tasks[a] : /\ job' = [job EXCEPT ![a] = t]
                               /\ at' = [at EXCEPT ![a] = IF t.kind = "parse" THEN "parse" ELSE "qualify"]
      BY <2>2 DEF Take
    <3>2. /\ at'[a] \in {"parse", "qualify"}
          /\ \A b \in Analyzers \ {a} : at'[b] = at[b] /\ job'[b] = job[b]
      BY <3>1 DEF IInv, TypeOK
    <3> QED
      BY <3>2 DEF LeadWalks, Writes, Bring
  <2>3. CASE ~ Done(a) /\ ~ Take(a)
    <3>1. PICK s \in Steps :
            /\ at' = [at EXCEPT ![a] = s] /\ job' = job
            /\ s \in Writes => at[a] \in Writes
      <4>1. CASE ParseReads(a) \/ Retry(a)
        BY <4>1 DEF ParseReads, Retry, Raise, GoTo, Steps, Writes, Bring
      <4>2. CASE GenerateReads(a) \/ GenerateLooksUp(a)
        BY <2>3, <4>2 DEF GenerateReads, GenerateLooksUp, Raise, GoTo, Steps, Writes, Bring
      <4> QED
        BY <2>3, <4>1, <4>2 DEF ParseDismisses, GenerateRefuses, DeadLetter, QualifyLost
    <3>2. "idle" \notin Writes
      BY DEF Writes, Bring
    <3> QED
      BY <3>1, <3>2, GoWalks DEF LeadWalks
  <2> QED
    BY <2>1, <2>2, <2>3
<1>4. Excused(a)
  BY <1>1, <1>2, <1>3, QuietExcused DEF LeadWalks
<1> QED
  BY <1>2, <1>3, <1>4 DEF Answers

\* The post an analyzer stores it deduplicates next; a duplicate is settled.
LEMMA StoreAnswers ==
  ASSUME IInv, LeadInv, NEW a \in Analyzers, ParseStores(a) \/ Dedupe(a)
  PROVE  Answers(a)
<1>1. /\ at[a] \in {"store", "dedupe"} /\ UNCHANGED <<lead, draft, cards>> /\ Post(a) \in Posts
      /\ vacancy \in [Posts -> {"none"} \union VacancyStatus]
  BY AtWork DEF ParseStores, Dedupe, Raise, rows, IInv, TypeOK
<1>2. CASE Raise(a)
  BY <1>1, <1>2, RaiseAnswers
<1>3. CASE ParseStores(a) /\ ~ Raise(a)
  <2>1. /\ vacancy[Post(a)] = "none" /\ vacancy' = [vacancy EXCEPT ![Post(a)] = "parsed"]
        /\ at' = [at EXCEPT ![a] = "dedupe"] /\ job' = job
    BY <1>3 DEF ParseStores, GoTo
  <2>2. LeadMoves(a) /\ LeadWalks(a)
    BY <1>1, <2>1, GoWalks DEF LeadMoves, LeadWalks, Writes, Bring
  <2>3. ASSUME NEW m \in Posts PROVE Stranded(m)' => Stranded(m)
    <3>1. /\ at'[a] \in Judge /\ job'[a].post = Post(a)
          /\ at[a] \notin Judge \union Bring
          /\ m # Post(a) => vacancy'[m] = vacancy[m]
      BY <1>1, <1>3, <2>1, GoWalks DEF Judge, Bring, Post, ParseStores
    <3> QED
      BY <1>1, <2>2, <3>1, StaysAtWork DEF LeadWalks
  <2> QED
    BY <2>2, <2>3 DEF Answers, Excused
<1>4. CASE Dedupe(a) /\ ~ Raise(a) /\ Done(a)
  <2>1. vacancy' = [vacancy EXCEPT ![Post(a)] = "duplicate"]
    <3>1. ~ GoTo(a, "qualify")
      BY <1>4, DoneWalks, GoWalks DEF GoTo
    <3> QED
      BY <1>4, <3>1 DEF Dedupe
  <2>2. LeadMoves(a) /\ LeadWalks(a)
    BY <1>1, <1>4, <2>1, DoneWalks DEF LeadMoves, LeadWalks
  <2>3. ASSUME NEW m \in Posts PROVE Stranded(m)' => Stranded(m)
    <3>1. /\ vacancy'[Post(a)] # "parsed" /\ at[a] \notin Bring
          /\ m # Post(a) => vacancy'[m] = vacancy[m]
      BY <1>1, <1>4, <2>1 DEF Bring, Dedupe
    <3> QED
      BY <1>1, <2>2, <3>1, StaysAtWork DEF LeadWalks
  <2> QED
    BY <2>2, <2>3 DEF Answers, Excused
<1>5. CASE Dedupe(a) /\ ~ Raise(a) /\ ~ Done(a)
  <2>1. UNCHANGED rows /\ at' = [at EXCEPT ![a] = "qualify"] /\ job' = job
    BY <1>5 DEF Dedupe, GoTo
  <2>2. LeadMoves(a) /\ LeadWalks(a)
    BY <1>1, <2>1, GoWalks DEF LeadMoves, LeadWalks, Writes, Bring, rows
  <2>3. ASSUME NEW m \in Posts PROVE Stranded(m)' => Stranded(m)
    <3>1. at'[a] \in Judge /\ job'[a].post = Post(a) /\ at[a] \notin Bring
      BY <1>5, <2>1, GoWalks DEF Judge, Bring, Post, Dedupe
    <3> QED
      BY <1>1, <2>1, <2>2, <3>1, StaysAtWork DEF LeadWalks, rows
  <2> QED
    BY <2>2, <2>3 DEF Answers, Excused
<1> QED
  BY <1>2, <1>3, <1>4, <1>5
\* A judgement ends with the vacancy's verdict, or hands the vacancy on with its lead.
LEMMA QualifyAnswers ==
  ASSUME IInv, LeadInv, NEW a \in Analyzers,
         QualifyReads(a) \/ QualifyRejects(a) \/ \E high \in BOOLEAN : QualifyAccepts(a, high)
  PROVE  Answers(a)
<1>1. /\ at[a] \in {"qualify", "score"} /\ UNCHANGED <<draft, cards>> /\ Post(a) \in Posts
      /\ vacancy \in [Posts -> {"none"} \union VacancyStatus]
      /\ lead \in [Posts -> {"none"} \union LeadStatus]
  BY AtWork DEF QualifyReads, QualifyRejects, QualifyAccepts, Raise, rows, IInv, TypeOK
<1>2. CASE Raise(a)
  BY <1>1, <1>2, RaiseAnswers
<1>3. CASE ~ Raise(a)
  \* The vacancy is settled, or the analyzer stays at its judgement.
  <2> DEFINE Settles == /\ LeadMoves(a) /\ LeadWalks(a)
                        /\ \/ vacancy'[Post(a)] # "parsed"
                           \/ at'[a] \in Judge /\ job'[a] = job[a] /\ vacancy' = vacancy
                        /\ \A m \in Posts \ {Post(a)} : vacancy'[m] = vacancy[m]
  <2>1. Settles
    <3>1. CASE Done(a)
      <4>1. /\ vacancy' = [vacancy EXCEPT ![Post(a)] = "rejected"] /\ lead' = lead
        <5>1. \A s \in Steps \ {"idle"} : ~ GoTo(a, s)
          BY <3>1, DoneWalks, GoWalks DEF GoTo
        <5>2. {"generate", "score"} \subseteq Steps \ {"idle"}
          BY DEF Steps
        <5> QED
          BY <1>3, <5>1, <5>2 DEF QualifyReads, QualifyRejects, QualifyAccepts
      <4> QED
        BY <1>1, <3>1, <4>1, DoneWalks DEF LeadMoves, LeadWalks
    <3>2. CASE ~ Done(a) /\ QualifyReads(a)
      <4>1. /\ at' = [at EXCEPT ![a] = IF lead[Post(a)] # "none" THEN "generate" ELSE "score"]
            /\ job' = job /\ UNCHANGED rows
        BY <1>3, <3>2 DEF QualifyReads, GoTo
      <4>2. /\ at'[a] = IF lead[Post(a)] # "none" THEN "generate" ELSE "score"
            /\ job'[a] = job[a]
            /\ \A b \in Analyzers \ {a} : at'[b] = at[b] /\ job'[b] = job[b]
        BY <4>1, GoWalks
      <4>3. LeadWalks(a)
        BY <1>1, <4>1, <4>2 DEF LeadWalks, Writes, Bring, rows
      <4>4. lead[Post(a)] # "none" => vacancy[Post(a)] # "parsed"
        BY <1>1 DEF LeadInv
      <4> QED
        BY <4>1, <4>2, <4>3, <4>4 DEF LeadMoves, Judge, rows
    <3>3. ASSUME NEW high \in BOOLEAN, QualifyAccepts(a, high)
          PROVE  Settles
      <4>1. /\ lead' = [lead EXCEPT ![Post(a)] = "qualified"]
            /\ vacancy' = [vacancy EXCEPT ![Post(a)] = "qualified"]
            /\ at' = [at EXCEPT ![a] = "generate"] /\ job' = job
        BY <1>3, <3>3 DEF QualifyAccepts, GoTo
      <4>2. LeadWalks(a)
        BY <1>1, <4>1, GoWalks DEF LeadWalks
      <4> QED
        BY <1>1, <4>1, <4>2 DEF LeadMoves
    <3> QED
      BY <3>1, <3>2, <3>3 DEF QualifyRejects
  <2>2. ASSUME NEW m \in Posts PROVE Stranded(m)' => Stranded(m)
    <3>1. at[a] \notin Bring
      BY <1>1 DEF Bring
    <3> QED
      BY <1>1, <2>1, <3>1, StaysAtWork DEF LeadWalks, Post
  <2> QED
    BY <2>1, <2>2 DEF Answers, Excused
<1> QED
  BY <1>2, <1>3

\* A draft that is written is announced next.
LEMMA WriteAnswers ==
  ASSUME IInv, LeadInv, NEW a \in Analyzers, GenerateWrites(a)
  PROVE  Answers(a)
<1>1. /\ at[a] = "draft" /\ UNCHANGED <<vacancy, cards>> /\ Post(a) \in Posts
      /\ draft \in [Posts -> {"none"} \union OutreachStatus]
  BY AtWork DEF GenerateWrites, Raise, rows, IInv, TypeOK
<1>2. CASE Raise(a)
  BY <1>1, <1>2, RaiseAnswers
<1>3. CASE ~ Raise(a)
  <2>1. /\ lead' = [lead EXCEPT ![Post(a)] = "outreach_drafted"]
        /\ at' = [at EXCEPT ![a] = "announce"] /\ job' = job
        /\ \A m \in Posts \ {Post(a)} : draft'[m] = draft[m]
    BY <1>1, <1>3 DEF GenerateWrites, GoTo
  <2>2. LeadMoves(a) /\ LeadWalks(a)
    BY <1>1, <2>1, GoWalks DEF LeadMoves, LeadWalks, Writes
  <2>3. ASSUME NEW m \in Posts PROVE Stranded(m)' => Stranded(m)
    <3>1. at'[a] \in Bring /\ job'[a].post = Post(a) /\ at[a] \notin Judge \union Bring
      BY <1>1, <2>1, GoWalks DEF Judge, Bring, Post
    <3> QED
      BY <1>1, <2>1, <2>2, <3>1, StaysAtWork DEF LeadWalks
  <2> QED
    BY <2>2, <2>3 DEF Answers, Excused
<1> QED
  BY <1>2, <1>3

\* An announcement ends with a card, or with a draft that is decided on.
LEMMA BringAnswers ==
  ASSUME IInv, LeadInv, NEW a \in Analyzers, Announce(a) \/ ApproveReads(a) \/ ApproveCommits(a)
  PROVE  Answers(a)
<1>1. /\ at[a] \in Bring /\ vacancy' = vacancy /\ cards \subseteq cards' /\ Post(a) \in Posts
      /\ draft \in [Posts -> {"none"} \union OutreachStatus] /\ at[a] \notin Judge
  BY AtWork DEF Announce, ApproveReads, ApproveCommits, rows, IInv, TypeOK, Bring, Judge
<1>2. /\ LeadMoves(a) /\ LeadWalks(a)
      /\ \/ draft'[Post(a)] # "drafted" \/ Post(a) \in cards'
         \/ at'[a] \in Bring /\ job'[a] = job[a] /\ draft' = draft
      /\ \A m \in Posts \ {Post(a)} : draft'[m] = draft[m]
  <2>1. CASE Announce(a)
    <3>1. Done(a) /\ UNCHANGED rows /\ Post(a) \in cards'
      BY <2>1 DEF Announce
    <3> QED
      BY <3>1, DoneWalks DEF LeadMoves, LeadWalks, rows
  <2>2. CASE ApproveReads(a)
    <3>1. UNCHANGED rows
      BY <2>2 DEF ApproveReads
    <3>2. CASE Done(a)
      <4>1. draft[Post(a)] # "drafted"
        BY <2>2, <3>2, DoneWalks, GoWalks DEF ApproveReads, GoTo
      <4> QED
        BY <3>1, <3>2, <4>1, DoneWalks DEF LeadMoves, LeadWalks, rows
    <3>3. CASE ~ Done(a)
      <4>1. at' = [at EXCEPT ![a] = "approve"] /\ job' = job /\ at[a] = "announce"
        BY <2>2, <3>3 DEF ApproveReads, GoTo
      <4> QED
        BY <3>1, <4>1, GoWalks DEF LeadMoves, LeadWalks, Writes, Bring, rows
    <3> QED
      BY <3>2, <3>3
  <2>3. CASE ApproveCommits(a)
    <3>1. /\ Done(a) /\ at[a] = "approve" /\ vacancy' = vacancy
          /\ draft' = [draft EXCEPT ![Post(a)] = "approved"]
          /\ lead' = [lead EXCEPT ![Post(a)] = "outreach_approved"]
      BY <2>3 DEF ApproveCommits
    <3> QED
      BY <1>1, <3>1, DoneWalks DEF LeadMoves, LeadWalks, Writes, Bring
  <2> QED
    BY <2>1, <2>2, <2>3
<1>3. ASSUME NEW m \in Posts PROVE Stranded(m)' => Stranded(m)
  BY <1>1, <1>2, StaysAtWork DEF LeadWalks, Post
<1> QED
  BY <1>2, <1>3 DEF Answers, Excused

\* The steps that are not an analyzer's: scanners, tasks, operators and recipients.
LEMMA OthersKeepLeadInv ==
  ASSUME IInv, LeadInv, Deciding \/ UNCHANGED <<rows, analyzer, cards>>
  PROVE  LeadInv' /\ \A m \in Posts : Stranded(m)' => Stranded(m)
<1>1. /\ lead \in [Posts -> {"none"} \union LeadStatus]
      /\ draft \in [Posts -> {"none"} \union OutreachStatus]
  BY DEF IInv, TypeOK
<1>2. /\ UNCHANGED <<vacancy, analyzer, cards>>
      /\ (lead' = lead /\ draft' = draft) \/ \E m \in Posts : Writing(m)
  BY DecisionWrites DEF rows
<1>3. \A n \in Posts : lead'[n] # "none" <=> lead[n] # "none"
  <2>1. ASSUME NEW m \in Posts, Writing(m), NEW n \in Posts
        PROVE  lead'[n] # "none" <=> lead[n] # "none"
    <3>1. draft[m] # "none" /\ (lead' = lead \/ lead' = [lead EXCEPT ![m] = "outreach_approved"])
      BY <2>1 DEF Writing
    <3>2. lead[m] # "none"
      BY <3>1 DEF IInv, AgreeInv
    <3> QED
      BY <1>1, <3>1, <3>2
  <2> QED
    BY <1>2, <2>1
<1>4. LeadInv'
  <2>1. \A a \in Analyzers : at[a] \in Writes => Post(a) \in Posts
    BY AtWork DEF Writes, Bring
  <2> QED
    BY <1>2, <1>3, <2>1 DEF LeadInv, Post, analyzer
<1>5. ASSUME NEW n \in Posts PROVE Stranded(n)' => Stranded(n)
  <2>1. draft'[n] = "drafted" => draft[n] = "drafted"
    BY <1>1, <1>2 DEF Writing
  <2> QED
    BY <1>2, <2>1 DEF Stranded, Judging, Announcing, Post, analyzer
<1> QED
  BY <1>4, <1>5

LEMMA LeadInvNext ==
  ASSUME IInv, LeadInv, [Next]_vars
  PROVE  /\ LeadInv'
         /\ \A m \in Posts :
              Stranded(m)' => Stranded(m) \/ \E a \in Analyzers : Post(a) = m /\ Breaks(a)
<1>1. ASSUME NEW a \in Analyzers,
             Take(a) \/ Analyze(a) \/ AnnounceFails(a) \/ StepFails(a) \/ Crash(a)
      PROVE  Answers(a)
  <2>1. CASE AnnounceFails(a) \/ StepFails(a) \/ Crash(a)
    <3>1. UNCHANGED cards
      BY <2>1 DEF AnnounceFails, StepFails, Crash
    <3> QED
      BY <2>1, <3>1, RaiseAnswers
  <2>2. CASE Take(a) \/ Analyze(a)
    BY <2>2, QuietAnswers, StoreAnswers, QualifyAnswers, WriteAnswers, BringAnswers DEF Analyze
  <2> QED
    BY <1>1, <2>1, <2>2
<1>2. ASSUME NEW a \in Analyzers, Answers(a)
      PROVE  /\ LeadInv'
             /\ \A m \in Posts : Stranded(m)' => Stranded(m) \/ (Post(a) = m /\ Breaks(a))
  BY <1>2, LeadInvKept DEF Answers, Excused
<1>3. CASE UNCHANGED <<rows, analyzer, cards>>
  BY <1>3, OthersKeepLeadInv
<1>4. CASE Deciding
  BY <1>4, OthersKeepLeadInv
<1>5. CASE \/ \E s \in Scanners :
                \/ ScanCommits(s) \/ ScanFails(s)
                \/ \E found \in Fetched : ScanChannel(s, found)
           \/ \E a \in Analyzers, m \in Posts : ParseTask(a, m) \/ QualifyTask(a, m)
  <2>1. UNCHANGED <<rows, analyzer, cards>>
    BY <1>5 DEF ScanCommits, ScanFails, ScanChannel, ParseTask, QualifyTask
  <2> QED
    BY <1>3, <2>1
<1> QED
  BY <1>1, <1>2, <1>3, <1>4, <1>5 DEF Next, Deciding, vars

LEMMA AlwaysLeadInv == Spec => [](IInv /\ LeadInv)
<1>1. Init => IInv /\ LeadInv
  BY InitIInv DEF Init, LeadInv, Writes, Bring
<1>2. (IInv /\ LeadInv) /\ [Next]_vars => (IInv /\ LeadInv)'
  BY StepIInv, LeadInvNext
<1> QED
  BY <1>1, <1>2, PTL DEF Spec

\* Nothing but a failure of the chain that was at it leaves a vacancy unjudged or a
\* draft unknown to the operators, with any number of analyzers, tasks and failures.
THEOREM NothingElseStrands == Spec => OnlyFailuresStrand
<1>1. IInv /\ LeadInv /\ [Next]_vars =>
        [\A m \in Posts :
           Stranded(m)' => Stranded(m) \/ \E a \in Analyzers : Post(a) = m /\ Breaks(a)]_vars
  BY LeadInvNext
<1> QED
  BY <1>1, AlwaysLeadInv, PTL DEF OnlyFailuresStrand, Spec

--------------------------------------------------------------------------------
(***************************************************************************)
(* Leads and outreaches.                                                   *)
(***************************************************************************)

\* An analyzer approves draft and lead together, and writes neither apart.
LEMMA AnalyzersWriteTogether ==
  ASSUME IInv, NEW a \in Analyzers, Analyze(a), NEW m \in Posts, Apart(m)'
  PROVE  Apart(m)
<1>1. /\ draft \in [Posts -> {"none"} \union OutreachStatus]
      /\ lead \in [Posts -> {"none"} \union LeadStatus]
      /\ at[a] # "idle" => Post(a) \in Posts
  BY AtWork DEF IInv, TypeOK
<1>2. CASE lead' = lead /\ draft' = draft
  BY <1>2 DEF Apart
<1>3. CASE GenerateWrites(a) /\ ~ (lead' = lead /\ draft' = draft)
  <2>1. /\ Post(a) \in Posts /\ lead' = [lead EXCEPT ![Post(a)] = "outreach_drafted"]
        /\ \E d : draft' = [draft EXCEPT ![Post(a)] = d]
    BY <1>1, <1>3 DEF GenerateWrites, Raise, rows
  <2> QED
    BY <1>1, <2>1 DEF Apart
<1>4. CASE ApproveCommits(a)
  <2>1. /\ Post(a) \in Posts /\ draft' = [draft EXCEPT ![Post(a)] = "approved"]
        /\ lead' = [lead EXCEPT ![Post(a)] = "outreach_approved"]
    BY <1>1, <1>4 DEF ApproveCommits
  <2> QED
    BY <1>1, <2>1 DEF Apart
<1>5. ASSUME NEW high \in BOOLEAN, QualifyAccepts(a, high), ~ (lead' = lead /\ draft' = draft)
      PROVE  Apart(m)
  <2>1. Post(a) \in Posts /\ draft' = draft /\ lead' = [lead EXCEPT ![Post(a)] = "qualified"]
    BY <1>1, <1>5 DEF QualifyAccepts, Raise, rows
  <2> QED
    BY <1>1, <2>1 DEF Apart
<1> QED
  BY <1>2, <1>3, <1>4, <1>5 DEF Analyze, ParseDismisses, ParseReads, ParseStores, Dedupe,
     QualifyReads, QualifyRejects, GenerateReads, GenerateRefuses, GenerateLooksUp, Announce,
     ApproveReads, Retry, DeadLetter, QualifyLost, Raise, rows

\* Lead and outreach agree, whoever generates, approves or rejects, and whatever fails; they
\* come apart by nothing but a rejection that read the draft before its approval.
THEOREM LeadFollowsDraft == Spec => LeadAgreesWithDraft
<1>1. IInv /\ LeadInv => RowsAgree
  BY DEF IInv, AgreeInv, LeadInv, RowsAgree
<1>2. ASSUME IInv, [Next]_vars, NEW m \in Posts, Apart(m)'
      PROVE  \/ Apart(m)
             \/ \E d \in Decisions :
                  /\ DecisionCommits(d) /\ draft[m] = "approved"
                  /\ decision[d] = [to |-> "rejected", post |-> m, found |-> "drafted"]
  <2>1. ASSUME NEW d \in Decisions, DecisionCommits(d), ~ Apart(m)
        PROVE  /\ draft[m] = "approved"
               /\ decision[d] = [to |-> "rejected", post |-> m, found |-> "drafted"]
    <3>1. /\ decision[d] \in Decision /\ decision[d].post \in Posts
          /\ decision[d].found = "drafted"
      BY <1>2, <2>1, DecidedPosts DEF DecisionCommits, IInv, DecisionInv
    <3>2. /\ draft \in [Posts -> {"none"} \union OutreachStatus]
          /\ lead \in [Posts -> {"none"} \union LeadStatus]
      BY <1>2 DEF IInv, TypeOK
    <3>3. decision[d].post = m /\ decision[d].to # "approved" /\ draft[m] = "approved"
      BY <1>2, <2>1, <3>2 DEF DecisionCommits, Apart
    <3> QED
      BY <3>1, <3>3 DEF Decision
  <2>2. CASE lead' = lead /\ draft' = draft
    BY <1>2, <2>2 DEF Apart
  <2>3. CASE \E a \in Analyzers : Analyze(a)
    BY <1>2, <2>3, AnalyzersWriteTogether
  <2>4. CASE \/ UNCHANGED vars
             \/ \E s \in Scanners :
                  \/ ScanCommits(s) \/ ScanFails(s)
                  \/ \E found \in Fetched : ScanChannel(s, found)
             \/ \E a \in Analyzers :
                  \/ Take(a) \/ AnnounceFails(a) \/ StepFails(a) \/ Crash(a)
                  \/ \E n \in Posts : ParseTask(a, n) \/ QualifyTask(a, n)
             \/ \E d \in Decisions :
                  \/ DecisionFails(d)
                  \/ \E n \in Posts, to \in {"approved", "rejected"} : DecisionReads(d, n, to)
             \/ \E n \in Posts : OptOut(n)
    <3>1. lead' = lead /\ draft' = draft
      BY <2>4 DEF ScanCommits, ScanFails, ScanChannel, Take, AnnounceFails, StepFails, Crash,
         ParseTask, QualifyTask, DecisionFails, DecisionReads, OptOut, rows, vars
    <3> QED
      BY <2>2, <3>1
  <2> QED
    BY <1>2, <2>1, <2>3, <2>4 DEF Next
<1>3. IInv /\ LeadInv /\ [Next]_vars =>
        [\A m \in Posts : Apart(m)' =>
           \/ Apart(m)
           \/ \E d \in Decisions :
                /\ DecisionCommits(d) /\ draft[m] = "approved"
                /\ decision[d] = [to |-> "rejected", post |-> m, found |-> "drafted"]]_vars
  BY <1>2
<1> QED
  BY <1>1, <1>3, AlwaysLeadInv, PTL DEF LeadAgreesWithDraft, Spec

================================================================================
