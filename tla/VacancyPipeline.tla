---------------------------- MODULE VacancyPipeline ----------------------------
(***************************************************************************)
(* From a post in a channel to a draft on the operator's desk:             *)
(* ScanChannelsUseCase run by ScannerWorker, and AnalyzerWorker's chain of *)
(* parse, deduplicate, qualify, generate and announce.                     *)
(*                                                                         *)
(* Every use case is one transaction of its own with a call of the         *)
(* language model inside.  An analyzer retries the whole chain when one    *)
(* link fails, and finds then what the links before it have committed.     *)
(***************************************************************************)
EXTENDS Naturals, Transitions

CONSTANTS
  Posts,         \* messages in the channels worth scanning
  ChannelOf,
  TextOf,        \* the normalised text, of which text_hash is a hash
  Contacts,
  ContactOf,     \* whom parsing finds in the post: author or @username
  NoContact,     \* ... or nobody
  Reachable,     \* contacts with a user id; the others are usernames
  NoPost,
  Scanners,
  Analyzers,     \* processes that consume analyzer tasks
  Decisions,     \* concurrent approve and reject calls of operators
  AutoApprove,   \* settings.auto_approve
  MaxAttempts,   \* settings.max_retries
  MaxScans,      \* bound: channel scans
  MaxParses,     \* bound: PARSE_VACANCY tasks
  MaxQualifies,  \* bound: QUALIFY_VACANCY tasks
  MaxFaults,     \* bound: failing model calls, transactions, notifications
  MaxCrashes     \* bound: analyzer crashes

ASSUME PostsAssumption ==
  /\ ContactOf \in [Posts -> Contacts \union {NoContact}]
  /\ Reachable \subseteq Contacts
  /\ NoContact \notin Contacts
  /\ NoPost \notin Posts

ASSUME BoundsAssumption ==
  /\ AutoApprove \in BOOLEAN
  /\ MaxAttempts \in Nat \ {0}
  /\ MaxScans \in Nat /\ MaxParses \in Nat /\ MaxQualifies \in Nat
  /\ MaxFaults \in Nat /\ MaxCrashes \in Nat

VARIABLES
  \* the database
  seenAt,     \* messages.discovered_at, 0 when the post is not stored
  vacancy,    \* vacancies.status of the post, or "none"
  lead,       \* leads.status, or "none"
  confident,  \* leads.score >= settings.confidence_threshold
  draft,      \* outreach.status, or "none"
  contactRows,\* rows of the contacts table for each contact
  optedOut,   \* contacts.opted_out
  dlq,        \* posts with a dead-letter row
  \* the operators' chat
  cards,      \* posts a card was shown for
  \* the memory of the processes
  scan,       \* what each scanner's transaction has found, with its times
  tasks,      \* analyzer tasks in each process's queue
  at,         \* where each analyzer stands
  job,        \* the task it handles
  attempt,    \* tenacity's attempt number
  seen,       \* what the running use case read
  decision,   \* the calls of operators that have read a draft and not committed
  \* the bounded environment
  clock, parses, qualifies, faults, crashes

rows     == <<vacancy, lead, confident, draft, contactRows, optedOut>>
analyzer == <<at, job, attempt, seen>>
scanning == <<seenAt, scan, clock>>
env      == <<parses, qualifies, faults, crashes>>
vars     == <<scanning, rows, dlq, cards, tasks, analyzer, decision, env>>

Steps == {"idle", "parse", "store", "dedupe", "qualify", "score", "generate",
          "compose", "draft", "announce", "approve", "failed"}
Task    == [kind : {"parse", "qualify"}, post : Posts]
NoTask  == [kind |-> "none", post |-> NoPost]
Nothing == [contact |-> FALSE, lead |-> "none"]
Undecided == [to |-> "none", post |-> NoPost, found |-> "none"]
Decision == [to : {"approved", "rejected"}, post : Posts, found : OutreachStatus]

TypeOK ==
  /\ seenAt \in [Posts -> 0 .. MaxScans]
  /\ vacancy \in [Posts -> {"none"} \union VacancyStatus]
  /\ lead \in [Posts -> {"none"} \union LeadStatus]
  /\ confident \in [Posts -> BOOLEAN]
  /\ draft \in [Posts -> {"none"} \union OutreachStatus]
  /\ contactRows \in [Contacts -> Nat]
  /\ optedOut \in [Contacts -> BOOLEAN]
  /\ dlq \subseteq Posts
  /\ cards \subseteq Posts
  /\ scan \in [Scanners -> [Posts -> 0 .. MaxScans]]
  /\ tasks \in [Analyzers -> SUBSET Task]
  /\ at \in [Analyzers -> Steps]
  /\ job \in [Analyzers -> Task \union {NoTask}]
  /\ attempt \in [Analyzers -> 0 .. MaxAttempts]
  /\ seen \in [Analyzers -> [contact : BOOLEAN, lead : {"none"} \union LeadStatus]]
  /\ decision \in [Decisions -> Decision \union {Undecided}]
  /\ clock \in 0 .. MaxScans
  /\ parses \in 0 .. MaxParses
  /\ qualifies \in 0 .. MaxQualifies
  /\ faults \in 0 .. MaxFaults
  /\ crashes \in 0 .. MaxCrashes

Unseen == [m \in Posts |-> 0]

Init ==
  /\ seenAt = Unseen
  /\ vacancy = [m \in Posts |-> "none"]
  /\ lead = [m \in Posts |-> "none"]
  /\ confident = [m \in Posts |-> FALSE]
  /\ draft = [m \in Posts |-> "none"]
  /\ contactRows = [c \in Contacts |-> 0]
  /\ optedOut = [c \in Contacts |-> FALSE]
  /\ dlq = {} /\ cards = {}
  /\ scan = [s \in Scanners |-> Unseen]
  /\ tasks = [a \in Analyzers |-> {}]
  /\ at = [a \in Analyzers |-> "idle"]
  /\ job = [a \in Analyzers |-> NoTask]
  /\ attempt = [a \in Analyzers |-> 0]
  /\ seen = [a \in Analyzers |-> Nothing]
  /\ decision = [d \in Decisions |-> Undecided]
  /\ clock = 0
  /\ parses = 0 /\ qualifies = 0 /\ faults = 0 /\ crashes = 0

--------------------------------------------------------------------------------
(***************************************************************************)
(* Scanning.  The transaction of one search query covers every channel the *)
(* query finds; the posts of one channel get one time.                     *)
(***************************************************************************)

\* get_recent_messages returns what Telegram gave before an error or the limit.
Fetched == {found \in SUBSET Posts : \A m, n \in found : ChannelOf[m] = ChannelOf[n]}

\* Posts without a row, as the scanner's own transaction sees it.
Unstored(s) == {m \in Posts : seenAt[m] = 0 /\ scan[s][m] = 0}

ScanChannel(s, found) ==
  /\ clock < MaxScans
  /\ found \intersect Unstored(s) # {}
  /\ clock' = clock + 1
  /\ scan' = [scan EXCEPT ![s] = [m \in Posts |->
                IF m \in found \intersect Unstored(s) THEN clock' ELSE @[m]]]
  /\ UNCHANGED <<seenAt, rows, dlq, cards, tasks, analyzer, decision, env>>

\* A post that another scanner stored meanwhile violates uq_msg_chan_tmid, and
\* the whole query is rolled back.
ScanCommits(s) ==
  /\ scan[s] # Unseen
  /\ scan' = [scan EXCEPT ![s] = Unseen]
  /\ seenAt' = IF \E m \in Posts : scan[s][m] > 0 /\ seenAt[m] > 0
               THEN seenAt
               ELSE [m \in Posts |-> IF scan[s][m] > 0 THEN scan[s][m] ELSE seenAt[m]]
  /\ UNCHANGED <<clock, rows, dlq, cards, tasks, analyzer, decision, env>>

\* The query fails half-way; the worker logs it and scans again later.
ScanFails(s) ==
  /\ scan[s] # Unseen
  /\ faults < MaxFaults
  /\ faults' = faults + 1
  /\ scan' = [scan EXCEPT ![s] = Unseen]
  /\ UNCHANGED <<seenAt, clock, rows, dlq, cards, tasks, analyzer, decision, parses,
                 qualifies, crashes>>

--------------------------------------------------------------------------------
(***************************************************************************)
(* The tasks of an analyzer.  No code enqueues them: the scanner leaves    *)
(* that to "a more advanced implementation", and says that enqueueing a    *)
(* post again is safe.                                                     *)
(***************************************************************************)

ParseTask(a, m) ==
  /\ parses < MaxParses
  /\ seenAt[m] > 0
  /\ parses' = parses + 1
  /\ tasks' = [tasks EXCEPT ![a] = @ \union {[kind |-> "parse", post |-> m]}]
  /\ UNCHANGED <<scanning, rows, dlq, cards, analyzer, decision, qualifies, faults, crashes>>

QualifyTask(a, m) ==
  /\ qualifies < MaxQualifies
  /\ vacancy[m] # "none"
  /\ qualifies' = qualifies + 1
  /\ tasks' = [tasks EXCEPT ![a] = @ \union {[kind |-> "qualify", post |-> m]}]
  /\ UNCHANGED <<scanning, rows, dlq, cards, analyzer, decision, parses, faults, crashes>>

Take(a) ==
  /\ at[a] = "idle"
  /\ \E t \in tasks[a] :
       /\ tasks' = [tasks EXCEPT ![a] = @ \ {t}]
       /\ job' = [job EXCEPT ![a] = t]
       /\ at' = [at EXCEPT ![a] = IF t.kind = "parse" THEN "parse" ELSE "qualify"]
  /\ attempt' = [attempt EXCEPT ![a] = 1]
  /\ UNCHANGED <<scanning, rows, dlq, cards, seen, decision, env>>

--------------------------------------------------------------------------------
(***************************************************************************)
(* AnalyzerWorker's chain.                                                 *)
(***************************************************************************)

Post(a)    == job[a].post
Contact(a) == ContactOf[Post(a)]

\* A contact of which there are two rows makes scalar_one_or_none raise, in every
\* use case that reads a vacancy of theirs.
Ambiguous(a) == Contact(a) # NoContact /\ contactRows[Contact(a)] > 1

GoTo(a, s) ==
  /\ at' = [at EXCEPT ![a] = s]
  /\ UNCHANGED <<job, attempt, seen>>

Done(a) ==
  /\ at' = [at EXCEPT ![a] = "idle"]
  /\ job' = [job EXCEPT ![a] = NoTask]
  /\ attempt' = [attempt EXCEPT ![a] = 0]
  /\ seen' = [seen EXCEPT ![a] = Nothing]

\* The use case raises and leaves no trace.
Raise(a) == GoTo(a, "failed") /\ UNCHANGED rows

\* What the analyzer's use cases leave alone.
AnalyzerOnly == UNCHANGED <<scanning, tasks, decision, env>>

\* Not a vacancy, or a vacancy already: the chain ends here, successfully.
ParseDismisses(a) ==
  /\ at[a] = "parse"
  /\ Done(a)
  /\ AnalyzerOnly /\ UNCHANGED <<rows, dlq, cards>>

ParseReads(a) ==
  /\ at[a] = "parse"
  /\ vacancy[Post(a)] = "none"
  /\ IF Ambiguous(a)
     THEN Raise(a)
     ELSE /\ at' = [at EXCEPT ![a] = "store"]
          /\ seen' = [seen EXCEPT ![a].contact =
                        Contact(a) = NoContact \/ contactRows[Contact(a)] > 0]
          /\ UNCHANGED <<job, attempt, rows>>
  /\ AnalyzerOnly /\ UNCHANGED <<dlq, cards>>

\* A contact's row is inserted when there was none; only user ids are unique.
NewContact(a) ==
  IF seen[a].contact THEN contactRows
  ELSE [contactRows EXCEPT ![Contact(a)] = @ + 1]

\* Mutant: no UNIQUE (message_id) on vacancies.
ParseStoresAgain(a) ==
  /\ at[a] = "store"
  /\ vacancy' = [vacancy EXCEPT ![Post(a)] = "parsed"]
  /\ contactRows' = NewContact(a)
  /\ GoTo(a, "dedupe")
  /\ AnalyzerOnly /\ UNCHANGED <<lead, confident, draft, optedOut, dlq, cards>>

ParseStores(a) ==
  /\ at[a] = "store"
  /\ IF \/ vacancy[Post(a)] # "none"
        \/ ~ seen[a].contact /\ Contact(a) \in Reachable /\ contactRows[Contact(a)] > 0
     THEN Raise(a)
     ELSE /\ vacancy' = [vacancy EXCEPT ![Post(a)] = "parsed"]
          /\ contactRows' = NewContact(a)
          /\ GoTo(a, "dedupe")
          /\ UNCHANGED <<lead, confident, draft, optedOut>>
  /\ AnalyzerOnly /\ UNCHANGED <<dlq, cards>>

\* find_by_text_hash: the stored posts with the text of m, m among them.
StoredWithText(m) == {n \in Posts : seenAt[n] > 0 /\ TextOf[n] = TextOf[m]}

\* Mutant: copies are looked for in the post's own channel only.
CopiesInChannel(m) ==
  {n \in StoredWithText(m) : ChannelOf[n] = ChannelOf[m] /\ seenAt[n] < seenAt[m]}

EarlierCopies(m) == {n \in StoredWithText(m) \ {m} : seenAt[n] < seenAt[m]}

\* Mutant: the chain ends whether or not there is a copy.
DedupeEnds(a) ==
  /\ at[a] = "dedupe"
  /\ ~ Ambiguous(a)
  /\ vacancy' = [vacancy EXCEPT ![Post(a)] =
                   IF EarlierCopies(Post(a)) # {} THEN "duplicate" ELSE @]
  /\ Done(a)
  /\ UNCHANGED <<lead, confident, draft, contactRows, optedOut>>
  /\ AnalyzerOnly /\ UNCHANGED <<dlq, cards>>

Dedupe(a) ==
  /\ at[a] = "dedupe"
  /\ \/ Ambiguous(a) /\ Raise(a)
     \/ /\ ~ Ambiguous(a)
        /\ EarlierCopies(Post(a)) # {}
        /\ vacancy' = [vacancy EXCEPT ![Post(a)] = "duplicate"]
        /\ Done(a)
        /\ UNCHANGED <<lead, confident, draft, contactRows, optedOut>>
     \/ /\ ~ Ambiguous(a)
        /\ EarlierCopies(Post(a)) = {}
        /\ GoTo(a, "qualify")
        /\ UNCHANGED rows
  /\ AnalyzerOnly /\ UNCHANGED <<dlq, cards>>

\* Without a contact the vacancy is rejected; a lead that exists is used again,
\* whatever became of its vacancy.
QualifyReads(a) ==
  /\ at[a] = "qualify"
  /\ \/ Ambiguous(a) /\ Raise(a)
     \/ /\ Contact(a) = NoContact
        /\ vacancy' = [vacancy EXCEPT ![Post(a)] = "rejected"]
        /\ Done(a)
        /\ UNCHANGED <<lead, confident, draft, contactRows, optedOut>>
     \/ /\ Contact(a) # NoContact /\ ~ Ambiguous(a)
        /\ GoTo(a, IF lead[Post(a)] # "none" THEN "generate" ELSE "score")
        /\ UNCHANGED rows
  /\ AnalyzerOnly /\ UNCHANGED <<dlq, cards>>

\* The score is below settings.relevance_threshold.
QualifyRejects(a) ==
  /\ at[a] = "score"
  /\ vacancy' = [vacancy EXCEPT ![Post(a)] = "rejected"]
  /\ Done(a)
  /\ AnalyzerOnly
  /\ UNCHANGED <<lead, confident, draft, contactRows, optedOut, dlq, cards>>

QualifyAccepts(a, high) ==
  /\ at[a] = "score"
  /\ IF lead[Post(a)] # "none"
     THEN Raise(a)
     ELSE /\ lead' = [lead EXCEPT ![Post(a)] = "qualified"]
          /\ confident' = [confident EXCEPT ![Post(a)] = high]
          /\ vacancy' = [vacancy EXCEPT ![Post(a)] = "qualified"]
          /\ GoTo(a, "generate")
          /\ UNCHANGED <<draft, contactRows, optedOut>>
  /\ AnalyzerOnly /\ UNCHANGED <<dlq, cards>>

GenerateReads(a) ==
  /\ at[a] = "generate"
  /\ \/ Ambiguous(a) /\ Raise(a)
     \/ ~ Ambiguous(a) /\ optedOut[Contact(a)] /\ Done(a) /\ UNCHANGED rows
     \/ /\ ~ Ambiguous(a) /\ ~ optedOut[Contact(a)]
        /\ at' = [at EXCEPT ![a] = "compose"]
        /\ seen' = [seen EXCEPT ![a].lead = lead[Post(a)]]
        /\ UNCHANGED <<job, attempt, rows>>
  /\ AnalyzerOnly /\ UNCHANGED <<dlq, cards>>

\* The text breaks the message policy, or is too similar to those sent.
GenerateRefuses(a) ==
  /\ at[a] = "compose"
  /\ Done(a)
  /\ AnalyzerOnly /\ UNCHANGED <<rows, dlq, cards>>

\* An outreach with the same idempotency key is used again.
GenerateLooksUp(a) ==
  /\ at[a] = "compose"
  /\ GoTo(a, IF draft[Post(a)] # "none" THEN "announce" ELSE "draft")
  /\ AnalyzerOnly /\ UNCHANGED <<rows, dlq, cards>>

\* The draft of a contact without a user id is stored as REJECTED.  The contact is
\* the one that was read before the text was written.
GenerateWrites(a) ==
  /\ at[a] = "draft"
  /\ IF draft[Post(a)] # "none" \/ ~ CanMoveLead(seen[a].lead, "outreach_drafted")
     THEN Raise(a)
     ELSE /\ draft' = [draft EXCEPT ![Post(a)] =
                         IF Contact(a) \in Reachable THEN "drafted" ELSE "rejected"]
          /\ lead' = [lead EXCEPT ![Post(a)] = "outreach_drafted"]
          /\ GoTo(a, "announce")
          /\ UNCHANGED <<vacancy, confident, contactRows, optedOut>>
  /\ AnalyzerOnly /\ UNCHANGED <<dlq, cards>>

ApprovesItself(a) ==
  AutoApprove /\ job[a].kind = "parse" /\ confident[Post(a)]

\* Mutant: the card is lost.
AnnounceSilently(a) ==
  /\ at[a] = "announce"
  /\ ~ ApprovesItself(a)
  /\ Done(a)
  /\ AnalyzerOnly /\ UNCHANGED <<rows, dlq, cards>>

\* A card for the operators, whatever the status of the outreach.
Announce(a) ==
  /\ at[a] = "announce"
  /\ ~ ApprovesItself(a)
  /\ cards' = cards \union {Post(a)}
  /\ Done(a)
  /\ AnalyzerOnly /\ UNCHANGED <<rows, dlq>>

\* The bot is off or Telegram unreachable: logged, no more.
AnnounceFails(a) ==
  /\ at[a] = "announce"
  /\ ~ ApprovesItself(a)
  /\ faults < MaxFaults
  /\ faults' = faults + 1
  /\ Done(a)
  /\ UNCHANGED <<scanning, rows, dlq, cards, tasks, decision, parses, qualifies, crashes>>

\* ApproveMessageUseCase refuses what is not DRAFTED any more.
ApproveReads(a) ==
  /\ at[a] = "announce"
  /\ ApprovesItself(a)
  /\ IF draft[Post(a)] = "drafted" THEN GoTo(a, "approve") ELSE Done(a)
  /\ AnalyzerOnly /\ UNCHANGED <<rows, dlq, cards>>

\* Its send task is OutreachSending's.
ApproveCommits(a) ==
  /\ at[a] = "approve"
  /\ draft' = [draft EXCEPT ![Post(a)] = "approved"]
  /\ lead' = [lead EXCEPT ![Post(a)] = "outreach_approved"]
  /\ Done(a)
  /\ AnalyzerOnly
  /\ UNCHANGED <<vacancy, confident, contactRows, optedOut, dlq, cards>>

\* A call of the language model or a transaction fails.
StepFails(a) ==
  /\ at[a] \notin {"idle", "failed"}
  /\ faults < MaxFaults
  /\ faults' = faults + 1
  /\ GoTo(a, "failed")
  /\ UNCHANGED <<scanning, rows, dlq, cards, tasks, decision, parses, qualifies, crashes>>

\* The whole chain again, from parsing on.
Retry(a) ==
  /\ at[a] = "failed"
  /\ job[a].kind = "parse"
  /\ attempt[a] < MaxAttempts
  /\ at' = [at EXCEPT ![a] = "parse"]
  /\ attempt' = [attempt EXCEPT ![a] = @ + 1]
  /\ seen' = [seen EXCEPT ![a] = Nothing]
  /\ UNCHANGED job
  /\ AnalyzerOnly /\ UNCHANGED <<rows, dlq, cards>>

DeadLetter(a) ==
  /\ at[a] = "failed"
  /\ job[a].kind = "parse"
  /\ attempt[a] = MaxAttempts
  /\ dlq' = dlq \union {Post(a)}
  /\ Done(a)
  /\ AnalyzerOnly /\ UNCHANGED <<rows, cards>>

\* The handler of a qualify task raises, and the broker drops the task.
QualifyLost(a) ==
  /\ at[a] = "failed"
  /\ job[a].kind = "qualify"
  /\ Done(a)
  /\ AnalyzerOnly /\ UNCHANGED <<rows, dlq, cards>>

Crash(a) ==
  /\ crashes < MaxCrashes
  /\ crashes' = crashes + 1
  /\ tasks' = [tasks EXCEPT ![a] = {}]
  /\ Done(a)
  /\ UNCHANGED <<scanning, rows, dlq, cards, decision, parses, qualifies, faults>>

--------------------------------------------------------------------------------
(***************************************************************************)
(* The rest of the system, whose steps OutreachSending models: operators   *)
(* decide on drafts, and who got a message may opt out.                    *)
(***************************************************************************)

\* Mutant: an approval that stands may be rejected.
DecisionReadsApproved(d, m, to) ==
  /\ decision[d] = Undecided
  /\ draft[m] = "drafted" \/ (draft[m] = "approved" /\ to = "rejected")
  /\ to = "approved" => CanMoveLead(lead[m], "outreach_approved")
  /\ decision' = [decision EXCEPT ![d] = [to |-> to, post |-> m, found |-> draft[m]]]
  /\ UNCHANGED <<scanning, rows, dlq, cards, tasks, analyzer, env>>

\* A call of ApproveMessageUseCase or RejectMessageUseCase reads the draft.
DecisionReads(d, m, to) ==
  /\ decision[d] = Undecided
  /\ draft[m] = "drafted"
  /\ to = "approved" => CanMoveLead(lead[m], "outreach_approved")
  /\ decision' = [decision EXCEPT ![d] = [to |-> to, post |-> m, found |-> draft[m]]]
  /\ UNCHANGED <<scanning, rows, dlq, cards, tasks, analyzer, env>>

\* It writes the status without a look at the one it replaces, and with an approval
\* the lead.
DecisionCommits(d) ==
  /\ decision[d] # Undecided
  /\ draft' = [draft EXCEPT ![decision[d].post] = decision[d].to]
  /\ lead' = IF decision[d].to = "approved"
             THEN [lead EXCEPT ![decision[d].post] = "outreach_approved"] ELSE lead
  /\ decision' = [decision EXCEPT ![d] = Undecided]
  /\ UNCHANGED <<scanning, vacancy, confident, contactRows, optedOut, dlq, cards,
                 tasks, analyzer, env>>

DecisionFails(d) ==
  /\ decision[d] # Undecided
  /\ faults < MaxFaults
  /\ faults' = faults + 1
  /\ decision' = [decision EXCEPT ![d] = Undecided]
  /\ UNCHANGED <<scanning, rows, dlq, cards, tasks, analyzer, parses, qualifies, crashes>>

\* Who was approved to get a message may have it by now.
OptOut(m) ==
  /\ lead[m] = "outreach_approved"
  /\ optedOut' = [optedOut EXCEPT ![ContactOf[m]] = TRUE]
  /\ UNCHANGED <<scanning, vacancy, lead, confident, draft, contactRows, dlq, cards,
                 tasks, analyzer, decision, env>>

--------------------------------------------------------------------------------
Analyze(a) ==
  \/ ParseDismisses(a) \/ ParseReads(a) \/ ParseStores(a) \/ Dedupe(a)
  \/ QualifyReads(a) \/ QualifyRejects(a) \/ \E high \in BOOLEAN : QualifyAccepts(a, high)
  \/ GenerateReads(a) \/ GenerateRefuses(a) \/ GenerateLooksUp(a) \/ GenerateWrites(a)
  \/ Announce(a) \/ ApproveReads(a) \/ ApproveCommits(a)
  \/ Retry(a) \/ DeadLetter(a) \/ QualifyLost(a)

Next ==
  \/ \E s \in Scanners :
       \/ ScanCommits(s) \/ ScanFails(s)
       \/ \E found \in Fetched : ScanChannel(s, found)
  \/ \E a \in Analyzers :
       \/ Take(a) \/ Analyze(a) \/ AnnounceFails(a) \/ StepFails(a) \/ Crash(a)
       \/ \E m \in Posts : ParseTask(a, m) \/ QualifyTask(a, m)
  \/ \E d \in Decisions :
       \/ DecisionCommits(d) \/ DecisionFails(d)
       \/ \E m \in Posts, to \in {"approved", "rejected"} : DecisionReads(d, m, to)
  \/ \E m \in Posts : OptOut(m)

Spec == Init /\ [][Next]_vars

\* The scanner finishes its queries, an analyzer takes tasks and finishes them.
Fairness ==
  /\ \A s \in Scanners : WF_vars(ScanCommits(s))
  /\ \A a \in Analyzers : WF_vars(Take(a)) /\ WF_vars(Analyze(a))

FairSpec == Spec /\ Fairness

--------------------------------------------------------------------------------
(***************************************************************************)
(* What must hold.                                                         *)
(***************************************************************************)

\* Analyzer a has got past the parsing of m.
Past(a, m) ==
  /\ job[a] = [kind |-> "parse", post |-> m]
  /\ at[a] \in Steps \ {"idle", "parse", "store", "failed"}

\* Enqueueing a post again is safe (scanner_worker.py): of the analyzers that are
\* given the same post, at once or one after the other, with retries and crashes,
\* one alone takes it past parsing, and the post has then its vacancy.
OneAnalyzerPerPost ==
  \A m \in Posts, a \in Analyzers : Past(a, m) =>
    /\ vacancy[m] # "none"
    /\ \A b \in Analyzers : Past(b, m) => b = a

\* An outreach exists exactly when its lead was moved on, an APPROVED one has an approved
\* lead, one that is not decided has not, and the vacancy of a lead is not undecided.
RowsAgree ==
  \A m \in Posts :
    /\ draft[m] # "none" <=> lead[m] \in {"outreach_drafted", "outreach_approved"}
    /\ draft[m] = "approved" => lead[m] = "outreach_approved"
    /\ draft[m] = "drafted" => lead[m] = "outreach_drafted"
    /\ lead[m] # "none" => vacancy[m] \in {"qualified", "duplicate", "rejected"}

\* A lead that is approved for an outreach that is not.
Apart(m) == lead[m] = "outreach_approved" /\ draft[m] # "approved"

\* Lead and outreach agree, and a lead is OUTREACH_APPROVED exactly when its outreach is
\* APPROVED, but for a rejection that read the draft before the approval it overtakes
\* (approve_message.py:82).  GenerateMessageUseCase and ApproveMessageUseCase write leads
\* they read before a call of the language model, or in another process.
LeadAgreesWithDraft ==
  /\ []RowsAgree
  /\ [][\A m \in Posts : Apart(m)' =>
          \/ Apart(m)
          \/ \E d \in Decisions :
               /\ DecisionCommits(d) /\ draft[m] = "approved"
               /\ decision[d] = [to |-> "rejected", post |-> m, found |-> "drafted"]]_vars

\* A copy that is discovered after the original never becomes a draft
\* (deduplicate.py), whichever of the two is analyzed first, in whichever
\* channels they stand, and whatever is retried; one scanner discovers them.
LaterCopyNeverDrafted ==
  \A m, n \in Posts :
    /\ TextOf[m] = TextOf[n]
    /\ 0 < seenAt[n] /\ seenAt[n] < seenAt[m]
    => draft[m] = "none"

\* An analyzer judges the vacancy of m, or brings its draft to the operators.
Judging(m)    == \E a \in Analyzers : Post(a) = m /\ at[a] \in {"dedupe", "qualify", "score"}
Announcing(m) == \E a \in Analyzers : Post(a) = m /\ at[a] \in {"announce", "approve"}

\* Work that nobody is at, and to which no step of the program comes back.
Stranded(m) ==
  \/ vacancy[m] = "parsed" /\ ~ Judging(m)
  \/ draft[m] = "drafted" /\ m \notin cards /\ ~ Announcing(m)

\* The chain of analyzer a breaks off.
Breaks(a) ==
  \/ at[a] # "failed" /\ at'[a] = "failed"
  \/ AnnounceFails(a)
  \/ Crash(a)

\* A vacancy is left unjudged, and a draft unknown to the operators, by nothing but
\* a failure in the very chain that was at it, whose retry then finds the vacancy
\* stored and ends (parse_vacancy.py): however many analyzers work on one post, no
\* end of another's chain, nothing two of them write and no decision on a draft
\* leaves work that nobody is at.
OnlyFailuresStrand ==
  [][\A m \in Posts :
       Stranded(m)' => Stranded(m) \/ \E a \in Analyzers : Post(a) = m /\ Breaks(a)]_vars

\* A parsed vacancy is deduplicated and qualified, or a dead letter tells.
ParsedIsSettled ==
  \A m \in Posts :
    (vacancy[m] = "parsed") ~>
      vacancy[m] \in {"duplicate", "qualified", "rejected"} \/ m \in dlq

\* What was drafted is shown to the operators or approved (README section 12).
DraftIsAnnounced ==
  \A m \in Posts : (draft[m] = "drafted") ~> (m \in cards \/ draft[m] # "drafted")

================================================================================
