# Verification of the vacancy outreach automation

These modules model the program under `src/`: a service that scans Telegram channels for
vacancies, analyses them with a language model, drafts a message to each author, lets
operators approve the drafts, sends them under rate limits, and follows the conversations
up. TLC checks the models on small instances, TLAPS proves the theorems for every instance.
`PROJECT.json` maps every definition to the lines of code it stands for and lists the runs,
the mutants, the hazards, the findings and the theorems.

## 1. The system

| Component | Code | State | Operations |
|---|---|---|---|
| Scanning | `use_cases/scan_channels.py`, `telegram/channel_scanner.py`, `workers/scanner_worker.py` | `channels`, `messages` | search, register a channel, fetch, store new posts |
| Analysis | `use_cases/{parse_vacancy,deduplicate,qualify_vacancy,generate_message}.py`, `workers/analyzer_worker.py` | `vacancies`, `leads`, `outreach` | parse, deduplicate, qualify, generate, announce or auto-approve |
| Similarity | `infrastructure/similarity/ngram.py` | none (pure) | compare a text with the recent history |
| Management bot | `bot/*.py`, `infrastructure/telegram/bot.py` | cards in the chats | push a card, `/pending`, approve and reject buttons |
| Approval | `use_cases/approve_message.py` | `outreach`, `leads` | approve, reject; enqueue the send |
| Queue | `infrastructure/queue/broker.py` | an `asyncio.Queue` and `call_later` timers in memory, a row per task in `idempotency_keys` | enqueue, enqueue_delayed, consume, acknowledge, reject |
| Sending | `use_cases/send_message.py`, `workers/{_base,outreach_worker}.py` | `idempotency_keys`, `dead_letter_queue` | load, reconcile, claim, send, record, retry, dead letter |
| Rate limits | `policies/{frequency,outreach}_policy.py`, `repositories/rate_limit.py` | `rate_limit_buckets` | check, record |
| Replies and follow-ups | `use_cases/{process_reply,schedule_followup}.py`, `workers/{reply,followup}_worker.py` | `conversations`, `contacts.opted_out` | classify a reply, schedule, poll, run a follow-up |
| Status tables | `domain/state_machine/transitions.py`, `domain/entities/*` | none | which status may follow which |
| Persistence | `infrastructure/persistence/*` | the database | transactions, unique keys, repositories |
| Language model, scoring, text policies | `infrastructure/llm/*`, `domain/scoring`, `domain/value_objects.py`, `domain/policies/message_policy.py` | an HTTP client | ask and ask again, read the answer, rate, accept or refuse a text |
| Wiring and command line | `main.py`, `bootstrap.py`, `scripts/run_worker.py` | open clients, running consumers | start, serve, stop, dry run |
| Configuration, logging, metrics | `config/*`, `observability/*` | none | settings, log lines, counters |

How they interact. The scanner writes posts; parse and qualify tasks reach the analyzer
through the queue (today nothing but a test puts them there, see section 6); the analyzer's chain writes vacancy, lead and draft and tells the
notifier, or approves the draft itself; the operators' buttons (and the command line) call the
approval use cases; an approval is committed first and its send task put into the queue of
the *same process* afterwards; the outreach worker of a process that has one takes the task.
A message that went out opens a conversation, which replies and follow-ups move on. Shared
state is the database; everything in a queue or a timer dies with its process.

What is hard in it:

- *check, call, write*: every use case reads rows in one transaction, calls Telegram or the
  language model, and writes in another, with an UPDATE by id that does not look at what it
  replaces;
- *one message at most*: lost answers, retries, duplicated tasks, crashes and failing success
  transactions all surround a call that cannot be undone;
- *hand-overs*: approval to queue, queue to worker, scan to analysis, draft to operator;
- *time*: midnight between a check and a delivery, cooldowns, delayed tasks, due follow-ups;
- *people*: several operators, stale cards, an opt-out at any moment.

### What makes each component correct

- Sending: no outreach is delivered twice or unapproved, or rejected unless one decision
  overtook another; SENT is true; a claim is exclusive;
  a delivery can always be recorded; nothing approved disappears without a trace; after an
  opt-out only the attempt that had read the contact before it can still deliver.
- Replies and follow-ups: an opt-out is heard and at most the run under way goes on; a due
  follow-up is sent, not more often than configured.
- Analysis: one analyzer takes a post past parsing; later copies are not drafted; vacancy,
  lead and outreach agree, but where one decision overtook another; everything parsed is settled and every draft announced, and only
  a failure can leave either lying.
- Rate limits: the overshoot of a limit is bounded by what was in flight or uncounted; the
  cooldown of a recipient is kept.
- Management bot: no decision is overturned by a later button; every operator is told; every
  draft is decided where operators attend, those beyond one page too.
- Similarity: the loop's verdict is the definition's; copies are caught.
- Scanning: a scanner stores posts of those channels only that by their row and its own
  thresholds are fit; what one query committed stands; what stays in reach is stored at last.
- Judging: ratings keep the order of what they rate and stay near what the model said; what
  approves itself passed every check.
- Queue and processes: an accepted task has a row until it ends well; it waits in one place,
  is begun once and lost only with its process; it is handled while the process serves;
  handlers have their clients.

## 2. Modules

| Module | What it is |
|---|---|
| `Transitions` | the four status tables of `transitions.py` and the moves the entities allow |
| `OutreachSending` | approval, queue, outreach worker, send use case, crash: the core |
| `DeliveryPromise` | what sending promises, without queue, worker and database |
| `Consent` | what an opt-out stops, whoever writes: `OutreachSending` and `Conversations` implement it |
| `Conversations` | replies, scheduling and running of follow-ups |
| `VacancyPipeline` | scanner and analyzer chain, operators and opt-outs beside it |
| `RateLimits` | the buckets, limits and the cooldown against a clock |
| `ChannelIntake` | two scanners, their transactions, searches and fetches |
| `ModelCalls` | which replies of the model are read, asked for again or fatal |
| `Judgement` | one post from the model's first answer to a draft, with scores and texts computed |
| `RunAll` | the life of a process and of every task in its broker |
| `TaskLife` | what a queue in memory makes of a task; `RunAll` implements it |
| `OperatorDesk` | cards, `/pending`, buttons, restarts of the bot |
| `SimilarityCheck` | the n-gram check as a loop with its early exit |
| `MC*` | instances of each for TLC |
| `*Proofs` | the theorems about the module they are named for |

Two conventions. One action is one transaction, one call of Telegram or of the model, or one
queue operation: between two awaits of the asyncio code, nothing else of that process runs,
and between two transactions anything may. A definition whose comment begins with "Mutant"
is a plausible bug of the definition below it; no specification uses it, and `PROJECT.json`
says which property it violates when it takes that definition's place.

### State and actions

`OutreachSending`. `status, lead, key, optedOut, conv, dlq` are rows of the database,
`delivered` counts what Telegram really delivered, `queue, delayed` are `AsyncioQueueBroker`
of each process, `pc, job, attempt, seen` an outreach worker (what step, which task, which
attempt of tenacity, which lead and contact the use case holds), `call` the approve and reject
calls with the status they read; `overtaken` remembers outreaches whose status had changed
between the read and the commit of a decision. `ApproveRead / ApproveCommit / ApproveEnqueue` and the rejections are
`approve_message.py`; `Take` is `consume`; `LoadApproved`, `Reconcile`, `ClaimKey`, `Send`,
`Record` and their failures are `SendMessageUseCase.execute` from top to bottom; `Retry` and
`DeadLetter` are `workers/_base.py`; `Crash` empties a process. Telegram answers `ok`,
`lost` (the message went out, the answer was an error), `error`, `flood` or `refused`.
`DeliveryPromise` has `claim` and `sent`; the refinement reads them as `key` and `delivered`.
`Consent` has hands: a worker's is what it claimed and has not yet tried to deliver. `UnderWay`
says where an outreach's task is (a call that will enqueue it, a queue, a timer, a worker),
`Told` what ends the search for it.

`Conversations`. `conv, nextAt, attempts` are columns of `conversations`; `inbox`, `reading`
are the reply worker's; `step, todo, job` are pollers: `Tick` is a poll of `FollowupWorker`,
`TaskDue` its task handler, the `Run...` actions `RunFollowupUseCase`. `late` remembers which
poller wrote to a contact after the opt-out; the run between its check and its message is the
hand of `Consent`. `Unlocked` is the row lock a reply's transaction
holds while it waits for the model.

`VacancyPipeline`. `vacancy, lead, draft, confident, contactRows, optedOut` are rows, `seenAt`
is the order of `discovered_at`; `at, job, attempt, seen` are analyzers. The chain
`Parse..., Dedupe, Qualify..., Generate..., Announce / Approve...` is
`AnalyzerWorker.handle` with its use cases. `decision` are calls of the approve and reject use
cases that have read a draft and not committed yet (`DecisionReads`, `DecisionCommits`,
`DecisionFails`). Scores, texts and verdicts of the model are choices.

`RateLimits`. A clock `now`; `sentAt` and `counted` are the buckets; `owner` is the sender
that claimed an outreach. `CheckPasses / CheckRefuses`, `Send`, `Record / RecordFails` are the
three stages of a send, any time apart.

`OperatorDesk`. `open` counts the cards with buttons in each chat, `notice` is the notifier's
loop, `listing` a running `/pending`; `at, press` are each operator's callback: it reads the
outreach, writes it, then answers and edits the card. `press` keeps the status at the time the
button was pressed.

`SimilarityCheck`. `i`, `best`, `verdict` are the loop's variables; a text is a sequence of
words, a shingle of N of them a subsequence, scores are exact fractions.

`ChannelIntake`. `channel, scanned, stored` are the committed rows; `newRow, newScan, newPosts`
what each scanner's transaction has written and not committed; `at, query, infos, todo` where
`ScanChannelsUseCase.execute` stands in its loops. A write of a row another transaction has
written waits for it (`Waits`), an insert of a key that was committed meanwhile violates it
(`Violates`), a circle of waiters is broken by the database (`DeadlockBroken`); all three end
in `Abandon`, the rollback of the running query. `face` and `history` are Telegram's.

`Judgement` and `ModelCalls`. `phase` is the call the analyzer's chain is at, `asked` the loop
of `_chat_json`; a reply is known by what `json.loads` says of its three readings. A body is
its words and the places where sentences end; scores are integers in units of 1/10000. The comparison
runs the actions of `SimilarityCheck`.

`RunAll`. `main` is the main coroutine of `_run_all`, `_run_dry`, `_run_auth` or
`run_worker.main`; `session, bot, model` the clients it opened; `queue, timers, putting` the
broker, `at, hand` its inner loops, `row` the rows of the tasks. `Crash` and `CloseSession`
leave only the rows; `Start` begins another process on them. For `TaskLife` a task waits that
stands in the queue, a timer or a blocked put, and runs that an inner loop has in hand.

## 3. Runs

All states within the bounds are explored. `CHECK_DEADLOCK FALSE` stands in every
configuration because each model may really stop: when all outreaches are decided, the
bounded environment (strays, replies, scans, faults) is used up, the clock is at its horizon
or the loop has ended, the program waits for the next event.

| Run | Checks | Shows |
|---|---|---|
| `Sending_duplicates` | `TypeOK`, `AtMostOneDelivery`, `ApprovedBeforeDelivery`, `SentIsTrue`, `RecordNeverRaises`, `RejectedIsNeverSent`, `PromiseKept`, `ApprovalLeavesATrace` | two sending processes, two concurrent operators, a stray task, a fault and a crash cannot duplicate or fake a delivery, and what was rejected is delivered only by an approval that read the draft before; the details implement `DeliveryPromise`; an approved outreach keeps a task under way until its fate is told, but for five named losses (134 000 states) |
| `Sending_live` | `ConsentKept`, `NothingSilentlyLost`, `TaskFinishes` | with decisions one after the other and a full queue, an approval always ends visibly, the sender always comes back, and the details implement `Consent` (10 000) |
| `Conv_races` | `TypeOK`, `ConsentKept`, `DueIsRun`, `OptOutIsHeard` | polls, tasks, replies and a fault interleave, and implement `Consent` (181 000) |
| `Pipe_races` | `OneAnalyzerPerPost`, `LaterCopyNeverDrafted`, `OnlyFailuresStrand` | repeated parse tasks of two copies and a third post on two analyzers, auto-approval, an operator, a fault and a crash (1 112 000) |
| `Pipe_live` | `LeadAgreesWithDraft`, `ParsedIsSettled`, `DraftIsAnnounced` | two posts with a qualify task, auto-approval and two operators who decide at once, without faults (164 000) |
| `Limits` | `TypeOK`, `OvershootBounded`, `CooldownKept` | two senders across midnight, one delivery not counted (762 000) |
| `Desk` | `TypeOK`, `DecidedBeforePressStands`, `EveryOperatorIsTold`, `EveryDraftIsDecided` | two drafts or two operators, pages of one place, stale and doubled cards, lost announcements, a fault or a restart with another list of operators (116 000) |
| `Judged` | `VerdictIsRight`, `RatingIsSound`, `ApprovedIsFit` | every reply, scores at and beside every edge, bodies of up to three words with all their sentence ends and longer ones, histories of up to three texts (309 000) |
| `Processes` | `TypeOK`, `UnfinishedIsRecorded`, `ClientsOutliveHandlers`, `LifeKept`, `QueuedIsHandled` | every program started twice, signals and crashes, three tasks in a queue of one place, two failing transactions of the broker; the details implement `TaskLife` (86 000) |
| `Intake` | `OnlyFitChannelsRead`, `CommittedStands`, `InReachIsStored` | a worker's scanner and a dry run with other thresholds, two queries, two channels, one post sent by a channel, a change, a fault (250 000) |
| `Bug_shared_queue` | `ApprovedIsSent` violated | see section 6 |
| `Bug_followup_limit` | `FollowupsWithinLimit` violated | see section 6 |

### Bounds, and why they are enough

Every bound is a constant named in its module. Sending: an outreach interferes with another
only through its contact and the queue, so one outreach shows the duplicates (two processes,
each able to hold it, plus two calls, one stray task, one fault and one crash in any order)
and two outreaches to one contact show the rest; `MaxAttempts = 2` has a first and a last
attempt, `QueueCap = 1` makes the queue full. Conversations: two pollers and two replies give
every overlap of a run with a reply; `followups` is counted up to `MaxSends`, and what is
checked of it is whether it is positive. Pipeline: two posts are an original and a copy that
name the same @username, a third, of an author, is what becomes a draft an operator sees;
three parse tasks let both analyzers meet on one post with one repeated. Limits: limits of one and
four outreaches exceed the bound of limit, other sender and fault (three) by one, and the
horizon spans two midnights, several hours and two cooldowns. Two decisions under way
(`Calls`, `Decisions`) are one that overtakes the other. Desk: drafts touch each other only in
the places of `/pending`, and two drafts with a page of one place leave one beyond it;
`MaxLoad` bounds drafts written times operators listed by two, so the run has two drafts
before one operator and one draft before two, who press stale cards at once; `MaxTroubles`
counts faults and restarts together. Judged: raw scores are below zero, a
hair on either side of a tie in the rounding and of a threshold once the bonuses are added,
above one and no number; bodies are shorter and longer than a shingle, with too few and too
many sentences, too long, with a forbidden word, with and without the title's word; histories
are empty, with a copy first, last or beyond the last two. Processes: two consumers and a
queue of one place with three tasks leave one handled, one queued, one waiting to be put;
two starts show what a restart keeps. Intake: two scanners make every conflict and every
circle of two; one query finds both channels, the other none, so that one query commits
before another breaks off; two posts are one that can be read and one that hides what is
older.

### Fairness, and why the code justifies it

Weak fairness stands on the steps the event loop runs by itself: a call under way goes on
(coroutines), a consumer takes the next task (`consume` loops for ever), timers fire
(`call_later`), pollers poll, the notifier's loop and callbacks run to their ends. Nothing
obliges replies, operators, strays, faults, crashes, scans or parse tasks. In `RunAll` the
main coroutine, inner loops, timers and puts are fair, signals and starts are not. In
`ChannelIntake` a scanner's steps are strongly fair: a transaction that waits for a row gets
it when its holder ends, and whoever was ended for a deadlock comes back only after the
worker's interval, so it cannot overtake the waiter for ever. `AttendedSpec` of
`OperatorDesk` adds an assumption on people, not on code: operators keep asking for
`/pending` while there are drafts and keep pressing buttons on cards of drafts that nobody
has decided, which card they choose being their own (strong fairness, because a callback or a
restart interrupts them). `NothingSilentlyLost`,
`ParsedIsSettled` and `DraftIsAnnounced` are checked without faults of the database: with
them they fail, as section 6 says. `OptOutIsHeard` makes that exception in its statement.
`Sending_live` models a process whose queue has one consumer; the shared queue of
`run-all` is the subject of `Bug_shared_queue`. Isolation is PostgreSQL's default, READ
COMMITTED. `Limits` takes the times of the buckets to be comparable (`AwareTimes = FALSE`), as
they are with SQLite; section 6 says what happens with PostgreSQL.

## 4. Proofs

Proved for every value of the constants, under the named assumptions and the premises given:

| Theorem | States |
|---|---|
| `OutreachSendingProofs!TypeCorrect` | `[]TypeOK` |
| `AtMostOnce`, `OnlyApproved`, `SentIsNeverALie`, `ClaimIsExclusive`, `DeliveryIsRecordable` | `[]` of `AtMostOneDelivery`, `ApprovedBeforeDelivery`, `SentIsTrue`, `SoleClaimant`, `RecordNeverRaises` |
| `KeepsPromise`, `KeepsConsent` | `PromiseKept`, `ConsentKept`: the sending implements `DeliveryPromise` and `Consent` |
| `ApprovalsAreTraced` | `ApprovalLeavesATrace` |
| `RejectionIsFinal` | `[]RejectedIsNeverSent`, for any number of approvals and rejections at once |
| `RateLimitsProofs!TypeCorrect`, `CooldownHolds` | `[]TypeOK`, `[]CooldownKept`, for any senders, faults and clock |
| `OvershootIsBounded` | `[]OvershootBounded`, for finitely many senders and outreaches (`Finite`) |
| `RunAllProofs!TypeCorrect`, `TasksAreRecorded`, `ClientsAreOpen`, `HandledOnce` | `[]TypeOK`, `[]UnfinishedIsRecorded`, `[]ClientsOutliveHandlers`, `HandledAtMostOnce` |
| `TasksLive` | `LifeKept`: the broker in its process implements `TaskLife` |
| `ChannelIntakeProofs!TypeCorrect`, `FitByItsRow`, `CommittedIsKept` | `[]TypeOK`, `OnlyFitChannelsRead`, `CommittedStands` |
| `VacancyPipelineProofs!TypeCorrect`, `OnePastParsing`, `LeadFollowsDraft` | `[]TypeOK`, `[]OneAnalyzerPerPost`, `LeadAgreesWithDraft` |
| `NothingElseStrands` | `OnlyFailuresStrand` |
| `CopiesAreNotDrafted` | `[]LaterCopyNeverDrafted`, with one scanner and no QUALIFY_VACANCY tasks (`OneScanner`, `ParseOnly`) |
| `ConversationsProofs!TypeCorrect`, `LateOnce` | `[]TypeOK`, `[]OneLateFollowup` |
| `KeepsConsent` | `ConsentKept`: follow-ups and replies implement `Consent` |
| `OperatorDeskProofs!TypeCorrect`, `DecisionsStand` | `[]TypeOK`, `DecidedBeforePressStands` |
| `JudgementProofs!VerdictHolds`, `CopiesCaught` | `[]VerdictIsRight`, `[]CopyIsCaught` of the similarity check by itself |
| `TypeCorrect`, `JudgedVerdictHolds`, `RatingKeepsOrder`, `OnlyFitApproves` | `[]TypeOK`, `[]VerdictIsRight`, `[]RatingIsSound`, `[]ApprovedIsFit` of a whole judgement |

Assumptions: `RowsAssumption`, `DeploymentAssumption`, `EnvironmentAssumption`
(`OutreachSending`), `LimitsAssumption` (`RateLimits`), `ProcessAssumption` (`RunAll`),
`IntakeAssumption`, `FindsAssumption` (`ChannelIntake`), `PostsAssumption`, `BoundsAssumption`
(`VacancyPipeline`), `RowsAssumption`, `EnvironmentAssumption` (`Conversations`),
`DeskAssumption` (`OperatorDesk`), `TextsAssumption`, `CheckAssumption` (`SimilarityCheck`),
`CallsAssumption` (`ModelCalls`), `JudgementAssumption` (`Judgement`).
TLC evaluates each in the runs. `OneScanner` and `ParseOnly` are not assumed of the code:
without them `CopiesAreNotDrafted` does not hold, and section 6 says how the code breaks them.

**Sending.** `IInv == TypeInv /\ KeyInv /\ SoleClaimant /\ ApprovalInv /\ LeadInv`.
`AtMostOneDelivery` alone is not inductive: a second delivery is excluded because whoever
sends holds a PENDING key nobody else holds and has not sent under it yet. So `KeyInv` ties
the key to `delivered` and the conversation, `SoleClaimant` gives the key one holder,
`ApprovalInv` carries the approval from the gate to the call although a status may be
overwritten meanwhile, and `LeadInv` says that the lead a worker has read can still be marked
sent, although approvals write leads from stale reads. `KeyInv` and `SoleClaimant` also make
each step a step of `DeliveryPromise` or a stutter. That a rejection is final needs
`RejectedInv` on top: no worker is past the gate with a row that is drafted, or rejected and
not overtaken, nothing puts such a row back, and a call that is about to write found its row
DRAFTED. If the row is not DRAFTED any more when the call commits, the outreach is overtaken
from then on; so an approval is written over a rejection by nothing but an overtaken call, and
the theorem holds however many calls run at once.

**Consent.** Two components write to recipients, and both implement the one specification of
what an opt-out stops. Its hand is not a variable of theirs but the span between two program
counters: a worker from its claim to its call of Telegram, a poller from its check to its
message. So the refinement shows that nothing enters that span without having read the
contact as willing in the same step, that each of the many ways out of it (answers, errors,
cancelled runs, crashes) is one message or none, and that no step takes an opt-out back.
`HandInv` says that a poller in the span has a conversation.

**No approval evaporates.** `ApprovalLeavesATrace` is the part of `NothingSilentlyLost` that
needs no fairness: what is being worked on does not fall out of sight. Each step moves a task
from one place of `UnderWay` to another (`Appended`, `Taken` for the queue), or tells
(`TellsOn`: what was told stays told, unless the outreach is approved again, and then that
call has its task yet to enqueue). What remains are the five disjuncts of `TaskIsLost`, and
the proof says that they are all.

**Rate limits.** `IInv == TypeInv /\ HandInv /\ ClearInv /\ CooldownKept`. The cooldown is
checked before the call and measured after it; `ClearInv` carries the distance from the check
over the call to the count, `HandInv` says that what a sender has in hand is its own and
uncounted, so that other senders and lost counts cannot disturb it. `BoundInv` is the bound
on a day and an hour as it survives each step: what was checked counts as sent already,
because it may go out at any time; a check adds one to a window only if what is counted there
is below the limit, and what is sent there and not counted is in another sender's hand, or was
lost to a fault; time passing only takes messages out of the present hour, and begins
a day with nothing but what was checked, one for each sender.

**Queue and processes.** `RecordInv`: whatever waits, runs or has run has a row, which is
COMPLETED only after its handler returned. `PlaceInv`: a task waits in one place, once, and in
none after its handler was started, so nothing can hand it out again. `ClientInv`: the inner
loops of a process that is not stopping run between `StartModel` and `CancelTasks`, where
the clients are open. `TaskLife` needs in addition that no two inner loops hold one task
(`LoneInv`), so that the end of one handler is the end of one task: only then is a step of
the broker one step of a task's life, and the steps of the main coroutine none until the last,
which takes everything.

**Scanning.** What a scanner reads is fit by the row *it* sees, and that row may be of its own
open transaction, registered by itself or committed by a scanner with other thresholds; so
`NewInv` says that a new row is in one transaction, and only where none
is committed, `WrittenInv` and `CurrentInv` that what a transaction wrote and is about to write
is of channels fit for *it* by their row, whichever of the two that is. A commit then moves a row and
what depends on it together; a rollback drops them together.

**Analysis.** `IInv` adds to the two invariants that a working analyzer has a task
(`JobInv`), and that a message is generated for a vacancy and approved for a draft
(`ChainInv`): the unique key on the post lets one analyzer past parsing, a lead is
created only where there is none, and moved on together with its draft (`AgreeInv`).
`DecisionInv` says that a call that is about to decide found the draft DRAFTED, whatever it is
by then. `LeadFollowsDraft` is then read off the steps: an analyzer writes lead and outreach
together, an approval both, and only a rejection writes the outreach alone, which parts the two
where it replaces an approval. `CopyInv` is about
time and order: what a scan found is
newer than everything stored, as long as there is one scanner (`TimeInv`); a vacancy is PARSED
until its own analyzer has scored it (`WorkInv`); past deduplication there are first copies
only, and a first copy stays one (`FirstInv`).
`OnlyFailuresStrand` is a property of steps: `LeadInv` says that a lead comes with a vacancy that
is settled (the rest of `RowsAgree`), so that an analyzer that finds a lead and leaves off judging leaves nothing
unjudged; `StaysAtWork` that a step leaves no post without somebody at it when it takes up what
it writes and lets go of what is settled; each use case is then one of these, or a failure of
its own chain.

**Conversations.** `LateInv`: whoever wrote to a contact after its opt-out finds it opted out
at the next look, and is not about to send.

**Operator desk.** `IInv == TypeOK /\ ShownExists /\ PressSound`: a card shows a draft that
exists, and a callback that is about to write found the draft DRAFTED when its button was
pressed. The last is what the action property needs, because the write itself looks at
nothing: it names the press that writes, so another operator's press at the same time excuses
nobody.

**Similarity.** While the loop runs, no score seen is above `best`, and `best` is one of them
or zero; so comparing `best` with the threshold at the end decides what the quantifier asks,
and the early exit has a witness. That a copy is caught needs in addition that a text's
shingles have a Jaccard score of one with themselves, which reaches every threshold.

**Judgement.** A rating is clamped, corrected, clamped again and rounded, and a tie is rounded
to either side; `RatedOrder` takes the order through clamps and bonuses, `RoundedOrder` through
the rounding: for whatever the better rating becomes, the worse one can become no more.
`ChainInv` carries what each call of the chain establishes to the end: that the score had
passed the threshold when the text was written, that the text that is compared is the one that
was validated, that what approves itself was found different.

Every safety property a run checks is proved. Only model-checked is liveness under fairness,
which is out of the prover's reach: `NothingSilentlyLost`, `TaskFinishes`, `DueIsRun`,
`OptOutIsHeard`, `ParsedIsSettled`, `DraftIsAnnounced`, `EveryOperatorIsTold`,
`EveryDraftIsDecided`, `QueuedIsHandled`, `InReachIsStored`. Proved and in no run, because a run
checks something stronger or because a theorem says it all: `SoleClaimant`, `CopyIsCaught`,
`OneLateFollowup`, `HandledAtMostOnce`, and `TypeOK` of `Judgement`, `ChannelIntake` and
`VacancyPipeline`.

## 5. What is not modelled

- Texts as such: prompts, what the model writes, tokenizing, lower case. The modules know of
  a text its words, sentence ends and length.
- Code nothing calls: `recover_pending`, `request_stop`, `duplicate_policy.py`,
  `is_manual_review`, `looks_like_template`, `MessageBody.sentences`, `TimeWindow`,
  `get_channel_info`, `resolve_public_contact`.
- Audit events, metrics, logging, the field-by-field mappers, DTOs, columns no property tells
  apart; the read-only commands of the bot; the dry-run client; `seed_channels.py`.
- Follow-ups in `RateLimits`: the code neither checks nor counts them.
- Started by hand: no production code puts PARSE_VACANCY or QUALIFY_VACANCY tasks into a queue
  (`scanner_worker.py:38-41` leaves it out), runs `TelethonReplyListener.run`, or calls
  `FollowupWorker.handle` and `ScheduleFollowupUseCase`; the tests do. `VacancyPipeline` and
  `Conversations` model what happens once somebody does.

## 6. Where code and documents disagree

Two disagreements are runs that TLC refutes:

1. `Bug_shared_queue`. `run-all` gives one queue to the analyzer and the outreach worker
   (`main.py:147`). A send task the analyzer takes is logged as unknown and acknowledged: the
   outreach stays APPROVED and is never sent. The README calls the command "Start everything
   in one process".
2. `Bug_followup_limit`. Nobody counts `followup_attempts`, and `next_followup_at=None` means
   "leave as it is" to `update_status` (`repositories/conversations.py:76`): a
   conversation stays due and gets its follow-up again at every poll, whatever
   `MAX_FOLLOWUPS` says.

Others were met while modelling; the modules contain the behaviour, and the hazards of
`PROJECT.json` that carry a note describe them. One is about what a rejection means: the
README (253-254) says that rejecting "leaves the draft intact — it stays visible in `/pending`
and can still be approved later". In the code a rejection is final: `outreach.py` allows
nothing but CLOSED after REJECTED, `approve_message.py:44` refuses what is not DRAFTED any
more, and `/pending` lists DRAFTED outreaches only. The modules follow the code, so
`RejectedIsNeverSent` and `DecidedBeforePressStands` hold where the README says the opposite;
the mutant of the first, an approval that accepts a rejected outreach, is the README's program.

The most important of the others: an approval that read DRAFTED before a rejection was
committed overwrites it, and the message goes out; a rejection that read DRAFTED before an
approval was committed leaves a REJECTED outreach with a lead that is OUTREACH_APPROVED; the
task of a FloodWait finds its own PENDING key and ends as a dead letter; a
crash loses the queue, which `broker.py:8-9` says is recovered; the command line approves in a
process without a worker; with PostgreSQL the bucket's `ts` has a zone, `utcnow()` minus such a
time raises (`frequency_policy.py:33`), and a recipient with a record can never be checked
again; MIN_DELAY is kept per recipient, not "between any two sends"; an opt-out that answers a follow-up is dropped; a cancelled follow-up
is still due; a failure after parsing is retried into a false duplicate and leaves no dead
letter; a contact who opts out during generation still gets a draft; equal posts of one scan
are both drafted; a qualify task overwrites DUPLICATE; `/pending` shows ten drafts in no order
and does not say that there are more; a card is edited to "Approved" although the approval was
refused, and pressing Reject on a decided draft is never answered.

The newer modules met these: `reject(requeue=True)` only counts, no task is put back and
`Task.attempt` stays 0, so no row ever becomes FAILED; a `reject` that raises ends its inner
loop and nobody notices; `auth` cannot log in, because `TelegramSession.start` raises for an
unauthorised session and never asks for the code; the signal handler of `run_worker.py` sets an
event nobody waits for; a worker process has its own queue, and nothing enqueues into it;
`run` is always the dry scan; a channel's row keeps the title and the number of subscribers it
was registered with; a conflict of two scanners is logged as a failing event and surfaces at
the next statement; a post sent by a channel hides the older posts of the window; a score that
is NaN counts as 1.0, the string "false" as true; an answer of the server that is no JSON or
not an object leaves the call without a retry, while a text without JSON is asked for again;
JSON with single quotes or trailing commas, which `parser.py` names, is not read.

## 7. Plan

1. Compose: the pipeline's approvals as the source of `OutreachSending`'s tasks, and its claim
   as `RateLimits`' check, each component shown to refine the part the other assumes.
2. The parts of `DueIsRun`, `OptOutIsHeard`, `EveryDraftIsDecided` and `InReachIsStored` that
   need no fairness, as `ApprovalLeavesATrace` and `OnlyFailuresStrand` are for their components.
