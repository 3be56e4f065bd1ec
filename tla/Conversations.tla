----------------------------- MODULE Conversations -----------------------------
(***************************************************************************)
(* After an outreach was sent: the recipient's replies (ReplyWorker and    *)
(* ProcessReplyUseCase), the decision to follow up                         *)
(* (ScheduleFollowupUseCase) and the follow-ups themselves                 *)
(* (FollowupWorker's poll, its task handler and RunFollowupUseCase).       *)
(*                                                                         *)
(* A language-model call or a Telegram call separates what a use case      *)
(* reads from what it writes, and every write is an unconditional UPDATE   *)
(* of a row by its id, which waits for the row's lock and for nothing else.*)
(***************************************************************************)
EXTENDS Naturals, Sequences, Transitions

CONSTANTS
  Outreaches,     \* sent outreaches, each with its conversation
  Contacts,
  ContactOf,
  NoOutreach,     \* "no conversation in hand"
  Pollers,        \* tasks that run follow-ups, one after the other
  TaskConsumers,  \* those of them that FollowupWorker.handle also serves
  Schedulers,     \* concurrent calls of ScheduleFollowupUseCase
  MaxFollowups,   \* settings.max_followups
  ReplyTargets,   \* what recipients answer to: "outreach", "followup"
  MaxSchedules,   \* bound: follow-ups that get scheduled
  MaxSends,       \* bound: follow-ups of an outreach are counted up to here
  MaxReplies,     \* bound: replies of all recipients
  MaxFaults       \* bound: failing sends, transactions and classifications

Intents == {"opt_out", "not_interested", "interested"}

ASSUME RowsAssumption ==
  /\ ContactOf \in [Outreaches -> Contacts]
  /\ NoOutreach \notin Outreaches

ASSUME EnvironmentAssumption ==
  /\ TaskConsumers \subseteq Pollers
  /\ ReplyTargets \subseteq {"outreach", "followup"}
  /\ MaxFollowups \in Nat /\ MaxSchedules \in Nat /\ MaxSends \in Nat
  /\ MaxReplies \in Nat /\ MaxFaults \in Nat

VARIABLES
  \* the database
  status,      \* outreach.status
  conv,        \* conversations.status
  nextAt,      \* conversations.next_followup_at: none, future or due
  attempts,    \* conversations.followup_attempts
  optedOut,    \* contacts.opted_out
  \* Telegram
  followups,   \* follow-ups the recipient got
  inbox,       \* updates waiting for the reply worker
  \* the memory of the workers
  reading,     \* the reply being classified, or NoReply
  tasks,       \* RUN_FOLLOWUP tasks waiting in call_later
  step,        \* where each poller stands
  todo,        \* the due conversations it still has to run
  job,         \* the conversation it is running
  scheduling,  \* ScheduleFollowupUseCase calls in progress
  \* what the properties remember, and the bounded environment
  late,        \* pollers that sent a follow-up after the opt-out, by outreach
  schedules, replies, faults

rows   == <<status, conv, nextAt, attempts, optedOut>>
poller == <<step, todo, job>>
env    == <<schedules, replies, faults>>
vars   == <<rows, followups, inbox, reading, tasks, poller, scheduling, late, env>>

Reply   == [o : Outreaches, intent : Intents, to : {"outreach", "followup"}]
NoReply == [to |-> "nobody"]
NoCall  == [at |-> "idle"]
ScheduleCall == [at : {"commit", "enqueue"}, o : Outreaches]

TypeOK ==
  /\ status \in [Outreaches -> OutreachStatus]
  /\ conv \in [Outreaches -> ConversationStatus]
  /\ nextAt \in [Outreaches -> {"none", "future", "due"}]
  /\ attempts \in [Outreaches -> Nat]
  /\ optedOut \in [Contacts -> BOOLEAN]
  /\ followups \in [Outreaches -> Nat]
  /\ inbox \in Seq(Reply)
  /\ reading \in {NoReply} \union Reply
  /\ tasks \subseteq Outreaches
  /\ step \in [Pollers -> {"idle", "next", "cancel", "send", "commit"}]
  /\ todo \in [Pollers -> SUBSET Outreaches]
  /\ job \in [Pollers -> Outreaches \union {NoOutreach}]
  /\ scheduling \in [Schedulers -> {NoCall} \union ScheduleCall]
  /\ late \in [Outreaches -> SUBSET Pollers]
  /\ schedules \in 0 .. MaxSchedules
  /\ replies \in 0 .. MaxReplies
  /\ faults \in 0 .. MaxFaults

\* What SendMessageUseCase's success transaction leaves.
Init ==
  /\ status = [o \in Outreaches |-> "sent"]
  /\ conv = [o \in Outreaches |-> "waiting_reply"]
  /\ nextAt = [o \in Outreaches |-> "none"]
  /\ attempts = [o \in Outreaches |-> 0]
  /\ optedOut = [c \in Contacts |-> FALSE]
  /\ followups = [o \in Outreaches |-> 0]
  /\ inbox = << >>
  /\ reading = NoReply
  /\ tasks = {}
  /\ step = [p \in Pollers |-> "idle"]
  /\ todo = [p \in Pollers |-> {}]
  /\ job = [p \in Pollers |-> NoOutreach]
  /\ scheduling = [s \in Schedulers |-> NoCall]
  /\ late = [o \in Outreaches |-> {}]
  /\ schedules = 0 /\ replies = 0 /\ faults = 0

--------------------------------------------------------------------------------
(***************************************************************************)
(* Replies.                                                                *)
(***************************************************************************)

\* A recipient answers the message we sent, or a follow-up.
Answer(o, intent, to) ==
  /\ replies < MaxReplies
  /\ to = "followup" => followups[o] > 0
  /\ replies' = replies + 1
  /\ inbox' = Append(inbox, [o |-> o, intent |-> intent, to |-> to])
  /\ UNCHANGED <<rows, followups, reading, tasks, poller, scheduling, late,
                 schedules, faults>>

\* The outreach row knows the id of its first message only: an answer to a
\* follow-up belongs to no conversation and is dropped.
ReplyIgnored ==
  /\ reading = NoReply
  /\ inbox # << >>
  /\ Head(inbox).to = "followup"
  /\ inbox' = Tail(inbox)
  /\ UNCHANGED <<rows, followups, reading, tasks, poller, scheduling, late, env>>

\* The worker handles one update at a time; the model classifies it meanwhile.
ReplyFound ==
  /\ reading = NoReply
  /\ inbox # << >>
  /\ Head(inbox).to = "outreach"
  /\ inbox' = Tail(inbox)
  /\ reading' = Head(inbox)
  /\ UNCHANGED <<rows, followups, tasks, poller, scheduling, late, env>>

\* The inbound message is stored before it is classified, and with it the time of
\* the conversation's last message: until the reply is committed, other updates of
\* that row wait.
Unlocked(o) == reading # NoReply => reading.o # o

ReplyWrite(new) ==
  /\ conv' = [conv EXCEPT ![reading.o] = new]
  /\ status' = [status EXCEPT ![reading.o] = new]
  /\ reading' = NoReply

\* Mutant: an opt-out only closes the conversation.
ReplyOptOutCloses ==
  /\ reading # NoReply /\ reading.intent = "opt_out"
  /\ ReplyWrite("closed")
  /\ UNCHANGED <<nextAt, attempts, optedOut, followups, inbox, tasks, poller,
                 scheduling, late, env>>

ReplyOptOut ==
  /\ reading # NoReply /\ reading.intent = "opt_out"
  /\ optedOut' = [optedOut EXCEPT ![ContactOf[reading.o]] = TRUE]
  /\ ReplyWrite("closed")
  /\ UNCHANGED <<nextAt, attempts, followups, inbox, tasks, poller, scheduling,
                 late, env>>

ReplyNotInterested ==
  /\ reading # NoReply /\ reading.intent = "not_interested"
  /\ ReplyWrite("closed")
  /\ UNCHANGED <<nextAt, attempts, optedOut, followups, inbox, tasks, poller,
                 scheduling, late, env>>

ReplyInterested ==
  /\ reading # NoReply /\ reading.intent = "interested"
  /\ ReplyWrite("replied")
  /\ UNCHANGED <<nextAt, attempts, optedOut, followups, inbox, tasks, poller,
                 scheduling, late, env>>

\* The model answers with an error: any reply counts as received.
ReplyUnclassified ==
  /\ reading # NoReply
  /\ faults < MaxFaults
  /\ faults' = faults + 1
  /\ ReplyWrite("replied")
  /\ UNCHANGED <<nextAt, attempts, optedOut, followups, inbox, tasks, poller,
                 scheduling, late, schedules, replies>>

\* The transaction of the reply fails: it is logged, and the update is gone.
ReplyLost ==
  /\ reading # NoReply
  /\ faults < MaxFaults
  /\ faults' = faults + 1
  /\ reading' = NoReply
  /\ UNCHANGED <<rows, followups, inbox, tasks, poller, scheduling, late,
                 schedules, replies>>

--------------------------------------------------------------------------------
(***************************************************************************)
(* Scheduling.                                                             *)
(***************************************************************************)

ScheduleRead(s, o) ==
  /\ scheduling[s] = NoCall
  /\ schedules < MaxSchedules
  /\ ~ optedOut[ContactOf[o]]
  /\ conv[o] \notin {"closed", "followup_scheduled", "replied"}
  /\ attempts[o] < MaxFollowups
  /\ schedules' = schedules + 1
  /\ scheduling' = [scheduling EXCEPT ![s] = [at |-> "commit", o |-> o]]
  /\ UNCHANGED <<rows, followups, inbox, reading, tasks, poller, late, replies,
                 faults>>

\* followup_attempts is logged as one more, and stays what it was.
ScheduleCommit(s) ==
  /\ scheduling[s].at = "commit"
  /\ Unlocked(scheduling[s].o)
  /\ LET o == scheduling[s].o IN
       /\ conv' = [conv EXCEPT ![o] = "followup_scheduled"]
       /\ nextAt' = [nextAt EXCEPT ![o] = "future"]
  /\ scheduling' = [scheduling EXCEPT ![s].at = "enqueue"]
  /\ UNCHANGED <<status, attempts, optedOut, followups, inbox, reading, tasks,
                 poller, late, env>>

ScheduleEnqueue(s) ==
  /\ scheduling[s].at = "enqueue"
  /\ tasks' = tasks \union {scheduling[s].o}
  /\ scheduling' = [scheduling EXCEPT ![s] = NoCall]
  /\ UNCHANGED <<rows, followups, inbox, reading, poller, late, env>>

\* Time passes: now >= next_followup_at.
FollowupDue(o) ==
  /\ nextAt[o] = "future"
  /\ nextAt' = [nextAt EXCEPT ![o] = "due"]
  /\ UNCHANGED <<status, conv, attempts, optedOut, followups, inbox, reading,
                 tasks, poller, scheduling, late, env>>

--------------------------------------------------------------------------------
(***************************************************************************)
(* Running follow-ups.                                                     *)
(***************************************************************************)

\* list_due_followups: WAITING_REPLY is due as well as FOLLOWUP_SCHEDULED.
Due ==
  {o \in Outreaches : nextAt[o] = "due"
                      /\ conv[o] \in {"followup_scheduled", "waiting_reply"}}

\* The poll reads the due conversations once, then runs each of them.
Tick(p) ==
  /\ step[p] = "idle"
  /\ Due # {}
  /\ todo' = [todo EXCEPT ![p] = Due]
  /\ step' = [step EXCEPT ![p] = "next"]
  /\ UNCHANGED <<rows, followups, inbox, reading, tasks, job, scheduling, late, env>>

\* FollowupWorker.handle runs the conversation a RUN_FOLLOWUP task names.
TaskDue(p, o) ==
  /\ step[p] = "idle"
  /\ o \in tasks
  /\ nextAt[o] = "due"
  /\ tasks' = tasks \ {o}
  /\ todo' = [todo EXCEPT ![p] = {o}]
  /\ step' = [step EXCEPT ![p] = "next"]
  /\ UNCHANGED <<rows, followups, inbox, reading, job, scheduling, late, env>>

TickEnds(p) ==
  /\ step[p] = "next"
  /\ todo[p] = {}
  /\ step' = [step EXCEPT ![p] = "idle"]
  /\ UNCHANGED <<rows, followups, inbox, reading, tasks, todo, job, scheduling,
                 late, env>>

\* RunFollowupUseCase reads the conversation and its contact.
RunReads(p, o, next) ==
  /\ step[p] = "next"
  /\ o \in todo[p]
  /\ todo' = [todo EXCEPT ![p] = @ \ {o}]
  /\ step' = [step EXCEPT ![p] = next]
  /\ job' = [job EXCEPT ![p] = IF next = "next" THEN NoOutreach ELSE o]
  /\ UNCHANGED <<rows, followups, inbox, reading, tasks, scheduling, late, env>>

RunRefused(p, o) ==
  /\ optedOut[ContactOf[o]] \/ conv[o] = "closed"
  /\ RunReads(p, o, "next")

RunReplied(p, o) ==
  /\ ~ optedOut[ContactOf[o]]
  /\ conv[o] = "replied"
  /\ RunReads(p, o, "cancel")

\* Mutant: the contact is not checked.
RunStartsUnchecked(p, o) ==
  /\ conv[o] \notin {"closed", "replied"}
  /\ RunReads(p, o, "send")

RunStarts(p, o) ==
  /\ ~ optedOut[ContactOf[o]]
  /\ conv[o] \notin {"closed", "replied"}
  /\ RunReads(p, o, "send")

\* The run of one conversation ends, the poll goes on with the next.
RunEnds(p) ==
  /\ step' = [step EXCEPT ![p] = "next"]
  /\ job' = [job EXCEPT ![p] = NoOutreach]
  /\ UNCHANGED todo

\* Mutant: the status of an outreach is written to the conversation.
RunCancelsWrongEnum(p) ==
  /\ step[p] = "cancel"
  /\ Unlocked(job[p])
  /\ conv' = [conv EXCEPT ![job[p]] = "sent"]
  /\ RunEnds(p)
  /\ UNCHANGED <<status, nextAt, attempts, optedOut, followups, inbox, reading,
                 tasks, scheduling, late, env>>

\* "Replied after scheduling - cancel."
RunCancels(p) ==
  /\ step[p] = "cancel"
  /\ Unlocked(job[p])
  /\ conv' = [conv EXCEPT ![job[p]] = "waiting_reply"]
  /\ RunEnds(p)
  /\ UNCHANGED <<status, nextAt, attempts, optedOut, followups, inbox, reading,
                 tasks, scheduling, late, env>>

RunSends(p) ==
  /\ step[p] = "send"
  /\ followups' = [followups EXCEPT ![job[p]] = IF @ < MaxSends THEN @ + 1 ELSE @]
  /\ late' = IF optedOut[ContactOf[job[p]]]
             THEN [late EXCEPT ![job[p]] = @ \union {p}] ELSE late
  /\ step' = [step EXCEPT ![p] = "commit"]
  /\ UNCHANGED <<rows, inbox, reading, tasks, todo, job, scheduling, env>>

\* Mutant: a follow-up whose send fails is given up.
RunSendGivesUp(p) ==
  /\ step[p] = "send"
  /\ faults < MaxFaults
  /\ faults' = faults + 1
  /\ nextAt' = [nextAt EXCEPT ![job[p]] = "none"]
  /\ RunEnds(p)
  /\ UNCHANGED <<status, conv, attempts, optedOut, followups, inbox, reading,
                 tasks, scheduling, late, schedules, replies>>

\* The send fails and is logged, whatever the reason: FloodWait included.
RunSendFails(p) ==
  /\ step[p] = "send"
  /\ faults < MaxFaults
  /\ faults' = faults + 1
  /\ RunEnds(p)
  /\ UNCHANGED <<rows, followups, inbox, reading, tasks, scheduling, late,
                 schedules, replies>>

\* next_followup_at = None is "leave as it is" for update_status, so the
\* conversation stays due.
RunCommits(p) ==
  /\ step[p] = "commit"
  /\ Unlocked(job[p])
  /\ conv' = [conv EXCEPT ![job[p]] = "waiting_reply"]
  /\ status' = [status EXCEPT ![job[p]] = "sent"]
  /\ RunEnds(p)
  /\ UNCHANGED <<nextAt, attempts, optedOut, followups, inbox, reading, tasks,
                 scheduling, late, env>>

\* A transaction of the run fails: the rest of this poll is abandoned, and a
\* message that went out is not known of.
RunRaises(p) ==
  /\ step[p] # "idle"
  /\ faults < MaxFaults
  /\ faults' = faults + 1
  /\ step' = [step EXCEPT ![p] = "idle"]
  /\ todo' = [todo EXCEPT ![p] = {}]
  /\ job' = [job EXCEPT ![p] = NoOutreach]
  /\ UNCHANGED <<rows, followups, inbox, reading, tasks, scheduling, late,
                 schedules, replies>>

--------------------------------------------------------------------------------
ReplyStep ==
  \/ ReplyIgnored \/ ReplyFound
  \/ ReplyOptOut \/ ReplyNotInterested \/ ReplyInterested

ScheduleStep(s) == ScheduleCommit(s) \/ ScheduleEnqueue(s)

RunStep(p) ==
  \/ TickEnds(p)
  \/ \E o \in Outreaches : RunRefused(p, o) \/ RunReplied(p, o) \/ RunStarts(p, o)
  \/ RunCancels(p) \/ RunSends(p) \/ RunCommits(p)

Next ==
  \/ \E o \in Outreaches, intent \in Intents, to \in ReplyTargets :
       Answer(o, intent, to)
  \/ ReplyStep \/ ReplyUnclassified \/ ReplyLost
  \/ \E s \in Schedulers : ScheduleStep(s) \/ \E o \in Outreaches : ScheduleRead(s, o)
  \/ \E o \in Outreaches : FollowupDue(o)
  \/ \E p \in Pollers : Tick(p) \/ RunStep(p) \/ RunSendFails(p) \/ RunRaises(p)
  \/ \E p \in TaskConsumers, o \in Outreaches : TaskDue(p, o)

Spec == Init /\ [][Next]_vars

\* The reply worker and the pollers are loops that never stop, a call under way
\* goes on, and time passes.
Fairness ==
  /\ WF_vars(ReplyStep)
  /\ \A s \in Schedulers : WF_vars(ScheduleStep(s))
  /\ \A o \in Outreaches : WF_vars(FollowupDue(o))
  /\ \A p \in Pollers : WF_vars(Tick(p)) /\ WF_vars(RunStep(p))

FairSpec == Spec /\ Fairness

--------------------------------------------------------------------------------
(***************************************************************************)
(* What must hold.                                                         *)
(***************************************************************************)

\* However replies, polls and tasks interleave, a poller that wrote to a contact
\* after the opt-out never does so again for that outreach: only the run that had
\* read the contact before the opt-out can still send (RunFollowupUseCase's check).
OneLateFollowup ==
  \A p \in Pollers, o \in Outreaches :
    p \in late[o] => ~ (step[p] = "send" /\ job[p] = o)

\* The poller is about to send: it found the contact willing.
InHand == [p \in Pollers |-> IF step[p] = "send" THEN job[p] ELSE NoOutreach]

Willing == INSTANCE Consent
             WITH Messages <- Outreaches, AddressOf <- ContactOf, Writers <- Pollers,
                  None <- NoOutreach, Most <- MaxSends,
                  withdrawn <- optedOut, inHand <- InHand, sent <- followups

\* Polls, tasks, replies and faults implement consent: no follow-up is taken in hand
\* after the opt-out, and no opt-out is ever taken back (RunFollowupUseCase,
\* ProcessReplyUseCase).
ConsentKept == Willing!Spec

\* A follow-up that is due is sent at last, unless an answer or an opt-out came
\* first, although polls are abandoned half-way.
DueIsRun ==
  \A o \in Outreaches :
    (o \in Due) ~> \/ followups[o] > 0
                   \/ optedOut[ContactOf[o]]
                   \/ conv[o] \in {"closed", "replied"}

\* A request to stop that answers the first message is heard: "the moment a user
\* asks to stop, we set opted_out=true" (README section 16), whatever other answers
\* surround it, unless the model or the database fails.
OptOutIsHeard ==
  \A o \in Outreaches :
    (\E i \in DOMAIN inbox : inbox[i] = [o |-> o, intent |-> "opt_out", to |-> "outreach"])
      ~> (optedOut[ContactOf[o]] \/ faults > 0)

\* settings.max_followups limits the follow-ups of a conversation.
FollowupsWithinLimit == \A o \in Outreaches : followups[o] <= MaxFollowups

================================================================================
