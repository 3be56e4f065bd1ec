---------------------------- MODULE OutreachSending ----------------------------
(***************************************************************************)
(* From a drafted outreach to a delivered message: ApproveMessageUseCase   *)
(* and RejectMessageUseCase, the in-process task queue, the outreach       *)
(* worker's retries and dead letters, SendMessageUseCase with its          *)
(* idempotency key, and what a recipient's reply does to the rows.         *)
(*                                                                         *)
(* One action is one transaction, one Telegram call or one queue           *)
(* operation; between two of them anything else may happen.  The database  *)
(* and Telegram survive a crash, the memory of a process does not.         *)
(***************************************************************************)
EXTENDS Naturals, Sequences, Transitions

CONSTANTS
  Outreaches,        \* rows of the outreach table
  Contacts,          \* rows of the contacts table
  ContactOf,         \* the contact each outreach is addressed to
  NoOutreach,        \* "no task in hand"
  Processes,         \* operating-system processes, each with its own queue
  Senders,           \* those whose queue the outreach worker consumes
  Analyzers,         \* those whose queue the analyzer worker consumes
  Desks,             \* those where approve and reject are called (bot, CLI)
  Calls,             \* concurrent approve and reject calls
  TelegramOutcomes,  \* what Telegram may answer in this instance
  LimitsBind,        \* whether a rate limit or a cooldown may refuse a send
  MaxAttempts,       \* settings.max_retries
  QueueCap,          \* asyncio.Queue(maxsize)
  MaxStrays,         \* bound: send tasks nobody approved
  MaxFaults,         \* bound: failing database transactions
  MaxCrashes         \* bound: process crashes

Outcomes == {"ok", "lost", "error", "flood", "refused"}

ASSUME RowsAssumption ==
  /\ ContactOf \in [Outreaches -> Contacts]
  /\ NoOutreach \notin Outreaches

ASSUME DeploymentAssumption ==
  /\ Senders \subseteq Processes
  /\ Analyzers \subseteq Processes
  /\ Desks \subseteq Processes

ASSUME EnvironmentAssumption ==
  /\ TelegramOutcomes \subseteq Outcomes
  /\ LimitsBind \in BOOLEAN
  /\ MaxAttempts \in Nat \ {0}
  /\ QueueCap \in Nat \ {0}
  /\ MaxStrays \in Nat /\ MaxFaults \in Nat /\ MaxCrashes \in Nat

VARIABLES
  \* the database
  status,     \* outreach.status
  lead,       \* leads.status of the outreach's lead
  key,        \* idempotency_keys.state of the outreach's key, or "absent"
  optedOut,   \* contacts.opted_out
  conv,       \* conversations.status of the outreach, or "none"
  dlq,        \* outreaches with a dead-letter row
  \* Telegram
  delivered,  \* messages the recipient got for each outreach
  \* the memory of the processes
  queue,      \* AsyncioQueueBroker._q of each process
  delayed,    \* send tasks waiting in call_later
  pc,         \* where each process's outreach worker stands
  job,        \* the outreach its task names
  attempt,    \* tenacity's attempt number
  seen,       \* the lead and contact SendMessageUseCase read
  call,       \* approve and reject calls in progress
  \* what the properties remember, and the bounded environment
  approved,   \* outreaches some approval was committed for
  rejected,   \* outreaches some rejection was committed for
  overtaken,  \* outreaches a decision was committed for that another one had changed
  strays, faults, crashes

db     == <<status, lead, key, optedOut, conv, dlq>>
worker == <<pc, job, attempt, seen>>
memory == <<queue, delayed, call>>
past   == <<approved, rejected, overtaken>>
env    == <<strays, faults, crashes>>
vars   == <<db, delivered, worker, memory, past, env>>

Steps == {"idle", "load", "claim", "send", "flood", "logflood", "record",
          "markfail", "failed", "refused"}

Nothing == [lead |-> "created", optedOut |-> FALSE]
NoCall  == [step |-> "idle"]
CallInProgress ==
  [step : {"approve", "enqueue", "reject"}, o : Outreaches, at : Desks,
   found : OutreachStatus]

TypeOK ==
  /\ status \in [Outreaches -> OutreachStatus]
  /\ lead \in [Outreaches -> LeadStatus]
  /\ key \in [Outreaches -> {"absent"} \union IdempotencyState]
  /\ optedOut \in [Contacts -> BOOLEAN]
  /\ conv \in [Outreaches -> {"none"} \union ConversationStatus]
  /\ dlq \subseteq Outreaches
  /\ delivered \in [Outreaches -> Nat]
  /\ queue \in [Processes -> Seq(Outreaches)]
  /\ delayed \in [Processes -> SUBSET Outreaches]
  /\ pc \in [Processes -> Steps]
  /\ job \in [Processes -> Outreaches \union {NoOutreach}]
  /\ attempt \in [Processes -> 0 .. MaxAttempts]
  /\ seen \in [Processes -> [lead : LeadStatus, optedOut : BOOLEAN]]
  /\ call \in [Calls -> {NoCall} \union CallInProgress]
  /\ approved \subseteq Outreaches
  /\ rejected \subseteq Outreaches
  /\ overtaken \subseteq Outreaches
  /\ strays \in 0 .. MaxStrays
  /\ faults \in 0 .. MaxFaults
  /\ crashes \in 0 .. MaxCrashes

\* Drafted outreaches as GenerateMessageUseCase leaves them: each with its
\* lead, its unused key and a contact that had not opted out.
Init ==
  /\ status = [o \in Outreaches |-> "drafted"]
  /\ lead = [o \in Outreaches |-> "outreach_drafted"]
  /\ key = [o \in Outreaches |-> "absent"]
  /\ optedOut = [c \in Contacts |-> FALSE]
  /\ conv = [o \in Outreaches |-> "none"]
  /\ dlq = {}
  /\ delivered = [o \in Outreaches |-> 0]
  /\ queue = [p \in Processes |-> << >>]
  /\ delayed = [p \in Processes |-> {}]
  /\ pc = [p \in Processes |-> "idle"]
  /\ job = [p \in Processes |-> NoOutreach]
  /\ attempt = [p \in Processes |-> 0]
  /\ seen = [p \in Processes |-> Nothing]
  /\ call = [c \in Calls |-> NoCall]
  /\ approved = {}
  /\ rejected = {}
  /\ overtaken = {}
  /\ strays = 0 /\ faults = 0 /\ crashes = 0

--------------------------------------------------------------------------------
(***************************************************************************)
(* Approval and rejection.  A call reads the outreach, checks its status   *)
(* in memory and later writes the new status unconditionally: two calls    *)
(* that both read DRAFTED both succeed.                                    *)
(***************************************************************************)

\* The call has the outreach o as it stands; its decision is to follow.
Found(c, o, p, step) ==
  call' = [call EXCEPT ![c] = [step |-> step, o |-> o, at |-> p, found |-> status[o]]]

\* Its decision is committed, whatever the row has become since it was read.
Decided(c) ==
  overtaken' = IF status[call[c].o] = call[c].found
               THEN overtaken ELSE overtaken \union {call[c].o}

\* Mutant: a rejected outreach "can still be approved later" (README.md).
ApproveReadRejected(c, o, p) ==
  /\ call[c] = NoCall
  /\ status[o] \in {"drafted", "rejected"}
  /\ CanMoveLead(lead[o], "outreach_approved")
  /\ Found(c, o, p, "approve")
  /\ UNCHANGED <<db, delivered, worker, queue, delayed, past, env>>

ApproveRead(c, o, p) ==
  /\ call[c] = NoCall
  /\ status[o] = "drafted"
  /\ CanMoveLead(lead[o], "outreach_approved")
  /\ Found(c, o, p, "approve")
  /\ UNCHANGED <<db, delivered, worker, queue, delayed, past, env>>

ApproveCommit(c) ==
  /\ call[c].step = "approve"
  /\ status' = [status EXCEPT ![call[c].o] = "approved"]
  /\ lead' = [lead EXCEPT ![call[c].o] = "outreach_approved"]
  /\ approved' = approved \union {call[c].o}
  /\ Decided(c)
  /\ call' = [call EXCEPT ![c].step = "enqueue"]
  /\ UNCHANGED <<key, optedOut, conv, dlq, delivered, worker, queue, delayed,
                 rejected, env>>

\* The send task goes to the queue of the process the call runs in, after
\* the approval is committed; put() waits while the queue is full.
ApproveEnqueue(c) ==
  /\ call[c].step = "enqueue"
  /\ Len(queue[call[c].at]) < QueueCap
  /\ queue' = [queue EXCEPT ![call[c].at] = Append(@, call[c].o)]
  /\ call' = [call EXCEPT ![c] = NoCall]
  /\ UNCHANGED <<db, delivered, worker, delayed, past, env>>

RejectRead(c, o, p) ==
  /\ call[c] = NoCall
  /\ CanMoveOutreach(status[o], "rejected")
  /\ Found(c, o, p, "reject")
  /\ UNCHANGED <<db, delivered, worker, queue, delayed, past, env>>

RejectCommit(c) ==
  /\ call[c].step = "reject"
  /\ status' = [status EXCEPT ![call[c].o] = "rejected"]
  /\ rejected' = rejected \union {call[c].o}
  /\ Decided(c)
  /\ call' = [call EXCEPT ![c] = NoCall]
  /\ UNCHANGED <<lead, key, optedOut, conv, dlq, delivered, worker, queue,
                 delayed, approved, env>>

\* A transaction of the call fails: what it wrote is rolled back.  When it is
\* the one that registers the task, the approval stands and no task exists.
CallFails(c) ==
  /\ call[c] # NoCall
  /\ faults < MaxFaults
  /\ faults' = faults + 1
  /\ call' = [call EXCEPT ![c] = NoCall]
  /\ UNCHANGED <<db, delivered, worker, queue, delayed, past, strays, crashes>>

--------------------------------------------------------------------------------
(***************************************************************************)
(* The queue of a process.                                                 *)
(***************************************************************************)

\* "One extra enqueue (by hand, from a migration, from a future worker)", the
\* comment in SendMessageUseCase says: a send task for any outreach.
StrayTask(p, o) ==
  /\ strays < MaxStrays
  /\ Len(queue[p]) < QueueCap
  /\ strays' = strays + 1
  /\ queue' = [queue EXCEPT ![p] = Append(@, o)]
  /\ UNCHANGED <<db, delivered, worker, delayed, call, past, faults, crashes>>

\* The outreach consumer handles one task at a time, retries included.
Take(p) ==
  /\ pc[p] = "idle"
  /\ queue[p] # << >>
  /\ queue' = [queue EXCEPT ![p] = Tail(@)]
  /\ pc' = [pc EXCEPT ![p] = "load"]
  /\ job' = [job EXCEPT ![p] = Head(queue[p])]
  /\ attempt' = [attempt EXCEPT ![p] = 1]
  /\ UNCHANGED <<db, delivered, seen, delayed, call, past, env>>

\* The analyzer consumes the same queue; a send task is a type it does not
\* know, which it logs, and the broker acknowledges.
AnalyzerTakes(p) ==
  /\ queue[p] # << >>
  /\ queue' = [queue EXCEPT ![p] = Tail(@)]
  /\ UNCHANGED <<db, delivered, worker, delayed, call, past, env>>

\* call_later fires and puts the re-enqueued task.
DelayedDue(p, o) ==
  /\ o \in delayed[p]
  /\ Len(queue[p]) < QueueCap
  /\ delayed' = [delayed EXCEPT ![p] = @ \ {o}]
  /\ queue' = [queue EXCEPT ![p] = Append(@, o)]
  /\ UNCHANGED <<db, delivered, worker, call, past, env>>

--------------------------------------------------------------------------------
(***************************************************************************)
(* SendMessageUseCase.execute inside run_with_retry_and_dlq.               *)
(***************************************************************************)

\* The attempt goes on at step s with the same task.
GoTo(p, s) ==
  /\ pc' = [pc EXCEPT ![p] = s]
  /\ UNCHANGED <<job, attempt, seen>>

\* The handler returns and the broker acknowledges the task.
Done(p) ==
  /\ pc' = [pc EXCEPT ![p] = "idle"]
  /\ job' = [job EXCEPT ![p] = NoOutreach]
  /\ attempt' = [attempt EXCEPT ![p] = 0]
  /\ seen' = [seen EXCEPT ![p] = Nothing]

LoadSent(p) ==
  /\ pc[p] = "load"
  /\ status[job[p]] = "sent"
  /\ Done(p)
  /\ UNCHANGED <<db, delivered, memory, past, env>>

\* The explicit approval gate: anything but APPROVED is refused, and the
\* row is left as it is.
LoadUnapproved(p) ==
  /\ pc[p] = "load"
  /\ status[job[p]] \notin {"sent", "approved"}
  /\ GoTo(p, "refused")
  /\ UNCHANGED <<db, delivered, memory, past, env>>


\* Mutant: no approval gate.
LoadAnything(p) ==
  /\ pc[p] = "load"
  /\ status[job[p]] # "sent"
  /\ pc' = [pc EXCEPT ![p] = "claim"]
  /\ seen' = [seen EXCEPT ![p] =
                [lead |-> lead[job[p]], optedOut |-> optedOut[ContactOf[job[p]]]]]
  /\ UNCHANGED <<db, delivered, job, attempt, memory, past, env>>

LoadApproved(p) ==
  /\ pc[p] = "load"
  /\ status[job[p]] = "approved"
  /\ pc' = [pc EXCEPT ![p] = "claim"]
  /\ seen' = [seen EXCEPT ![p] =
                [lead |-> lead[job[p]], optedOut |-> optedOut[ContactOf[job[p]]]]]
  /\ UNCHANGED <<db, delivered, job, attempt, memory, past, env>>


\* Mutant: any key counts as evidence of a delivery.
ReconcileAnyKey(p) ==
  /\ pc[p] = "claim"
  /\ key[job[p]] # "absent"
  /\ status' = [status EXCEPT ![job[p]] = "sent"]
  /\ Done(p)
  /\ UNCHANGED <<lead, key, optedOut, conv, dlq, delivered, memory, past, env>>

\* The key says the message is out: the status is reconciled, no more.
Reconcile(p) ==
  /\ pc[p] = "claim"
  /\ key[job[p]] = "completed"
  /\ status' = [status EXCEPT ![job[p]] = "sent"]
  /\ Done(p)
  /\ UNCHANGED <<lead, key, optedOut, conv, dlq, delivered, memory, past, env>>

\* The FAILED that is written for a contact who opted out is undone by the
\* exception that follows it: leaving the unit of work rolls back.
ClaimOptedOut(p) ==
  /\ pc[p] = "claim"
  /\ key[job[p]] # "completed"
  /\ seen[p].optedOut
  /\ GoTo(p, "refused")
  /\ UNCHANGED <<db, delivered, memory, past, env>>

\* Daily limit, hourly limit or cooldown.
ClaimLimited(p) ==
  /\ pc[p] = "claim"
  /\ LimitsBind
  /\ key[job[p]] # "completed"
  /\ ~ seen[p].optedOut
  /\ GoTo(p, "refused")
  /\ UNCHANGED <<db, delivered, memory, past, env>>

\* Mutant: a key somebody holds is taken for the work of a live attempt.
ClaimBusyReturns(p) ==
  /\ pc[p] = "claim"
  /\ key[job[p]] \notin {"absent", "completed"}
  /\ ~ seen[p].optedOut
  /\ Done(p)
  /\ UNCHANGED <<db, delivered, memory, past, env>>

\* create_pending finds the key, or its insert conflicts.
ClaimBusy(p) ==
  /\ pc[p] = "claim"
  /\ key[job[p]] \notin {"absent", "completed"}
  /\ ~ seen[p].optedOut
  /\ GoTo(p, "refused")
  /\ UNCHANGED <<db, delivered, memory, past, env>>


\* Mutant: only a COMPLETED key stops a send.
ClaimPendingToo(p) ==
  /\ pc[p] = "claim"
  /\ key[job[p]] # "completed"
  /\ ~ seen[p].optedOut
  /\ key' = [key EXCEPT ![job[p]] = "pending"]
  /\ GoTo(p, "send")
  /\ UNCHANGED <<status, lead, optedOut, conv, dlq, delivered, memory, past, env>>

\* Mutant: the claim does not ask whether the contact opted out.
ClaimKeyUnasked(p) ==
  /\ pc[p] = "claim"
  /\ key[job[p]] = "absent"
  /\ key' = [key EXCEPT ![job[p]] = "pending"]
  /\ GoTo(p, "send")
  /\ UNCHANGED <<status, lead, optedOut, conv, dlq, delivered, memory, past, env>>

ClaimKey(p) ==
  /\ pc[p] = "claim"
  /\ key[job[p]] = "absent"
  /\ ~ seen[p].optedOut
  /\ key' = [key EXCEPT ![job[p]] = "pending"]
  /\ GoTo(p, "send")
  /\ UNCHANGED <<status, lead, optedOut, conv, dlq, delivered, memory, past, env>>

\* Where the attempt goes on after each answer of Telegram.  "lost" is a
\* message that went out and an answer that did not come back.
After(answer) ==
  CASE answer = "ok"      -> "record"
    [] answer = "flood"   -> "flood"
    [] answer = "refused" -> "markfail"
    [] OTHER              -> "failed"


\* Mutant: an attempt whose answer is an error gives the key back for the retry.
SendReleasing(p, answer) ==
  /\ pc[p] = "send"
  /\ delivered' = IF answer \in {"ok", "lost"}
                  THEN [delivered EXCEPT ![job[p]] = @ + 1]
                  ELSE delivered
  /\ key' = IF After(answer) = "failed"
            THEN [key EXCEPT ![job[p]] = "absent"] ELSE key
  /\ GoTo(p, After(answer))
  /\ UNCHANGED <<status, lead, optedOut, conv, dlq, memory, past, env>>

Send(p, answer) ==
  /\ pc[p] = "send"
  /\ delivered' = IF answer \in {"ok", "lost"}
                  THEN [delivered EXCEPT ![job[p]] = @ + 1]
                  ELSE delivered
  /\ GoTo(p, After(answer))
  /\ UNCHANGED <<db, memory, past, env>>

\* FloodWait: a new send task, delayed.  The key stays PENDING.
FloodRequeue(p) ==
  /\ pc[p] = "flood"
  /\ delayed' = [delayed EXCEPT ![p] = @ \union {job[p]}]
  /\ GoTo(p, "logflood")
  /\ UNCHANGED <<db, delivered, queue, call, past, env>>

FloodLog(p) ==
  /\ pc[p] = "logflood"
  /\ Done(p)
  /\ UNCHANGED <<db, delivered, memory, past, env>>

\* Telegram refused (blocked, forbidden, peer flood, unresolved recipient).
MarkFailed(p) ==
  /\ pc[p] = "markfail"
  /\ status' = [status EXCEPT ![job[p]] = "failed"]
  /\ Done(p)
  /\ UNCHANGED <<lead, key, optedOut, conv, dlq, delivered, memory, past, env>>

\* The one transaction that records a delivery.  It raises, and leaves no
\* trace, when the lead that was read cannot move to OUTREACH_SENT.
Record(p) ==
  /\ pc[p] = "record"
  /\ IF CanMoveLead(seen[p].lead, "outreach_sent")
     THEN /\ status' = [status EXCEPT ![job[p]] = "sent"]
          /\ key' = [key EXCEPT ![job[p]] = "completed"]
          /\ conv' = [conv EXCEPT ![job[p]] = "waiting_reply"]
          /\ lead' = [lead EXCEPT ![job[p]] = "outreach_sent"]
          /\ Done(p)
     ELSE /\ GoTo(p, "failed")
          /\ UNCHANGED <<status, key, conv, lead>>
  /\ UNCHANGED <<optedOut, dlq, delivered, memory, past, env>>

\* A transaction of the attempt fails and is rolled back.
TransactionFails(p) ==
  /\ pc[p] \in {"load", "claim", "flood", "logflood", "record", "markfail"}
  /\ faults < MaxFaults
  /\ faults' = faults + 1
  /\ GoTo(p, "failed")
  /\ UNCHANGED <<db, delivered, memory, past, strays, crashes>>


\* Mutant: a retry that does not count.
RetryUncounted(p) ==
  /\ pc[p] \in {"failed", "refused"}
  /\ pc' = [pc EXCEPT ![p] = "load"]
  /\ seen' = [seen EXCEPT ![p] = Nothing]
  /\ UNCHANGED <<db, delivered, job, attempt, memory, past, env>>

\* Mutant: one retry too many.
RetryOnceMore(p) ==
  /\ pc[p] \in {"failed", "refused"}
  /\ attempt[p] <= MaxAttempts
  /\ pc' = [pc EXCEPT ![p] = "load"]
  /\ attempt' = [attempt EXCEPT ![p] = @ + 1]
  /\ seen' = [seen EXCEPT ![p] = Nothing]
  /\ UNCHANGED <<db, delivered, job, memory, past, env>>

\* tenacity runs the whole operation again, whatever was raised.
Retry(p) ==
  /\ pc[p] \in {"failed", "refused"}
  /\ attempt[p] < MaxAttempts
  /\ pc' = [pc EXCEPT ![p] = "load"]
  /\ attempt' = [attempt EXCEPT ![p] = @ + 1]
  /\ seen' = [seen EXCEPT ![p] = Nothing]
  /\ UNCHANGED <<db, delivered, job, memory, past, env>>


\* Mutant: the task is given up without a dead letter.
GiveUpSilently(p) ==
  /\ pc[p] \in {"failed", "refused"}
  /\ attempt[p] = MaxAttempts
  /\ Done(p)
  /\ UNCHANGED <<db, delivered, memory, past, env>>

\* The last attempt failed: one dead letter, and the task is acknowledged.
DeadLetter(p) ==
  /\ pc[p] \in {"failed", "refused"}
  /\ attempt[p] = MaxAttempts
  /\ dlq' = dlq \union {job[p]}
  /\ Done(p)
  /\ UNCHANGED <<status, lead, key, optedOut, conv, delivered, memory, past, env>>

\* The dead letter cannot be written: the broker's reject() counts an attempt
\* of the task, and nothing puts it back.
DeadLetterFails(p) ==
  /\ pc[p] \in {"failed", "refused"}
  /\ attempt[p] = MaxAttempts
  /\ faults < MaxFaults
  /\ faults' = faults + 1
  /\ Done(p)
  /\ UNCHANGED <<db, delivered, memory, past, strays, crashes>>

--------------------------------------------------------------------------------
(***************************************************************************)
(* The recipient's reply, once its conversation can be found, and crashes. *)
(***************************************************************************)

\* ProcessReplyUseCase: an opt-out or a refusal closes, anything else marks
\* REPLIED, whatever the statuses were.
Reply(o, intent) ==
  /\ conv[o] # "none"
  /\ optedOut' = [optedOut EXCEPT ![ContactOf[o]] = @ \/ intent = "opt_out"]
  /\ LET new == IF intent = "interested" THEN "replied" ELSE "closed"
     IN /\ conv' = [conv EXCEPT ![o] = new]
        /\ status' = [status EXCEPT ![o] = new]
  /\ UNCHANGED <<lead, key, dlq, delivered, worker, memory, past, env>>

Intents == {"opt_out", "not_interested", "interested"}

\* The process dies with its queue, its timers, its worker and its calls.
Crash(p) ==
  /\ crashes < MaxCrashes
  /\ crashes' = crashes + 1
  /\ queue' = [queue EXCEPT ![p] = << >>]
  /\ delayed' = [delayed EXCEPT ![p] = {}]
  /\ call' = [c \in Calls |->
                IF call[c] # NoCall /\ call[c].at = p THEN NoCall ELSE call[c]]
  /\ Done(p)
  /\ UNCHANGED <<db, delivered, past, strays, faults>>

--------------------------------------------------------------------------------
CallStep(c) == ApproveCommit(c) \/ ApproveEnqueue(c) \/ RejectCommit(c)

Load(p)  == LoadSent(p) \/ LoadUnapproved(p) \/ LoadApproved(p)
Claim(p) == \/ Reconcile(p) \/ ClaimOptedOut(p) \/ ClaimLimited(p)
            \/ ClaimBusy(p) \/ ClaimKey(p)

SenderStep(p) ==
  \/ Load(p) \/ Claim(p)
  \/ \E answer \in TelegramOutcomes : Send(p, answer)
  \/ FloodRequeue(p) \/ FloodLog(p) \/ MarkFailed(p) \/ Record(p)
  \/ Retry(p) \/ DeadLetter(p)

Next ==
  \/ \E c \in Calls, o \in Outreaches, p \in Desks :
       ApproveRead(c, o, p) \/ RejectRead(c, o, p)
  \/ \E c \in Calls : CallStep(c) \/ CallFails(c)
  \/ \E p \in Senders :
       \/ Take(p) \/ SenderStep(p)
       \/ TransactionFails(p) \/ DeadLetterFails(p)
       \/ \E o \in Outreaches : StrayTask(p, o) \/ DelayedDue(p, o)
  \/ \E p \in Analyzers : AnalyzerTakes(p)
  \/ \E o \in Outreaches, intent \in Intents : Reply(o, intent)
  \/ \E p \in Processes : Crash(p)

Spec == Init /\ [][Next]_vars

\* The event loop runs every ready task: an approval under way goes on, timers
\* fire, the consumer takes tasks and finishes them.  Faults, crashes, replies,
\* stray tasks and the operators' decisions are under no obligation.
Fairness ==
  /\ \A c \in Calls : WF_vars(CallStep(c))
  /\ \A p \in Senders :
       /\ WF_vars(Take(p))
       /\ WF_vars(SenderStep(p))
       /\ \A o \in Outreaches : WF_vars(DelayedDue(p, o))

FairSpec == Spec /\ Fairness

--------------------------------------------------------------------------------
(***************************************************************************)
(* What must hold.                                                         *)
(***************************************************************************)

\* Process p holds the claim of o: between its insert of the key and the end
\* of the attempt that inserted it.
Holds(p, o) ==
  job[p] = o /\ pc[p] \in {"send", "flood", "logflood", "record", "markfail"}

\* No recipient gets the same outreach twice, whatever duplicate tasks,
\* retries, lost answers, failed transactions and crashes there are: what
\* SendMessageUseCase's key is for.
AtMostOneDelivery == \A o \in Outreaches : delivered[o] <= 1

\* Nothing goes out that no operator approved, stray tasks included: the gate
\* of SendMessageUseCase.
ApprovedBeforeDelivery ==
  \A o \in Outreaches : delivered[o] > 0 => o \in approved

\* SENT, REPLIED and CLOSED, a COMPLETED key and a conversation are never a lie,
\* and never come without each other's evidence: the message went out and the
\* success transaction wrote key and conversation together.
SentIsTrue ==
  \A o \in Outreaches :
    /\ key[o] = "completed" => delivered[o] = 1 /\ conv[o] # "none"
    /\ conv[o] # "none" => key[o] = "completed"
    /\ status[o] \in {"sent", "replied", "closed"} => key[o] = "completed"

\* Two workers never hold the same outreach, the holder's key is PENDING, the
\* message is not out before its call, and nobody holds an outreach whose contact
\* had opted out when it was read: the claim in SendMessageUseCase.
SoleClaimant ==
  \A p \in Senders, o \in Outreaches : Holds(p, o) =>
    /\ key[o] = "pending"
    /\ (delivered[o] = 1) <=> (pc[p] = "record")
    /\ ~ seen[p].optedOut
    /\ \A q \in Senders : Holds(q, o) => q = p

\* A delivered message is never left unrecorded by InvalidStateTransition: the
\* lead read before the claim can still move to OUTREACH_SENT, although
\* approvals write leads from stale reads.
RecordNeverRaises ==
  \A p \in Senders :
    pc[p] = "record" => CanMoveLead(seen[p].lead, "outreach_sent")

\* A rejected outreach is never sent (tests/e2e/test_approval_gate.py), not even by a
\* stray task or an approval of later: only a decision that another one overtook between
\* its read and its commit (approve_message.py:44 to :64) can do that.
RejectedIsNeverSent == \A o \in rejected \ overtaken : delivered[o] = 0

\* The claims and the deliveries implement the promise: a claim is never given
\* back, a message goes out only under it, and only then is it confirmed.
Promise == INSTANCE DeliveryPromise
             WITH Messages <- Outreaches, claim <- key, sent <- delivered

PromiseKept == Promise!Spec

\* The attempt has read a willing contact and not sent yet.
InHand ==
  [p \in Processes |->
     IF pc[p] \in {"claim", "send"} /\ ~ seen[p].optedOut THEN job[p] ELSE NoOutreach]

Willing == INSTANCE Consent
             WITH Messages <- Outreaches, AddressOf <- ContactOf, Writers <- Processes,
                  None <- NoOutreach, Most <- 1,
                  withdrawn <- optedOut, inHand <- InHand, sent <- delivered

\* Nothing is sent to a contact who had opted out when the attempt read it, retries,
\* duplicated tasks and crashes included (SendMessageUseCase's check).
ConsentKept == Willing!Spec

\* The recipient got it, or a row tells why not.
Told(o) == delivered[o] > 0 \/ o \in dlq \/ status[o] \in {"failed", "rejected"}

Range(s) == {s[k] : k \in DOMAIN s}

\* A task for it is with a worker, in the worker's queue or a timer, or on its way there.
UnderWay(o) ==
  \/ \E c \in Calls : call[c].step = "enqueue" /\ call[c].o = o
  \/ \E p \in Senders :
       \/ o \in delayed[p] \union Range(queue[p])
       \/ job[p] = o /\ pc[p] \notin {"idle", "logflood"}

\* The ways the code has of losing a task: memory dies, the transaction that registers it
\* or the dead letter fails, the command line's queue has no worker, another one takes it.
TaskIsLost ==
  \/ \E p \in Processes : Crash(p)
  \/ \E c \in Calls : CallFails(c) \/ (ApproveEnqueue(c) /\ call[c].at \notin Senders)
  \/ \E p \in Senders : DeadLetterFails(p)
  \/ \E p \in Analyzers : AnalyzerTakes(p)

\* There is no other way: whatever else happens, an approved outreach keeps a task under
\* way until it is delivered or a row tells why not (approve_message.py to dead letters).
ApprovalLeavesATrace ==
  [][\A o \in approved' : (o \in approved => Told(o) \/ UnderWay(o)) =>
       (Told(o) \/ UnderWay(o))' \/ TaskIsLost]_vars

\* The worker always comes back for the next task: retries are bounded.
TaskFinishes ==
  \A p \in Senders : (pc[p] # "idle") ~> (pc[p] = "idle")

\* An approval never evaporates: the message goes out, or Telegram's refusal or a
\* dead letter tells, or a rejection came after all.
NothingSilentlyLost ==
  \A o \in Outreaches :
    (o \in approved) ~>
      \/ delivered[o] > 0
      \/ o \in dlq
      \/ status[o] \in {"failed", "rejected"}

\* An approved outreach is sent, unless it is rejected after all or its contact
\* asks to stop.
ApprovedIsSent ==
  \A o \in Outreaches :
    (status[o] = "approved") ~>
      \/ delivered[o] > 0
      \/ status[o] = "rejected"
      \/ optedOut[ContactOf[o]]

================================================================================
