--------------------------- MODULE ConversationsProofs ---------------------------
(***************************************************************************)
(* For any number of conversations, pollers, tasks and calls, and however  *)
(* answers interleave with them: TypeOK, one late follow-up of a poller    *)
(* and outreach at the most.                                               *)
(***************************************************************************)
EXTENDS Conversations, TLAPS

\* Who wrote after the opt-out is not about to write again, and the contact it refused
\* stays opted out.
LateInv ==
  \A p \in Pollers, o \in Outreaches : p \in late[o] =>
    optedOut[ContactOf[o]] /\ ~ (step[p] = "send" /\ job[p] = o)

IInv == TypeOK /\ LateInv

\* The types of what scheduling writes, and of what a poller has in its hands.
CallsOK ==
  /\ conv \in [Outreaches -> ConversationStatus]
  /\ nextAt \in [Outreaches -> {"none", "future", "due"}]
  /\ tasks \subseteq Outreaches
  /\ scheduling \in [Schedulers -> {NoCall} \union ScheduleCall]
  /\ schedules \in 0 .. MaxSchedules

HandsOK ==
  /\ step \in [Pollers -> {"idle", "next", "cancel", "send", "commit"}]
  /\ todo \in [Pollers -> SUBSET Outreaches]
  /\ job \in [Pollers -> Outreaches \union {NoOutreach}]
  /\ tasks \subseteq Outreaches

\* The statuses written are statuses of both tables.
LEMMA Statuses ==
  /\ {"closed", "replied"} \subseteq OutreachStatus \intersect ConversationStatus
  /\ "sent" \in OutreachStatus
  /\ {"waiting_reply", "followup_scheduled"} \subseteq ConversationStatus
BY DEF OutreachStatus, ConversationStatus

\* A function keeps its type when a value is replaced.
LEMMA Replaced ==
  ASSUME NEW S, NEW T, NEW f \in [S -> T], NEW x, NEW v \in T
  PROVE  [f EXCEPT ![x] = v] \in [S -> T]
<1>1. CASE x \in S
  BY <1>1
<1>2. CASE x \notin S
  <2>1. [f EXCEPT ![x] = v] = [y \in S |-> f[y]]
    BY <1>2
  <2> QED
    BY <2>1
<1> QED
  BY <1>1, <1>2

LEMMA CallGoesOn ==
  ASSUME NEW c \in ScheduleCall
  PROVE  [c EXCEPT !.at = "enqueue"] \in ScheduleCall
BY DEF ScheduleCall

--------------------------------------------------------------------------------
\* Init establishes the invariant.
LEMMA InitIInv == Init => IInv
<1> SUFFICES ASSUME Init PROVE IInv
  OBVIOUS
<1>1. inbox \in Seq(Reply) /\ reading \in {NoReply} \union Reply
  BY DEF Init
<1>2. /\ status \in [Outreaches -> OutreachStatus] /\ conv \in [Outreaches -> ConversationStatus]
      /\ nextAt \in [Outreaches -> {"none", "future", "due"}] /\ attempts \in [Outreaches -> Nat]
      /\ optedOut \in [Contacts -> BOOLEAN] /\ followups \in [Outreaches -> Nat]
      /\ late \in [Outreaches -> SUBSET Pollers]
  BY Statuses DEF Init
<1>3. /\ tasks \subseteq Outreaches
      /\ step \in [Pollers -> {"idle", "next", "cancel", "send", "commit"}]
      /\ todo \in [Pollers -> SUBSET Outreaches]
      /\ job \in [Pollers -> Outreaches \union {NoOutreach}]
      /\ scheduling \in [Schedulers -> {NoCall} \union ScheduleCall]
  BY DEF Init
<1>4. schedules \in 0 .. MaxSchedules /\ replies \in 0 .. MaxReplies /\ faults \in 0 .. MaxFaults
  BY EnvironmentAssumption DEF Init
<1>5. LateInv
  BY DEF Init, LateInv
<1> QED
  BY <1>1, <1>2, <1>3, <1>4, <1>5 DEF IInv, TypeOK

--------------------------------------------------------------------------------
\* Recipients and the reply worker: the pollers are where they were, and nobody opts in.
LEMMA ReplyKeeps ==
  ASSUME IInv,
         \/ \E o \in Outreaches, intent \in Intents, to \in ReplyTargets : Answer(o, intent, to)
         \/ ReplyStep \/ ReplyUnclassified \/ ReplyLost
  PROVE  IInv'
<1>1. /\ UNCHANGED <<poller, late, tasks, scheduling, followups, nextAt, attempts, schedules>>
      /\ \A c \in Contacts : optedOut[c] => optedOut'[c]
  BY DEF IInv, TypeOK, Answer, ReplyStep, ReplyIgnored, ReplyFound, ReplyOptOut, ReplyNotInterested,
         ReplyInterested, ReplyUnclassified, ReplyLost, rows, env
<1>2. LateInv'
  BY <1>1, RowsAssumption DEF IInv, LateInv, poller
<1>3. TypeOK'
  <2>1. inbox' \in Seq(Reply) /\ reading' \in {NoReply} \union Reply
        /\ replies' \in 0 .. MaxReplies /\ faults' \in 0 .. MaxFaults
    <3>1. ASSUME NEW o \in Outreaches, NEW intent \in Intents, NEW to \in ReplyTargets,
                 Answer(o, intent, to)
          PROVE  /\ inbox' \in Seq(Reply) /\ reading' = reading /\ faults' = faults
                 /\ replies' \in 0 .. MaxReplies
      <4>1. [o |-> o, intent |-> intent, to |-> to] \in Reply
        BY EnvironmentAssumption DEF Reply
      <4>2. /\ inbox' = Append(inbox, [o |-> o, intent |-> intent, to |-> to])
            /\ replies < MaxReplies /\ replies' = replies + 1
            /\ reading' = reading /\ faults' = faults
        BY <3>1 DEF Answer
      <4>3. inbox' \in Seq(Reply)
        BY <4>1, <4>2 DEF IInv, TypeOK
      <4>4. replies' \in 0 .. MaxReplies
        BY <4>2, EnvironmentAssumption DEF IInv, TypeOK
      <4> QED
        BY <4>2, <4>3, <4>4
    <3>2. CASE ReplyIgnored \/ ReplyFound
      <4>1. /\ inbox # <<>> /\ inbox' = Tail(inbox)
            /\ reading' = reading \/ reading' = Head(inbox)
            /\ UNCHANGED <<replies, faults>>
        BY <3>2 DEF ReplyIgnored, ReplyFound, env
      <4> QED
        BY <4>1 DEF IInv, TypeOK
    <3>3. CASE ReplyOptOut \/ ReplyNotInterested \/ ReplyInterested
      <4>1. inbox' = inbox /\ reading' = NoReply /\ UNCHANGED <<replies, faults>>
        BY <3>3 DEF ReplyOptOut, ReplyNotInterested, ReplyInterested, ReplyWrite, env
      <4> QED
        BY <4>1 DEF IInv, TypeOK
    <3>4. CASE ReplyUnclassified \/ ReplyLost
      <4>1. /\ inbox' = inbox /\ reading' = NoReply /\ replies' = replies
            /\ faults < MaxFaults /\ faults' = faults + 1
        BY <3>4 DEF ReplyUnclassified, ReplyLost, ReplyWrite
      <4> QED
        BY <4>1, EnvironmentAssumption DEF IInv, TypeOK
    <3> QED
      BY <3>1, <3>2, <3>3, <3>4 DEF ReplyStep, IInv, TypeOK
  <2>2. /\ status' \in [Outreaches -> OutreachStatus]
        /\ conv' \in [Outreaches -> ConversationStatus]
        /\ optedOut' \in [Contacts -> BOOLEAN]
    <3>1. \/ conv' = conv /\ status' = status
          \/ \E new \in {"closed", "replied"} :
               /\ conv' = [conv EXCEPT ![reading.o] = new]
               /\ status' = [status EXCEPT ![reading.o] = new]
      BY DEF Answer, ReplyStep, ReplyIgnored, ReplyFound, ReplyOptOut, ReplyNotInterested,
         ReplyInterested, ReplyUnclassified, ReplyLost, ReplyWrite, rows
    <3>2. \/ optedOut' = optedOut
          \/ optedOut' = [optedOut EXCEPT ![ContactOf[reading.o]] = TRUE]
      BY DEF Answer, ReplyStep, ReplyIgnored, ReplyFound, ReplyOptOut, ReplyNotInterested,
         ReplyInterested, ReplyUnclassified, ReplyLost, rows
    <3>3. /\ status \in [Outreaches -> OutreachStatus]
          /\ conv \in [Outreaches -> ConversationStatus]
          /\ optedOut \in [Contacts -> BOOLEAN]
      BY DEF IInv, TypeOK
    <3>4. status' \in [Outreaches -> OutreachStatus] /\ conv' \in [Outreaches -> ConversationStatus]
      BY <3>1, <3>3, Statuses, Replaced
    <3>5. optedOut' \in [Contacts -> BOOLEAN]
      BY <3>2, <3>3, Replaced
    <3> QED
      BY <3>4, <3>5
  <2> QED
    BY <1>1, <2>1, <2>2 DEF IInv, TypeOK, poller
<1> QED
  BY <1>2, <1>3 DEF IInv

\* Scheduling and the clock.
LEMMA ScheduleKeeps ==
  ASSUME IInv,
         \/ \E s \in Schedulers : ScheduleStep(s) \/ \E o \in Outreaches : ScheduleRead(s, o)
         \/ \E o \in Outreaches : FollowupDue(o)
  PROVE  IInv'
<1>1. UNCHANGED <<poller, late, optedOut, status, attempts, followups, inbox, reading, replies, faults>>
  BY DEF ScheduleStep, ScheduleCommit, ScheduleEnqueue, ScheduleRead, FollowupDue, rows, env
<1>2. LateInv'
  BY <1>1 DEF IInv, LateInv, poller
<1>3. CallsOK'
  <2>1. ASSUME NEW s \in Schedulers, NEW o \in Outreaches, ScheduleRead(s, o) PROVE CallsOK'
    <3>1. /\ schedules < MaxSchedules /\ schedules' = schedules + 1
          /\ scheduling' = [scheduling EXCEPT ![s] = [at |-> "commit", o |-> o]]
          /\ UNCHANGED <<conv, nextAt, tasks>>
      BY <2>1 DEF ScheduleRead, rows
    <3>2. schedules' \in 0 .. MaxSchedules
      BY <3>1, EnvironmentAssumption DEF IInv, TypeOK
    <3> QED
      BY <3>1, <3>2 DEF CallsOK, IInv, TypeOK, ScheduleCall
  <2>2. ASSUME NEW s \in Schedulers, ScheduleCommit(s) PROVE CallsOK'
    <3>1. scheduling[s] \in ScheduleCall
      BY <2>2 DEF IInv, TypeOK, ScheduleCommit, NoCall
    <3>2. /\ conv' \in [Outreaches -> ConversationStatus]
          /\ nextAt' \in [Outreaches -> {"none", "future", "due"}]
          /\ UNCHANGED <<tasks, schedules>>
      BY <2>2, Statuses DEF IInv, TypeOK, ScheduleCommit, env
    <3>3. scheduling' = [scheduling EXCEPT ![s] = [scheduling[s] EXCEPT !.at = "enqueue"]]
      BY <2>2 DEF ScheduleCommit
    <3>4. [scheduling[s] EXCEPT !.at = "enqueue"] \in ScheduleCall
      BY <3>1, CallGoesOn
    <3> QED
      BY <3>2, <3>3, <3>4 DEF CallsOK, IInv, TypeOK
  <2>3. ASSUME NEW s \in Schedulers, ScheduleEnqueue(s) PROVE CallsOK'
    <3>1. scheduling[s] \in ScheduleCall
      BY <2>3 DEF IInv, TypeOK, ScheduleEnqueue, NoCall
    <3> QED
      BY <2>3, <3>1 DEF CallsOK, IInv, TypeOK, ScheduleEnqueue, ScheduleCall, rows, env
  <2>4. ASSUME NEW o \in Outreaches, FollowupDue(o) PROVE CallsOK'
    BY <2>4 DEF CallsOK, IInv, TypeOK, FollowupDue, env
  <2> QED
    BY <2>1, <2>2, <2>3, <2>4 DEF ScheduleStep
<1> QED
  BY <1>1, <1>2, <1>3 DEF CallsOK, IInv, TypeOK, poller

--------------------------------------------------------------------------------
\* A poller sends to a contact it has found not opted out; after a late follow-up it finds
\* the contact opted out.
LEMMA RunKeeps ==
  ASSUME IInv, NEW p \in Pollers,
         \/ Tick(p) \/ RunStep(p) \/ RunSendFails(p) \/ RunRaises(p)
         \/ \E o \in Outreaches : TaskDue(p, o)
  PROVE  IInv'
<1>1. /\ UNCHANGED <<nextAt, attempts, optedOut, inbox, reading, scheduling, schedules, replies>>
      /\ \A q \in Pollers \ {p} : step'[q] = step[q] /\ job'[q] = job[q]
  BY DEF IInv, TypeOK, Tick, TaskDue, RunStep, TickEnds, RunRefused, RunReplied, RunStarts, RunReads,
         RunCancels, RunSends, RunCommits, RunSendFails, RunRaises, RunEnds, rows, env
<1>2. CASE RunSends(p)
  <2>1. /\ step[p] = "send" /\ step' = [step EXCEPT ![p] = "commit"]
        /\ late' = IF optedOut[ContactOf[job[p]]]
                   THEN [late EXCEPT ![job[p]] = late[job[p]] \union {p}] ELSE late
        /\ followups' = [followups EXCEPT ![job[p]] =
                           IF followups[job[p]] < MaxSends THEN followups[job[p]] + 1
                                                           ELSE followups[job[p]]]
        /\ UNCHANGED <<status, conv, tasks, todo, job, faults>>
    BY <1>2 DEF RunSends, rows, env
  <2>2. TypeOK'
    <3>1. late' \in [Outreaches -> SUBSET Pollers]
      BY <2>1 DEF IInv, TypeOK
    <3>2. followups' \in [Outreaches -> Nat]
      <4>1. CASE job[p] \in Outreaches
        BY <2>1, <4>1 DEF IInv, TypeOK
      <4>2. CASE job[p] \notin Outreaches
        <5>1. followups' = followups
          BY <2>1, <4>2 DEF IInv, TypeOK
        <5> QED
          BY <5>1 DEF IInv, TypeOK
      <4> QED
        BY <4>1, <4>2
    <3> QED
      BY <1>1, <2>1, <3>1, <3>2 DEF IInv, TypeOK
  <2>3. LateInv'
    <3> SUFFICES ASSUME NEW q \in Pollers, NEW o \in Outreaches, q \in late'[o]
                 PROVE  optedOut'[ContactOf[o]] /\ ~ (step'[q] = "send" /\ job'[q] = o)
      BY DEF LateInv
    <3>1. CASE q \in late[o]
      BY <1>1, <2>1, <3>1 DEF IInv, LateInv, TypeOK
    <3>2. CASE q \notin late[o]
      BY <1>1, <2>1, <3>2 DEF IInv, TypeOK
    <3> QED
      BY <3>1, <3>2
  <2> QED
    BY <2>2, <2>3 DEF IInv
<1>3. ASSUME NEW o \in Outreaches, RunStarts(p, o) PROVE IInv'
  <2>1. /\ ~ optedOut[ContactOf[o]] /\ job' = [job EXCEPT ![p] = o]
        /\ step' = [step EXCEPT ![p] = "send"] /\ todo' = [todo EXCEPT ![p] = todo[p] \ {o}]
        /\ UNCHANGED <<status, conv, followups, tasks, late, faults>>
    BY <1>3 DEF RunStarts, RunReads, rows, env
  <2>2. TypeOK'
    BY <1>1, <2>1 DEF IInv, TypeOK
  <2>3. LateInv'
    BY <1>1, <2>1 DEF IInv, LateInv, TypeOK
  <2> QED
    BY <2>2, <2>3 DEF IInv
<1>4. CASE \/ Tick(p) \/ TickEnds(p) \/ RunCancels(p) \/ RunCommits(p) \/ RunSendFails(p)
           \/ RunRaises(p) \/ \E o \in Outreaches : TaskDue(p, o) \/ RunRefused(p, o) \/ RunReplied(p, o)
  <2>1. late' = late /\ followups' = followups /\ step'[p] # "send"
    BY <1>4 DEF IInv, TypeOK, Tick, TaskDue, TickEnds, RunRefused, RunReplied, RunReads, RunCancels,
       RunCommits, RunSendFails, RunRaises, RunEnds
  <2>2. LateInv'
    BY <1>1, <2>1 DEF IInv, LateInv
  <2>3. HandsOK'
    <3>1. CASE Tick(p) \/ TickEnds(p) \/ \E o \in Outreaches : TaskDue(p, o)
      <4>1. /\ \E s \in {"next", "idle"} : step' = [step EXCEPT ![p] = s]
            /\ todo' = todo \/ \E d \in SUBSET Outreaches : todo' = [todo EXCEPT ![p] = d]
            /\ job' = job /\ tasks' \subseteq tasks
        BY <3>1 DEF Tick, TaskDue, Due, TickEnds
      <4> QED
        BY <4>1 DEF HandsOK, IInv, TypeOK
    <3>2. CASE RunCancels(p) \/ RunCommits(p) \/ RunSendFails(p)
      <4>1. /\ step' = [step EXCEPT ![p] = "next"] /\ job' = [job EXCEPT ![p] = NoOutreach]
            /\ todo' = todo /\ tasks' = tasks
        BY <3>2 DEF RunCancels, RunCommits, RunSendFails, RunEnds
      <4> QED
        BY <4>1 DEF HandsOK, IInv, TypeOK
    <3>3. CASE RunRaises(p)
      BY <3>3 DEF HandsOK, IInv, TypeOK, RunRaises
    <3>4. ASSUME NEW o \in Outreaches, RunRefused(p, o) \/ RunReplied(p, o) PROVE HandsOK'
      <4>1. /\ \E s \in {"next", "cancel"} : step' = [step EXCEPT ![p] = s]
            /\ todo' = [todo EXCEPT ![p] = todo[p] \ {o}]
            /\ \E j \in {o, NoOutreach} : job' = [job EXCEPT ![p] = j]
            /\ tasks' = tasks
        BY <3>4 DEF RunRefused, RunReplied, RunReads
      <4> QED
        BY <4>1 DEF HandsOK, IInv, TypeOK
    <3> QED
      BY <1>4, <3>1, <3>2, <3>3, <3>4
  <2>4. /\ status' \in [Outreaches -> OutreachStatus]
        /\ conv' \in [Outreaches -> ConversationStatus]
    <3>1. /\ \/ conv' = conv
             \/ conv' = [conv EXCEPT ![job[p]] = "waiting_reply"]
          /\ \/ status' = status
             \/ status' = [status EXCEPT ![job[p]] = "sent"]
      BY <1>4 DEF Tick, TaskDue, TickEnds, RunRefused, RunReplied, RunReads, RunCancels, RunCommits,
         RunSendFails, RunRaises, rows
    <3>2. status \in [Outreaches -> OutreachStatus] /\ conv \in [Outreaches -> ConversationStatus]
      BY DEF IInv, TypeOK
    <3> QED
      BY <3>1, <3>2, Statuses, Replaced
  <2>5. faults' \in 0 .. MaxFaults
    <3>1. faults' = faults \/ (faults < MaxFaults /\ faults' = faults + 1)
      BY <1>4 DEF Tick, TaskDue, TickEnds, RunRefused, RunReplied, RunReads, RunCancels, RunCommits,
         RunSendFails, RunRaises, env
    <3> QED
      BY <3>1, EnvironmentAssumption DEF IInv, TypeOK
  <2> QED
    BY <1>1, <2>1, <2>2, <2>3, <2>4, <2>5 DEF HandsOK, IInv, TypeOK
<1> QED
  BY <1>2, <1>3, <1>4 DEF RunStep

--------------------------------------------------------------------------------
\* Every step keeps the invariant.
LEMMA StepIInv == IInv /\ [Next]_vars => IInv'
<1> SUFFICES ASSUME IInv, [Next]_vars PROVE IInv'
  OBVIOUS
<1>1. CASE Next
  BY <1>1, ReplyKeeps, ScheduleKeeps, RunKeeps, EnvironmentAssumption DEF Next
<1>2. CASE UNCHANGED vars
  BY <1>2 DEF IInv, TypeOK, LateInv, vars, rows, poller, env
<1> QED
  BY <1>1, <1>2

LEMMA AlwaysIInv == Spec => []IInv
<1> QED
  BY InitIInv, StepIInv, PTL DEF Spec

\* The variables keep their types.
THEOREM TypeCorrect == Spec => []TypeOK
<1>1. IInv => TypeOK
  BY DEF IInv
<1> QED
  BY <1>1, AlwaysIInv, PTL

\* A poller that wrote to a contact after the opt-out never does so again for that outreach.
THEOREM LateOnce == Spec => []OneLateFollowup
<1>1. IInv => OneLateFollowup
  BY DEF IInv, LateInv, OneLateFollowup
<1> QED
  BY <1>1, AlwaysIInv, PTL

--------------------------------------------------------------------------------
(***************************************************************************)
(* Consent.  Every step takes a follow-up in hand for a willing contact,   *)
(* empties a hand, sets an opt-out, or changes nothing that consent is     *)
(* about.                                                                  *)
(***************************************************************************)

\* A run that goes on has a conversation.
HandInv == \A p \in Pollers : step[p] \in {"cancel", "send", "commit"} => job[p] \in Outreaches

LEMMA HandStep == TypeOK /\ HandInv /\ [Next]_vars => HandInv'
<1> SUFFICES ASSUME TypeOK, HandInv, [Next]_vars PROVE HandInv'
  OBVIOUS
<1> USE DEF HandInv
<1>1. CASE UNCHANGED poller
  BY <1>1 DEF poller
<1>2. ASSUME NEW p \in Pollers, Tick(p) \/ RunStep(p) \/ RunSendFails(p) \/ RunRaises(p)
      PROVE  HandInv'
  <2>1. CASE \E o \in Outreaches : RunRefused(p, o) \/ RunReplied(p, o) \/ RunStarts(p, o)
    BY <2>1 DEF RunRefused, RunReplied, RunStarts, RunReads, TypeOK
  <2>2. CASE RunSends(p)
    BY <2>2 DEF RunSends, TypeOK
  <2>3. CASE Tick(p) \/ TickEnds(p) \/ RunCancels(p) \/ RunCommits(p) \/ RunSendFails(p) \/ RunRaises(p)
    BY <2>3 DEF Tick, TickEnds, RunCancels, RunCommits, RunSendFails, RunRaises, RunEnds, TypeOK
  <2> QED
    BY <1>2, <2>1, <2>2, <2>3 DEF RunStep
<1>3. ASSUME NEW p \in TaskConsumers, NEW o \in Outreaches, TaskDue(p, o) PROVE HandInv'
  BY <1>3, EnvironmentAssumption DEF TaskDue, TypeOK
<1>4. ASSUME NEW o \in Outreaches, NEW intent \in Intents, NEW to \in ReplyTargets,
             Answer(o, intent, to)
      PROVE  UNCHANGED poller
  BY <1>4 DEF Answer
<1>5. ASSUME ReplyStep \/ ReplyUnclassified \/ ReplyLost PROVE UNCHANGED poller
  BY <1>5 DEF ReplyStep, ReplyIgnored, ReplyFound, ReplyOptOut, ReplyNotInterested,
     ReplyInterested, ReplyUnclassified, ReplyLost
<1>6. ASSUME NEW s \in Schedulers, ScheduleStep(s) \/ \E o \in Outreaches : ScheduleRead(s, o)
      PROVE  UNCHANGED poller
  BY <1>6 DEF ScheduleStep, ScheduleCommit, ScheduleEnqueue, ScheduleRead
<1>7. ASSUME NEW o \in Outreaches, FollowupDue(o) PROVE UNCHANGED poller
  BY <1>7 DEF FollowupDue
<1>8. CASE UNCHANGED vars
  BY <1>1, <1>8 DEF vars
<1> QED
  BY <1>1, <1>2, <1>3, <1>4, <1>5, <1>6, <1>7, <1>8 DEF Next

LEMMA ConsentInit == Init => Willing!Init
BY DEF Init, Willing!Init, InHand

LEMMA ConsentNext ==
  TypeOK /\ HandInv /\ [Next]_vars => [Willing!Next]_<<optedOut, InHand, followups>>
<1> SUFFICES ASSUME TypeOK, HandInv, [Next]_vars, ~ UNCHANGED <<optedOut, InHand, followups>>
             PROVE  Willing!Next
  OBVIOUS
<1> USE DEF rows, poller, env
<1>1. ASSUME NEW p \in Pollers, NEW o \in Outreaches, RunStarts(p, o) PROVE Willing!Next
  <2>1. InHand[p] = NoOutreach /\ InHand' = [InHand EXCEPT ![p] = o]
    BY <1>1 DEF RunStarts, RunReads, InHand, TypeOK
  <2>2. Willing!TakeInHand(p, o)
    BY <1>1, <2>1 DEF RunStarts, RunReads, Willing!TakeInHand
  <2> QED
    BY <2>2 DEF Willing!Next
<1>2. ASSUME NEW p \in Pollers, RunSends(p) PROVE Willing!Next
  <2>1. job[p] \in Outreaches /\ InHand[p] = job[p] /\ InHand' = [InHand EXCEPT ![p] = NoOutreach]
    BY <1>2 DEF RunSends, InHand, TypeOK, HandInv
  <2>2. Willing!Write(p)
    BY <1>2, <2>1, RowsAssumption DEF RunSends, Willing!Write, RowsAssumption
  <2> QED
    BY <2>2 DEF Willing!Next
<1>3. ASSUME NEW p \in Pollers, RunSendFails(p) \/ RunRaises(p) PROVE Willing!Next
  <2>1. /\ UNCHANGED <<optedOut, followups>>
        /\ job' = [job EXCEPT ![p] = NoOutreach]
        /\ \E s \in {"idle", "next"} : step' = [step EXCEPT ![p] = s]
    BY <1>3 DEF RunSendFails, RunRaises, RunEnds
  <2>2. InHand' = [InHand EXCEPT ![p] = NoOutreach]
    BY <2>1 DEF InHand, TypeOK
  <2>3. CASE InHand[p] # NoOutreach
    BY <2>1, <2>2, <2>3 DEF Willing!Next, Willing!LetGo
  <2>4. CASE InHand[p] = NoOutreach
    BY <2>1, <2>2, <2>4 DEF InHand
  <2> QED
    BY <2>3, <2>4
<1>4. ASSUME NEW p \in Pollers, Tick(p) \/ TickEnds(p) \/ RunCancels(p) \/ RunCommits(p)
      PROVE  Willing!Next
  BY <1>4 DEF Tick, TickEnds, RunCancels, RunCommits, RunEnds, InHand, TypeOK
<1>5. ASSUME NEW p \in Pollers, NEW o \in Outreaches, RunRefused(p, o) \/ RunReplied(p, o)
      PROVE  Willing!Next
  BY <1>5 DEF RunRefused, RunReplied, RunReads, InHand, TypeOK
<1>6. ASSUME NEW p \in TaskConsumers, NEW o \in Outreaches, TaskDue(p, o) PROVE Willing!Next
  BY <1>6, EnvironmentAssumption DEF TaskDue, InHand, TypeOK
<1>7. ASSUME ReplyOptOut PROVE Willing!Next
  <2>1. ContactOf[reading.o] \in Contacts
    BY <1>7, RowsAssumption DEF RowsAssumption, ReplyOptOut, TypeOK, Reply
  <2>2. Willing!Withdraw(ContactOf[reading.o])
    BY <1>7 DEF ReplyOptOut, Willing!Withdraw, InHand
  <2> QED
    BY <2>1, <2>2 DEF Willing!Next
<1>8. ASSUME \/ ReplyIgnored \/ ReplyFound \/ ReplyNotInterested \/ ReplyInterested
             \/ ReplyUnclassified \/ ReplyLost
             \/ \E o \in Outreaches, intent \in Intents, to \in ReplyTargets :
                  Answer(o, intent, to)
      PROVE  Willing!Next
  BY <1>8 DEF ReplyIgnored, ReplyFound, ReplyNotInterested, ReplyInterested,
     ReplyUnclassified, ReplyLost, Answer, InHand
<1>9. ASSUME NEW s \in Schedulers, ScheduleStep(s) \/ \E o \in Outreaches : ScheduleRead(s, o)
      PROVE  Willing!Next
  BY <1>9 DEF ScheduleStep, ScheduleCommit, ScheduleEnqueue, ScheduleRead, InHand
<1>10. ASSUME NEW o \in Outreaches, FollowupDue(o) PROVE Willing!Next
  BY <1>10 DEF FollowupDue, InHand
<1>11. CASE UNCHANGED vars
  BY <1>11 DEF vars, InHand
<1> QED
  BY <1>1, <1>2, <1>3, <1>4, <1>5, <1>6, <1>7, <1>8, <1>9, <1>10, <1>11
     DEF Next, ReplyStep, RunStep

\* Following up implements consent: after an opt-out only the run that had read the
\* contact before can still send, and nothing takes an opt-out back.
THEOREM KeepsConsent == Spec => ConsentKept
<1>1. Init => HandInv
  BY DEF Init, HandInv
<1>2. Spec => []HandInv
  BY <1>1, HandStep, TypeCorrect, PTL DEF Spec
<1> QED
  BY <1>2, TypeCorrect, ConsentInit, ConsentNext, PTL DEF Spec, ConsentKept, Willing!Spec

================================================================================
