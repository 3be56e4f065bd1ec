------------------------------ MODULE RateLimits ------------------------------
(***************************************************************************)
(* The limits a send must respect (FrequencyPolicy, OutreachPolicy and the *)
(* persistent buckets SendMessageUseCase counts), against the clock.       *)
(*                                                                         *)
(* A send is checked in one transaction, goes out, and is counted in       *)
(* another.  The keys, retries and dead letters of a send are              *)
(* OutreachSending's: here each outreach is claimed at most once.          *)
(* Follow-ups are neither checked nor counted, and are not modelled.       *)
(***************************************************************************)
EXTENDS Integers, FiniteSets

CONSTANTS
  Outreaches,    \* approved outreaches
  Contacts,
  ContactOf,
  NoOutreach,    \* "nothing in hand"
  Nobody,        \* "claimed by no sender"
  Senders,       \* outreach workers, of whatever processes
  Day, Hour,     \* ticks of the clock
  DailyLimit,    \* settings.daily_message_limit
  HourlyLimit,   \* settings.global_hourly_limit
  Cooldown,      \* settings.per_recipient_cooldown_hours, in ticks
  MinDelay,      \* settings.min_delay_seconds, in ticks
  AwareTimes,    \* the database returns times with a time zone (PostgreSQL)
  Horizon,       \* bound: the last tick
  MaxFaults      \* bound: deliveries that fail to be counted

ASSUME LimitsAssumption ==
  /\ ContactOf \in [Outreaches -> Contacts]
  /\ NoOutreach \notin Outreaches
  /\ Nobody \notin Senders
  /\ Day \in Nat \ {0} /\ Hour \in Nat \ {0}
  /\ DailyLimit \in Nat /\ HourlyLimit \in Nat
  /\ Cooldown \in Nat /\ MinDelay \in Nat
  /\ AwareTimes \in BOOLEAN
  /\ Horizon \in Nat /\ MaxFaults \in Nat

VARIABLES
  now,        \* the clock; it starts after any window could reach back
  owner,      \* the sender that claimed an outreach with its key, or Nobody
  sentAt,     \* when each message went out, or Never
  counted,    \* outreaches with rows in rate_limit_buckets
  step,       \* where each sender stands
  job,        \* the outreach it sends
  refused,    \* outreaches whose last check failed
  faults

vars == <<now, owner, sentAt, counted, step, job, refused, faults>>

Never == 0
Start == Day + Hour + Cooldown + MinDelay + 1
Times == {Never} \union (Start .. Start + Horizon)

TypeOK ==
  /\ now \in Start .. Start + Horizon
  /\ owner \in [Outreaches -> Senders \union {Nobody}]
  /\ sentAt \in [Outreaches -> Times]
  /\ counted \subseteq {o \in Outreaches : owner[o] # Nobody}
  /\ step \in [Senders -> {"idle", "send", "record"}]
  /\ job \in [Senders -> Outreaches \union {NoOutreach}]
  /\ refused \subseteq Outreaches
  /\ faults \in 0 .. MaxFaults

Init ==
  /\ now = Start
  /\ owner = [o \in Outreaches |-> Nobody]
  /\ sentAt = [o \in Outreaches |-> Never]
  /\ counted = {}
  /\ step = [p \in Senders |-> "idle"]
  /\ job = [p \in Senders |-> NoOutreach]
  /\ refused = {}
  /\ faults = 0

--------------------------------------------------------------------------------
DayOf(t) == t - (t % Day)

\* count_in_window over the "global" rows, from a time on up to the day's end.
CountFrom(start) ==
  Cardinality({o \in counted : start <= sentAt[o] /\ sentAt[o] < DayOf(now) + Day})

\* Mutant: a limit is the number of sends that may precede one.
RoomAndOne ==
  /\ CountFrom(DayOf(now)) <= DailyLimit
  /\ CountFrom(now - Hour) <= HourlyLimit

\* OutreachPolicy.can_send, as far as it counts.
Room ==
  /\ CountFrom(DayOf(now)) < DailyLimit
  /\ CountFrom(now - Hour) < HourlyLimit

\* Mutant: the cooldown of the outreach, not that of its recipient.
CooledByOutreach(o) == o \in counted => now - sentAt[o] >= MinDelay

\* can_contact_recipient, of the last row of the recipient: both the minimal
\* interval and the cooldown are checked there.
Cooled(o) ==
  \A q \in counted : ContactOf[q] = ContactOf[o] =>
    /\ now - sentAt[q] >= MinDelay
    /\ now - sentAt[q] >= Cooldown

\* utcnow() minus a time with a zone is a TypeError.
Comparable(o) ==
  AwareTimes => \A q \in counted : ContactOf[q] # ContactOf[o]

CheckPasses(p, o) ==
  /\ step[p] = "idle"
  /\ owner[o] = Nobody
  /\ Room /\ Comparable(o) /\ Cooled(o)
  /\ owner' = [owner EXCEPT ![o] = p]
  /\ step' = [step EXCEPT ![p] = "send"]
  /\ job' = [job EXCEPT ![p] = o]
  /\ refused' = refused \ {o}
  /\ UNCHANGED <<now, sentAt, counted, faults>>

CheckRefuses(p, o) ==
  /\ step[p] = "idle"
  /\ owner[o] = Nobody
  /\ ~ (Room /\ Comparable(o) /\ Cooled(o))
  /\ refused' = refused \union {o}
  /\ UNCHANGED <<now, owner, sentAt, counted, step, job, faults>>

\* sent_at is the time of the answer.
Send(p) ==
  /\ step[p] = "send"
  /\ sentAt' = [sentAt EXCEPT ![job[p]] = now]
  /\ step' = [step EXCEPT ![p] = "record"]
  /\ UNCHANGED <<now, owner, counted, job, refused, faults>>

Idle(p) ==
  /\ step' = [step EXCEPT ![p] = "idle"]
  /\ job' = [job EXCEPT ![p] = NoOutreach]

\* Mutant: the sender forgets its outreach before it counts it.
RecordAfterReset(p) ==
  /\ step[p] = "record"
  /\ Idle(p)
  /\ counted' = counted \union {job'[p]}
  /\ UNCHANGED <<now, owner, sentAt, refused, faults>>

\* Both rows, "global" and the recipient's, are written with sent_at.
Record(p) ==
  /\ step[p] = "record"
  /\ counted' = counted \union {job[p]}
  /\ Idle(p)
  /\ UNCHANGED <<now, owner, sentAt, refused, faults>>

\* The message is out, its success transaction is rolled back or never begins.
RecordFails(p) ==
  /\ step[p] = "record"
  /\ faults < MaxFaults
  /\ faults' = faults + 1
  /\ Idle(p)
  /\ UNCHANGED <<now, owner, sentAt, counted, refused>>

Tick ==
  /\ now < Start + Horizon
  /\ now' = now + 1
  /\ UNCHANGED <<owner, sentAt, counted, step, job, refused, faults>>

Next ==
  \/ \E p \in Senders :
       \/ Send(p) \/ Record(p) \/ RecordFails(p)
       \/ \E o \in Outreaches : CheckPasses(p, o) \/ CheckRefuses(p, o)
  \/ Tick

Spec == Init /\ [][Next]_vars

--------------------------------------------------------------------------------
(***************************************************************************)
(* What must hold.                                                         *)
(***************************************************************************)

Sent == {o \in Outreaches : sentAt[o] # Never}

SentOn(day)   == {o \in Sent : DayOf(sentAt[o]) = day}
SentWithin(t) == {o \in Sent : t - Hour <= sentAt[o] /\ sentAt[o] <= t}

\* DAILY_MESSAGE_LIMIT and GLOBAL_HOURLY_LIMIT (README section 15) are checked
\* before a call of Telegram that may end on another day, and counted after it.  Each
\* sender but one can exceed them by the one message it had checked before the others
\* were counted, and each delivery that was not counted makes room for one more; by no
\* more than that.
OvershootBounded ==
  LET Slack == (Cardinality(Senders) - 1) + faults IN
  \A o \in Sent :
    /\ Cardinality(SentOn(DayOf(sentAt[o]))) <= DailyLimit + Slack
    /\ Cardinality(SentWithin(sentAt[o])) <= HourlyLimit + Slack

\* Two counted messages of one sender to the same recipient are a cooldown apart
\* (README section 15), however long the calls of Telegram take and whatever other
\* senders do.
CooldownKept ==
  \A o, q \in counted :
    o # q /\ owner[o] = owner[q] /\ ContactOf[o] = ContactOf[q] =>
      \/ sentAt[o] - sentAt[q] >= Cooldown
      \/ sentAt[q] - sentAt[o] >= Cooldown

================================================================================
