--------------------------- MODULE RateLimitsProofs ---------------------------
(***************************************************************************)
(* That a sender keeps the recipients' cooldown between its counted        *)
(* messages, and that a limit is exceeded by no more than what is in       *)
(* flight or was lost: for every number of senders, every set of           *)
(* outreaches, every clock and every setting of the limits.                *)
(***************************************************************************)
EXTENDS RateLimits, FiniteSetTheorems, TLAPS

TypeInv ==
  /\ now \in Nat
  /\ counted \subseteq Outreaches
  /\ owner \in [Outreaches -> Senders \union {Nobody}]
  /\ sentAt \in [Outreaches -> Nat]
  /\ step \in [Senders -> {"idle", "send", "record"}]
  /\ job \in [Senders -> Outreaches \union {NoOutreach}]

\* What is counted was claimed before, and what a sender has in hand is its own and
\* not counted yet: no other sender's step reaches it.
HandInv ==
  /\ \A o \in counted : owner[o] # Nobody
  /\ \A p \in Senders : step[p] # "idle" =>
       job[p] \in Outreaches \ counted /\ owner[job[p]] = p

\* Between its check and its call a sender is a cooldown away from its last message
\* to the recipient, and time only takes it further; what it sent keeps the distance.
ClearInv ==
  \A p \in Senders, q \in counted :
    owner[q] = p /\ ContactOf[q] = ContactOf[job[p]] =>
      /\ step[p] = "send" => now - sentAt[q] >= Cooldown
      /\ step[p] = "record" => sentAt[job[p]] - sentAt[q] >= Cooldown

IInv == TypeInv /\ HandInv /\ ClearInv /\ CooldownKept

LEMMA InitIInv == Init => IInv
<1> SUFFICES ASSUME Init PROVE IInv
  OBVIOUS
<1>1. Start \in Nat
  BY LimitsAssumption DEF Start
<1>2. QED
  BY <1>1, LimitsAssumption
     DEF Init, IInv, TypeInv, HandInv, ClearInv, CooldownKept, Never

\* Time only grows, and what is sent stays sent.
LEMMA TickKeeps == IInv /\ Tick => IInv'
<1> SUFFICES ASSUME IInv, Tick PROVE IInv'
  OBVIOUS
<1> USE DEF IInv, Tick
<1>1. TypeInv' /\ HandInv' /\ CooldownKept'
  BY DEF TypeInv, HandInv, CooldownKept
<1>2. ClearInv'
  BY LimitsAssumption DEF TypeInv, ClearInv
<1>3. QED
  BY <1>1, <1>2

\* The check looks at all that is counted, the sender's own messages among it.
LEMMA CheckKeeps ==
  ASSUME IInv, NEW p \in Senders, NEW o \in Outreaches, CheckPasses(p, o)
  PROVE  IInv'
<1> USE LimitsAssumption DEF IInv, CheckPasses
<1>1. TypeInv'
  BY DEF TypeInv
<1>2. o \notin counted /\ p # Nobody
  BY DEF HandInv
<1>3. HandInv'
  BY <1>2 DEF TypeInv, HandInv
<1>4. \A q \in counted : owner'[q] = owner[q]
  BY <1>2 DEF TypeInv
<1>5. ClearInv'
  <2>1. \A q \in counted : ContactOf[q] = ContactOf[o] => now - sentAt[q] >= Cooldown
    BY DEF Cooled
  <2>2. job'[p] = o /\ step'[p] = "send"
    BY DEF TypeInv
  <2>3. \A r \in Senders \ {p} : job'[r] = job[r] /\ step'[r] = step[r]
    BY DEF TypeInv
  <2>4. QED
    BY <1>4, <2>1, <2>2, <2>3 DEF ClearInv
<1>6. CooldownKept'
  BY <1>4 DEF CooldownKept
<1>7. QED
  BY <1>1, <1>3, <1>5, <1>6

\* The message goes out at the present time; it is not counted yet.
LEMMA SendKeeps ==
  ASSUME IInv, NEW p \in Senders, Send(p)
  PROVE  IInv'
<1> USE DEF IInv, Send
<1>1. job[p] \in Outreaches \ counted /\ owner[job[p]] = p
  BY DEF HandInv
<1>2. TypeInv'
  BY <1>1 DEF TypeInv
<1>3. HandInv'
  BY DEF TypeInv, HandInv
<1>4. \A q \in Outreaches \ {job[p]} : sentAt'[q] = sentAt[q]
  BY DEF TypeInv
<1>5. ClearInv'
  <2>1. sentAt'[job[p]] = now /\ step'[p] = "record"
    BY <1>1 DEF TypeInv
  <2>2. \A r \in Senders \ {p} :
          step'[r] = step[r] /\ (step[r] = "record" => job[r] \in Outreaches \ {job[p]})
    BY <1>1 DEF TypeInv, HandInv
  <2>3. \A q \in counted : q \in Outreaches \ {job[p]}
    BY <1>1 DEF TypeInv
  <2>4. QED
    BY <1>4, <2>1, <2>2, <2>3 DEF ClearInv
<1>6. CooldownKept'
  BY <1>1, <1>4 DEF TypeInv, CooldownKept
<1>7. QED
  BY <1>2, <1>3, <1>5, <1>6

\* Counting adds one message, which its sender kept at a distance.
LEMMA RecordKeeps ==
  ASSUME IInv, NEW p \in Senders, Record(p)
  PROVE  IInv'
<1> USE DEF IInv, Record, Idle
<1>1. job[p] \in Outreaches \ counted /\ owner[job[p]] = p
  BY DEF HandInv
<1>2. TypeInv'
  BY <1>1 DEF TypeInv
<1>3. /\ step'[p] = "idle"
      /\ \A r \in Senders \ {p} :
           /\ step'[r] = step[r] /\ job'[r] = job[r]
           /\ step[r] # "idle" => job[r] # job[p]
  BY DEF TypeInv, HandInv
<1>4. HandInv'
  BY <1>1, <1>3, LimitsAssumption DEF TypeInv, HandInv
<1>5. ClearInv'
  BY <1>1, <1>3 DEF ClearInv
<1>6. CooldownKept'
  BY <1>1 DEF ClearInv, CooldownKept
<1>7. QED
  BY <1>2, <1>4, <1>5, <1>6

\* An uncounted message is no longer in anybody's hand.
LEMMA RecordFailsKeeps ==
  ASSUME IInv, NEW p \in Senders, RecordFails(p)
  PROVE  IInv'
<1> USE DEF IInv, RecordFails, Idle
<1>1. TypeInv' /\ HandInv' /\ CooldownKept'
  BY DEF TypeInv, HandInv, CooldownKept
<1>2. ClearInv'
  BY DEF TypeInv, ClearInv
<1>3. QED
  BY <1>1, <1>2

\* A refused check touches nothing the invariant speaks of.
LEMMA OthersKeep ==
  ASSUME IInv, UNCHANGED <<now, owner, sentAt, counted, step, job>>
  PROVE  IInv'
BY DEF IInv, TypeInv, HandInv, ClearInv, CooldownKept

LEMMA StepIInv == IInv /\ [Next]_vars => IInv'
<1> SUFFICES ASSUME IInv, [Next]_vars PROVE IInv'
  OBVIOUS
<1>1. CASE Tick
  BY <1>1, TickKeeps
<1>2. ASSUME NEW p \in Senders, NEW o \in Outreaches, CheckPasses(p, o) PROVE IInv'
  BY <1>2, CheckKeeps
<1>3. ASSUME NEW p \in Senders, NEW o \in Outreaches, CheckRefuses(p, o) PROVE IInv'
  BY <1>3, OthersKeep DEF CheckRefuses
<1>4. ASSUME NEW p \in Senders, Send(p) PROVE IInv'
  BY <1>4, SendKeeps
<1>5. ASSUME NEW p \in Senders, Record(p) PROVE IInv'
  BY <1>5, RecordKeeps
<1>6. ASSUME NEW p \in Senders, RecordFails(p) PROVE IInv'
  BY <1>6, RecordFailsKeeps
<1>7. CASE UNCHANGED vars
  BY <1>7, OthersKeep DEF vars
<1> QED
  BY <1>1, <1>2, <1>3, <1>4, <1>5, <1>6, <1>7 DEF Next

LEMMA AlwaysIInv == Spec => []IInv
  BY InitIInv, StepIInv, PTL DEF Spec

\* Two counted messages of one sender to the same recipient are a cooldown apart,
\* however long Telegram takes to answer, whatever other senders do and whatever is
\* not counted: SendMessageUseCase's check of the last message to the recipient.
THEOREM CooldownHolds == Spec => []CooldownKept
<1>1. IInv => CooldownKept
  BY DEF IInv
<1> QED
  BY <1>1, AlwaysIInv, PTL

--------------------------------------------------------------------------------
LEMMA TypeNext == IInv /\ TypeOK /\ [Next]_vars => TypeOK'
<1> SUFFICES ASSUME IInv, TypeOK, [Next]_vars PROVE TypeOK'
  OBVIOUS
<1> USE LimitsAssumption DEF TypeOK
<1>0. Start \in Nat /\ Start .. Start + Horizon \subseteq Times
  BY DEF Start, Times
<1>1. CASE Tick
  BY <1>0, <1>1 DEF Tick
<1>2. ASSUME NEW p \in Senders, NEW o \in Outreaches, CheckPasses(p, o) \/ CheckRefuses(p, o)
      PROVE  TypeOK'
  BY <1>2 DEF CheckPasses, CheckRefuses
<1>3. ASSUME NEW p \in Senders, Send(p) PROVE TypeOK'
  <2>1. sentAt' \in [Outreaches -> Times]
    BY <1>0, <1>3 DEF Send
  <2> QED
    BY <1>3, <2>1 DEF Send
<1>4. ASSUME NEW p \in Senders, Record(p) \/ RecordFails(p) PROVE TypeOK'
  <2>1. job[p] \in Outreaches /\ owner[job[p]] # Nobody
    BY <1>4 DEF IInv, HandInv, Record, RecordFails
  <2> QED
    BY <1>4, <2>1 DEF Record, RecordFails, Idle
<1>5. CASE UNCHANGED vars
  BY <1>5 DEF vars
<1> QED
  BY <1>1, <1>2, <1>3, <1>4, <1>5 DEF Next

\* The variables keep their types: what is counted was claimed, what was sent was sent
\* within the clock's reach, and a sender never forgets its outreach.
THEOREM TypeCorrect == Spec => []TypeOK
<1>1. Init => TypeOK
  BY LimitsAssumption DEF Init, TypeOK, Start, Times
<1> QED
  BY <1>1, AlwaysIInv, TypeNext, PTL DEF Spec

--------------------------------------------------------------------------------
(***************************************************************************)
(* Overshoot.  A check counts what is counted.  What it does not see is in *)
(* some sender's hand, of which there are no more than senders, or was     *)
(* lost, of which there are no more than faults.                           *)
(***************************************************************************)
Finite == IsFiniteSet(Outreaches) /\ IsFiniteSet(Senders) /\ Senders # {}

Checked == {job[p] : p \in {q \in Senders : step[q] = "send"}}
InHand  == {job[p] : p \in {q \in Senders : step[q] # "idle"}}
Lost    == Sent \ (counted \union InHand)
Recent  == {o \in Sent : now - Hour <= sentAt[o]}
Slack   == Cardinality(Senders) - 1 + faults

\* What was checked counts as sent: it may go out at any time.
BoundInv ==
  /\ \A o \in Outreaches : sentAt[o] <= now
  /\ Cardinality(Lost) <= faults
  /\ (\E p \in Senders : step[p] # "idle") => DailyLimit >= 1 /\ HourlyLimit >= 1
  /\ Cardinality(SentOn(DayOf(now)) \union Checked) <= DailyLimit + Slack
  /\ Cardinality(Recent \union Checked) <= HourlyLimit + Slack
  /\ \A d \in Nat : Cardinality(SentOn(d)) <= DailyLimit + Slack
  /\ \A o \in Sent : Cardinality(SentWithin(sentAt[o])) <= HourlyLimit + Slack

\* Days begin at multiples of Day.
LEMMA DayStarts ==
  ASSUME NEW t \in Nat
  PROVE  /\ DayOf(t) \in Nat /\ DayOf(t) <= t /\ t < DayOf(t) + Day
         /\ \E q \in Nat : DayOf(t) = Day * q
<1>1. t % Day \in 0 .. Day - 1
  BY LimitsAssumption
<1>2. t = Day * (t \div Day) + (t % Day) /\ t \div Day \in Nat
  BY LimitsAssumption
<1>3. PICK q \in Nat, r \in 0 .. Day - 1, d \in Int : d = Day * q /\ t = d + r /\ DayOf(t) = t - r
  <2>1. PICK q \in Nat : q = t \div Day
    BY <1>2
  <2>2. PICK r \in 0 .. Day - 1 : r = t % Day
    BY <1>1
  <2>3. Day * q \in Int
    BY <2>1, LimitsAssumption
  <2>4. t = Day * q + r
    BY <1>2, <2>1, <2>2
  <2>5. DayOf(t) = t - r
    BY <2>2 DEF DayOf
  <2> QED
    BY <2>3, <2>4, <2>5
<1>4. d \in Nat
  BY <1>3, LimitsAssumption
<1>5. DayOf(t) = d /\ d <= t /\ t < d + Day
  BY <1>3, <1>4, LimitsAssumption
<1> QED
  BY <1>3, <1>4, <1>5

LEMMA DaysGrow ==
  ASSUME NEW t \in Nat, NEW u \in Nat, t <= u
  PROVE  DayOf(t) <= DayOf(u)
<1>1. PICK a \in Nat : DayOf(t) = Day * a
  BY DayStarts
<1>2. PICK b \in Nat : DayOf(u) = Day * b
  BY DayStarts
<1>3. SUFFICES ASSUME b < a PROVE FALSE
  BY <1>1, <1>2, LimitsAssumption
<1>4. Day * b + Day <= Day * a
  <2>1. b + 1 <= a
    BY <1>3
  <2> QED
    BY <2>1, LimitsAssumption
<1>5. u < Day * b + Day /\ Day * a <= t
  BY <1>1, <1>2, DayStarts
<1> QED
  BY <1>1, <1>2, <1>4, <1>5, LimitsAssumption

\* Sets of outreaches are finite, and the larger set has the larger cardinality.
LEMMA Sizes ==
  ASSUME Finite
  PROVE  /\ \A S \in SUBSET Outreaches : IsFiniteSet(S) /\ Cardinality(S) \in Nat
         /\ \A T \in SUBSET Outreaches : \A S \in SUBSET T : Cardinality(S) <= Cardinality(T)
         /\ Cardinality(Senders) \in Nat \ {0}
<1>1. \A S \in SUBSET Outreaches : IsFiniteSet(S)
  BY FS_Subset DEF Finite
<1>2. \A S \in SUBSET Outreaches : Cardinality(S) \in Nat
  BY <1>1, FS_CardinalityType
<1>3. ASSUME NEW T \in SUBSET Outreaches, NEW S \in SUBSET T
      PROVE  Cardinality(S) <= Cardinality(T)
  BY <1>1, FS_Subset
<1>4. Cardinality(Senders) \in Nat \ {0}
  BY FS_CardinalityType, FS_EmptySet DEF Finite
<1> QED
  BY <1>1, <1>2, <1>3, <1>4

\* No more outreaches are in hand than there are senders.
LEMMA HandsAreFew ==
  ASSUME Finite, NEW W \in SUBSET Senders, NEW f
  PROVE  Cardinality({f[p] : p \in W}) <= Cardinality(Senders)
<1> DEFINE T == {f[p] : p \in W}
<1> DEFINE g == [p \in W |-> f[p]]
<1>1. IsFiniteSet(W) /\ Cardinality(W) <= Cardinality(Senders)
  BY FS_Subset DEF Finite
<1>2. g \in Surjection(W, T)
  BY DEF Surjection
<1>3. IsFiniteSet(T) /\ Cardinality(T) <= Cardinality(W)
  BY <1>1, <1>2, FS_Surjection
<1>4. Cardinality(T) \in Nat /\ Cardinality(W) \in Nat /\ Cardinality(Senders) \in Nat
  BY <1>1, <1>3, FS_CardinalityType DEF Finite
<1> QED
  BY <1>1, <1>3, <1>4

\* What is in a set that three others cover.
LEMMA Covered ==
  ASSUME Finite, NEW A \in SUBSET Outreaches, NEW B \in SUBSET Outreaches,
         NEW C \in SUBSET Outreaches, NEW S \in SUBSET (A \union B \union C)
  PROVE  Cardinality(S) <= Cardinality(A) + Cardinality(B) + Cardinality(C)
<1>1. \A X \in SUBSET Outreaches, Y \in SUBSET Outreaches :
        Cardinality(X \union Y) <= Cardinality(X) + Cardinality(Y)
  <2> SUFFICES ASSUME NEW X \in SUBSET Outreaches, NEW Y \in SUBSET Outreaches
               PROVE  Cardinality(X \union Y) <= Cardinality(X) + Cardinality(Y)
    OBVIOUS
  <2>1. Cardinality(X \union Y) = Cardinality(X) + Cardinality(Y) - Cardinality(X \cap Y)
    BY Sizes, FS_Union
  <2>2. Cardinality(X \cap Y) \in Nat /\ Cardinality(X) \in Nat /\ Cardinality(Y) \in Nat
    BY Sizes
  <2> QED
    BY <2>1, <2>2
<1>2. Cardinality(S) <= Cardinality((A \union B) \union C)
  BY Sizes
<1>3. Cardinality((A \union B) \union C) <= Cardinality(A \union B) + Cardinality(C)
  BY <1>1
<1>4. Cardinality(A \union B) <= Cardinality(A) + Cardinality(B)
  BY <1>1
<1>5. /\ Cardinality(S) \in Nat /\ Cardinality((A \union B) \union C) \in Nat
      /\ Cardinality(A \union B) \in Nat /\ Cardinality(A) \in Nat
      /\ Cardinality(B) \in Nat /\ Cardinality(C) \in Nat
  BY Sizes
<1> QED
  BY <1>2, <1>3, <1>4, <1>5

\* All sets the invariant speaks of are sets of outreaches.
LEMMA Subsets ==
  ASSUME IInv
  PROVE  /\ Checked \subseteq InHand /\ InHand \subseteq Outreaches
         /\ Sent \subseteq Outreaches /\ Lost \subseteq Outreaches /\ Recent \subseteq Outreaches
         /\ \A d : SentOn(d) \subseteq Outreaches /\ SentWithin(d) \subseteq Outreaches
BY DEF IInv, HandInv, Checked, InHand, Sent, Lost, Recent, SentOn, SentWithin

LEMMA InitBound == Finite /\ Init => BoundInv
<1> SUFFICES ASSUME Finite, Init PROVE BoundInv
  OBVIOUS
<1>1. Sent = {} /\ Checked = {} /\ now \in Nat
  BY LimitsAssumption DEF Init, Sent, Checked, Start
<1>2. /\ Lost = {} /\ Recent = {} /\ \A d : SentOn(d) = {}
  BY <1>1 DEF Lost, Recent, SentOn
<1>3. Cardinality({}) = 0 /\ {} \union {} = {}
  BY FS_EmptySet
<1>4. Cardinality(Senders) \in Nat \ {0}
  BY Sizes
<1>5. Slack \in Nat /\ 0 <= DailyLimit + Slack /\ 0 <= HourlyLimit + Slack
  BY <1>4, LimitsAssumption DEF Init, Slack
<1>6. \A o \in Outreaches : sentAt[o] <= now
  BY <1>1 DEF Init, Never
<1>7. /\ \A p \in Senders : step[p] = "idle"
      /\ Cardinality(Lost) <= faults
  BY <1>2, <1>3 DEF Init
<1> QED
  BY <1>1, <1>2, <1>3, <1>5, <1>6, <1>7 DEF BoundInv

\* Steps that send nothing and check nothing.
LEMMA QuietBound ==
  ASSUME Finite, IInv, IInv', BoundInv, UNCHANGED <<now, sentAt>>,
         faults \in Nat, faults' \in Nat, faults <= faults',
         Checked' \subseteq Checked, Cardinality(Lost)' <= faults',
         (\E p \in Senders : step'[p] # "idle") => \E p \in Senders : step[p] # "idle"
  PROVE  BoundInv'
<1>1. Recent' = Recent /\ Sent' = Sent /\ DayOf(now)' = DayOf(now)
      /\ \A d : SentOn(d)' = SentOn(d) /\ SentWithin(d)' = SentWithin(d)
  BY DEF Recent, Sent, SentOn, SentWithin, DayOf
<1>2. Slack \in Nat /\ Slack' \in Nat /\ Slack <= Slack'
  BY Sizes DEF Slack
<1>3. /\ Cardinality(SentOn(DayOf(now)) \union Checked)' <= Cardinality(SentOn(DayOf(now)) \union Checked)
      /\ Cardinality(SentOn(DayOf(now)) \union Checked)' \in Nat
      /\ Cardinality(SentOn(DayOf(now)) \union Checked) \in Nat
  <2> DEFINE S == SentOn(DayOf(now)) \union Checked'
  <2> DEFINE T == SentOn(DayOf(now)) \union Checked
  <2>1. T \in SUBSET Outreaches /\ S \in SUBSET T
    BY Subsets
  <2>2. (SentOn(DayOf(now)) \union Checked)' = S
    BY DEF SentOn, Sent, DayOf
  <2> HIDE DEF S, T
  <2>3. Cardinality(S) <= Cardinality(T) /\ Cardinality(S) \in Nat /\ Cardinality(T) \in Nat
    BY <2>1, Sizes
  <2> QED
    BY <2>2, <2>3 DEF T
<1>4. /\ Cardinality(Recent \union Checked)' <= Cardinality(Recent \union Checked)
      /\ Cardinality(Recent \union Checked)' \in Nat
      /\ Cardinality(Recent \union Checked) \in Nat
  <2>1. (Recent \union Checked)' \in SUBSET (Recent \union Checked)
    BY <1>1
  <2> QED
    BY <2>1, Subsets, Sizes
<1>5. \A d : Cardinality(SentOn(d)) \in Nat /\ Cardinality(SentWithin(d)) \in Nat
  BY Subsets, Sizes
<1>6. /\ Cardinality(SentOn(DayOf(now)) \union Checked)' <= DailyLimit + Slack'
      /\ Cardinality(Recent \union Checked)' <= HourlyLimit + Slack'
  BY <1>2, <1>3, <1>4, LimitsAssumption DEF BoundInv
<1>7. \A d \in Nat : Cardinality(SentOn(d))' <= DailyLimit + Slack'
  <2> SUFFICES ASSUME NEW d \in Nat PROVE Cardinality(SentOn(d))' <= DailyLimit + Slack'
    OBVIOUS
  <2>1. Cardinality(SentOn(d))' = Cardinality(SentOn(d))
    BY <1>1
  <2> QED
    BY <1>2, <1>5, <2>1, LimitsAssumption DEF BoundInv
<1>8. \A o \in Sent' : Cardinality(SentWithin(sentAt[o]))' <= HourlyLimit + Slack'
  <2> SUFFICES ASSUME NEW o \in Sent PROVE Cardinality(SentWithin(sentAt[o]))' <= HourlyLimit + Slack'
    BY <1>1
  <2>1. Cardinality(SentWithin(sentAt[o]))' = Cardinality(SentWithin(sentAt[o]))
    BY DEF SentWithin, Sent
  <2> QED
    BY <1>2, <1>5, <2>1, LimitsAssumption DEF BoundInv
<1>9. /\ \A o \in Outreaches : sentAt'[o] <= now'
      /\ (\E p \in Senders : step'[p] # "idle") => DailyLimit >= 1 /\ HourlyLimit >= 1
  BY DEF BoundInv
<1> QED
  BY <1>6, <1>7, <1>8, <1>9 DEF BoundInv

\* Midnight: nothing was sent today, and less is in hand than there are senders.
LEMMA TickBound ==
  ASSUME Finite, IInv, IInv', BoundInv, faults \in Nat, Tick
  PROVE  BoundInv'
<1>1. /\ now \in Nat /\ now' = now + 1 /\ sentAt \in [Outreaches -> Nat]
      /\ UNCHANGED <<sentAt, counted, step, job, faults>>
  BY DEF Tick, IInv, TypeInv
<1>2. /\ Checked' = Checked /\ Lost' = Lost /\ Slack' = Slack /\ Sent' = Sent
      /\ \A d : SentOn(d)' = SentOn(d) /\ SentWithin(d)' = SentWithin(d)
  BY <1>1 DEF Checked, Lost, InHand, Slack, Sent, SentOn, SentWithin, DayOf
<1>3. Slack \in Nat /\ Cardinality(Senders) <= Slack + 1
  BY Sizes DEF Slack
<1>4. Cardinality(SentOn(DayOf(now)) \union Checked)' <= DailyLimit + Slack
  <2>1. CASE DayOf(now') = DayOf(now)
    <3>1. (SentOn(DayOf(now)) \union Checked)' = SentOn(DayOf(now)) \union Checked
      BY <1>1, <1>2, <2>1 DEF SentOn, Sent, DayOf
    <3> QED
      BY <3>1 DEF BoundInv
  <2>2. CASE DayOf(now') # DayOf(now)
    <3>1. \A o \in Sent : DayOf(sentAt[o]) # DayOf(now')
      <4> SUFFICES ASSUME NEW o \in Sent, DayOf(sentAt[o]) = DayOf(now') PROVE FALSE
        OBVIOUS
      <4>1. sentAt[o] \in Nat /\ sentAt[o] <= now /\ now <= now' /\ now' \in Nat
        BY <1>1 DEF Sent, BoundInv
      <4>2. DayOf(sentAt[o]) <= DayOf(now) /\ DayOf(now) <= DayOf(now')
        BY <1>1, <4>1, DaysGrow
      <4>3. DayOf(now) \in Nat /\ DayOf(now') \in Nat
        BY <1>1, <4>1, DayStarts
      <4> QED
        BY <2>2, <4>2, <4>3
    <3>2. (SentOn(DayOf(now)) \union Checked)' = Checked
      BY <1>1, <1>2, <3>1 DEF SentOn, Sent, DayOf
    <3>3. Cardinality(Checked) <= Cardinality(Senders) /\ Cardinality(Checked) \in Nat
      BY HandsAreFew, Subsets, Sizes DEF Checked
    <3>4. CASE \E p \in Senders : step[p] # "idle"
      <4>1. DailyLimit >= 1 /\ Cardinality(Senders) \in Nat
        BY <3>4, Sizes DEF BoundInv
      <4>2. Cardinality(Checked) <= DailyLimit + Slack
        BY <1>3, <3>3, <4>1, LimitsAssumption
      <4> QED
        BY <3>2, <4>2
    <3>5. CASE ~ \E p \in Senders : step[p] # "idle"
      <4>1. Checked = {}
        BY <3>5 DEF Checked
      <4> QED
        BY <1>3, <3>2, <4>1, FS_EmptySet, LimitsAssumption
    <3> QED
      BY <3>4, <3>5
  <2> QED
    BY <2>1, <2>2
<1>5. Cardinality(Recent \union Checked)' <= HourlyLimit + Slack
  <2>1. (Recent \union Checked)' \in SUBSET (Recent \union Checked)
    BY <1>1, <1>2, LimitsAssumption DEF Recent, Sent
  <2>2. /\ Cardinality(Recent \union Checked)' <= Cardinality(Recent \union Checked)
        /\ Cardinality(Recent \union Checked)' \in Nat /\ Cardinality(Recent \union Checked) \in Nat
    BY <2>1, Subsets, Sizes
  <2> QED
    BY <1>3, <2>2, LimitsAssumption DEF BoundInv
<1>6. \A o \in Sent' : Cardinality(SentWithin(sentAt[o]))' <= HourlyLimit + Slack
  <2>1. \A o \in Sent : SentWithin(sentAt[o])' = SentWithin(sentAt[o])
    BY <1>1 DEF SentWithin, Sent
  <2> QED
    BY <1>2, <2>1 DEF BoundInv
<1>7. \A d \in Nat : Cardinality(SentOn(d))' <= DailyLimit + Slack
  BY <1>2 DEF BoundInv
<1>8. \A o \in Outreaches : sentAt'[o] <= now'
  BY <1>1 DEF BoundInv
<1>9. Cardinality(Lost)' <= faults' /\ ((\E p \in Senders : step'[p] # "idle") => DailyLimit >= 1 /\ HourlyLimit >= 1)
  BY <1>1, <1>2 DEF BoundInv
<1> QED
  BY <1>2, <1>4, <1>5, <1>6, <1>7, <1>8, <1>9 DEF BoundInv

\* A check that passes: all that was sent in the window is counted, in hand or lost.
LEMMA CheckBound ==
  ASSUME Finite, IInv, IInv', BoundInv, faults \in Nat,
         NEW p \in Senders, NEW o \in Outreaches, CheckPasses(p, o)
  PROVE  BoundInv'
<1>1. /\ now \in Nat /\ sentAt \in [Outreaches -> Nat] /\ counted \subseteq Outreaches
      /\ UNCHANGED <<now, sentAt, counted, faults>>
      /\ step' = [step EXCEPT ![p] = "send"] /\ job' = [job EXCEPT ![p] = o] /\ step[p] = "idle"
  BY DEF CheckPasses, IInv, TypeInv
<1>2. \A q \in Senders \ {p} : step'[q] = step[q] /\ job'[q] = job[q]
  BY <1>1 DEF IInv, TypeInv
<1>3. /\ Sent' = Sent /\ Recent' = Recent /\ Slack' = Slack /\ InHand \subseteq InHand'
      /\ \A d : SentOn(d)' = SentOn(d)
  BY <1>1, <1>2 DEF Sent, Recent, Slack, SentOn, DayOf, InHand
<1>4. Lost' \subseteq Lost
  BY <1>1, <1>3 DEF Lost
<1>5. Cardinality(Lost') <= faults /\ Cardinality(Lost') \in Nat
  BY <1>4, Subsets, Sizes DEF BoundInv
<1>6. /\ Checked' \subseteq InHand' /\ InHand' \in SUBSET Outreaches /\ Lost' \in SUBSET Outreaches
      /\ SentOn(DayOf(now)) \in SUBSET Outreaches
  <2>1. Checked' \subseteq InHand' /\ InHand' \in SUBSET Outreaches
    BY DEF IInv, HandInv, Checked, InHand
  <2> QED
    BY <1>4, <2>1, Subsets
<1>7. Cardinality(InHand') <= Cardinality(Senders) /\ Cardinality(InHand') \in Nat
  <2>1. InHand' = {job'[q] : q \in {r \in Senders : step'[r] # "idle"}}
    BY DEF InHand
  <2>2. Cardinality({job'[q] : q \in {r \in Senders : step'[r] # "idle"}}) <= Cardinality(Senders)
    <3>1. {r \in Senders : step'[r] # "idle"} \in SUBSET Senders
      OBVIOUS
    <3> QED
      BY <3>1, HandsAreFew
  <2> QED
    BY <1>6, <2>1, <2>2, Sizes
<1> DEFINE Counted(start) == {q \in counted : start <= sentAt[q] /\ sentAt[q] < DayOf(now) + Day}
<1>8. /\ Counted(DayOf(now)) \in SUBSET Outreaches /\ Counted(now - Hour) \in SUBSET Outreaches
      /\ Cardinality(Counted(DayOf(now))) < DailyLimit
      /\ Cardinality(Counted(now - Hour)) < HourlyLimit
  BY <1>1 DEF CheckPasses, Room, CountFrom
<1>9. /\ Cardinality(Counted(DayOf(now))) \in Nat /\ Cardinality(Counted(now - Hour)) \in Nat
      /\ Cardinality(Senders) \in Nat \ {0}
  BY <1>8, Sizes
<1>10. \A q \in Sent : sentAt[q] \in Nat /\ sentAt[q] <= now /\ sentAt[q] < DayOf(now) + Day
                      /\ DayOf(sentAt[q]) <= sentAt[q]
  <2>1. now < DayOf(now) + Day /\ DayOf(now) \in Nat
    BY <1>1, DayStarts
  <2> SUFFICES ASSUME NEW q \in Sent
               PROVE  sentAt[q] \in Nat /\ sentAt[q] <= now /\ sentAt[q] < DayOf(now) + Day
                      /\ DayOf(sentAt[q]) <= sentAt[q]
    OBVIOUS
  <2>2. sentAt[q] \in Nat /\ sentAt[q] <= now
    BY <1>1 DEF Sent, BoundInv
  <2>3. DayOf(sentAt[q]) <= sentAt[q]
    BY <2>2, DayStarts
  <2> QED
    BY <1>1, <2>1, <2>2, <2>3, LimitsAssumption
<1>11. Cardinality(SentOn(DayOf(now)) \union Checked') <= DailyLimit + Slack
  <2>1. SentOn(DayOf(now)) \union Checked' \in SUBSET (Counted(DayOf(now)) \union InHand' \union Lost')
    BY <1>1, <1>3, <1>6, <1>10 DEF SentOn, Lost
  <2>2. Cardinality(SentOn(DayOf(now)) \union Checked')
          <= Cardinality(Counted(DayOf(now))) + Cardinality(InHand') + Cardinality(Lost')
    BY <1>6, <1>8, <2>1, Covered
  <2>3. Cardinality(SentOn(DayOf(now)) \union Checked') \in Nat
    BY <1>6, Sizes
  <2> HIDE DEF Counted
  <2> QED
    BY <1>5, <1>7, <1>8, <1>9, <2>2, <2>3, LimitsAssumption DEF Slack
<1>12. Cardinality(Recent \union Checked') <= HourlyLimit + Slack
  <2>1. Recent \union Checked' \in SUBSET (Counted(now - Hour) \union InHand' \union Lost')
    BY <1>1, <1>3, <1>6, <1>10 DEF Recent, Lost
  <2>2. Cardinality(Recent \union Checked')
          <= Cardinality(Counted(now - Hour)) + Cardinality(InHand') + Cardinality(Lost')
    BY <1>6, <1>8, <2>1, Covered
  <2>3. Cardinality(Recent \union Checked') \in Nat
    BY <1>6, Subsets, Sizes
  <2> HIDE DEF Counted
  <2> QED
    BY <1>5, <1>7, <1>8, <1>9, <2>2, <2>3, LimitsAssumption DEF Slack
<1>13. DailyLimit >= 1 /\ HourlyLimit >= 1
  <2> HIDE DEF Counted
  <2> QED
    BY <1>8, <1>9, LimitsAssumption
<1>14. /\ (SentOn(DayOf(now)) \union Checked)' = SentOn(DayOf(now)) \union Checked'
       /\ (Recent \union Checked)' = Recent \union Checked'
       /\ \A q \in Sent : SentWithin(sentAt[q])' = SentWithin(sentAt[q])
  BY <1>1, <1>3 DEF SentOn, Sent, DayOf, SentWithin
<1>15. \A q \in Sent' : Cardinality(SentWithin(sentAt[q]))' <= HourlyLimit + Slack
  BY <1>3, <1>14 DEF BoundInv
<1>16. \A d \in Nat : Cardinality(SentOn(d))' <= DailyLimit + Slack
  BY <1>3 DEF BoundInv
<1> QED
  BY <1>1, <1>3, <1>5, <1>11, <1>12, <1>13, <1>14, <1>15, <1>16 DEF BoundInv

\* A checked outreach becomes a sent one, now.
LEMMA SendBound ==
  ASSUME Finite, IInv, IInv', BoundInv, faults \in Nat, NEW p \in Senders, Send(p)
  PROVE  BoundInv'
<1>1. /\ now \in Nat /\ sentAt \in [Outreaches -> Nat]
      /\ UNCHANGED <<now, counted, job, faults>> /\ step[p] = "send" /\ job[p] \in Outreaches
      /\ sentAt' = [sentAt EXCEPT ![job[p]] = now] /\ step' = [step EXCEPT ![p] = "record"]
  BY DEF Send, IInv, TypeInv, HandInv
<1>2. /\ sentAt'[job[p]] = now /\ \A q \in Outreaches \ {job[p]} : sentAt'[q] = sentAt[q]
      /\ step'[p] = "record" /\ \A q \in Senders \ {p} : step'[q] = step[q]
  BY <1>1 DEF IInv, TypeInv
<1>3. Slack' = Slack /\ Checked' \subseteq Checked /\ job[p] \in Checked /\ InHand' = InHand
  BY <1>1, <1>2 DEF Slack, Checked, InHand
<1>4. Sent' \subseteq Sent \union {job[p]} /\ job[p] \in InHand
  BY <1>1, <1>2 DEF Sent, InHand
<1>5. Lost' \subseteq Lost
  BY <1>1, <1>3, <1>4 DEF Lost
<1>6. Cardinality(Lost)' <= faults'
  <2>1. Cardinality(Lost') <= Cardinality(Lost) /\ Cardinality(Lost') \in Nat /\ Cardinality(Lost) \in Nat
    BY <1>5, Subsets, Sizes
  <2> QED
    BY <1>1, <2>1 DEF BoundInv
<1>7. Slack \in Nat
  BY Sizes DEF Slack
<1> DEFINE Today == SentOn(DayOf(now)) \union Checked
<1> DEFINE Hours == Recent \union Checked
<1>8. /\ Today \in SUBSET Outreaches /\ Hours \in SUBSET Outreaches
      /\ Cardinality(Today) <= DailyLimit + Slack /\ Cardinality(Hours) <= HourlyLimit + Slack
      /\ Cardinality(Today) \in Nat /\ Cardinality(Hours) \in Nat
  BY Subsets, Sizes DEF BoundInv
<1>9. Today' \subseteq Today /\ Hours' \subseteq Hours
  BY <1>1, <1>2, <1>3, <1>4 DEF SentOn, Sent, DayOf, Recent
<1>10. \A S \in SUBSET Today : Cardinality(S) <= DailyLimit + Slack
  <2> HIDE DEF Today
  <2> QED
    BY <1>7, <1>8, Sizes, LimitsAssumption
<1>11. \A S \in SUBSET Hours : Cardinality(S) <= HourlyLimit + Slack
  <2> HIDE DEF Hours
  <2> QED
    BY <1>7, <1>8, Sizes, LimitsAssumption
<1>12. \A d \in Nat : Cardinality(SentOn(d))' <= DailyLimit + Slack
  <2> SUFFICES ASSUME NEW d \in Nat PROVE Cardinality(SentOn(d)') <= DailyLimit + Slack
    OBVIOUS
  <2>1. CASE d = DayOf(now)
    <3>1. SentOn(d)' \in SUBSET Today
      BY <1>1, <1>2, <1>3, <1>4, <2>1 DEF SentOn, Sent, DayOf
    <3> QED
      BY <1>10, <3>1
  <2>2. CASE d # DayOf(now)
    <3>1. SentOn(d)' \in SUBSET SentOn(d)
      BY <1>1, <1>2, <1>4, <2>2 DEF SentOn, Sent, DayOf
    <3>2. Cardinality(SentOn(d)') <= Cardinality(SentOn(d)) /\ Cardinality(SentOn(d)') \in Nat
          /\ Cardinality(SentOn(d)) \in Nat
      BY <3>1, Subsets, Sizes
    <3> QED
      BY <1>7, <3>2, LimitsAssumption DEF BoundInv
  <2> QED
    BY <2>1, <2>2
<1>13. \A q \in Sent' : Cardinality(SentWithin(sentAt[q]))' <= HourlyLimit + Slack
  <2> SUFFICES ASSUME NEW q \in Sent' PROVE Cardinality(SentWithin(sentAt[q])') <= HourlyLimit + Slack
    OBVIOUS
  <2>1. q \in Outreaches /\ sentAt'[q] \in Nat /\ sentAt'[q] <= now
    BY <1>1, <1>2 DEF Sent, BoundInv
  <2>2. CASE sentAt'[q] = now
    <3>1. SentWithin(sentAt[q])' \in SUBSET Hours
      BY <1>1, <1>2, <1>3, <1>4, <2>2 DEF SentWithin, Sent, Recent
    <3> QED
      BY <1>11, <3>1
  <2>3. CASE sentAt'[q] < now
    <3>1. q \in Sent /\ sentAt'[q] = sentAt[q]
      BY <1>2, <1>4, <2>1, <2>3 DEF Sent
    <3>2. SentWithin(sentAt[q])' \in SUBSET SentWithin(sentAt[q])
      BY <1>1, <1>2, <1>4, <2>1, <2>3, <3>1 DEF SentWithin, Sent
    <3>3. /\ Cardinality(SentWithin(sentAt[q])') <= Cardinality(SentWithin(sentAt[q]))
          /\ Cardinality(SentWithin(sentAt[q])') \in Nat /\ Cardinality(SentWithin(sentAt[q])) \in Nat
      BY <3>2, Subsets, Sizes
    <3> QED
      BY <1>7, <3>1, <3>3, LimitsAssumption DEF BoundInv
  <2> QED
    BY <1>1, <2>1, <2>2, <2>3
<1>14. /\ Cardinality(SentOn(DayOf(now)) \union Checked)' <= DailyLimit + Slack
       /\ Cardinality(Recent \union Checked)' <= HourlyLimit + Slack
  BY <1>9, <1>10, <1>11
<1>15. \A q \in Outreaches : sentAt'[q] <= now'
  BY <1>1, <1>2 DEF BoundInv
<1>16. (\E q \in Senders : step'[q] # "idle") => DailyLimit >= 1 /\ HourlyLimit >= 1
  BY <1>1 DEF BoundInv
<1> QED
  BY <1>3, <1>6, <1>12, <1>13, <1>14, <1>15, <1>16 DEF BoundInv

\* A sender lays its outreach down: it is counted, or one more is lost.
LEMMA RecordBound ==
  ASSUME Finite, IInv, IInv', BoundInv, faults \in Nat, NEW p \in Senders,
         Record(p) \/ RecordFails(p)
  PROVE  BoundInv'
<1>1. /\ UNCHANGED <<now, sentAt>> /\ step[p] = "record" /\ job[p] \in Outreaches
      /\ step' = [step EXCEPT ![p] = "idle"]
      /\ \A q \in Senders \ {p} : step'[q] = step[q] /\ job'[q] = job[q]
  BY DEF Record, RecordFails, Idle, IInv, TypeInv, HandInv
<1>2. step'[p] = "idle" /\ Checked' \subseteq Checked /\ InHand \subseteq InHand' \union {job[p]}
  BY <1>1 DEF IInv, TypeInv, Checked, InHand
<1>3. faults' \in Nat /\ faults <= faults' /\ Cardinality(Lost)' <= faults'
  <2>1. CASE Record(p)
    <3>1. Lost' \subseteq Lost /\ faults' = faults
      BY <1>1, <1>2, <2>1 DEF Record, Lost, Sent
    <3>2. Cardinality(Lost') <= Cardinality(Lost) /\ Cardinality(Lost') \in Nat /\ Cardinality(Lost) \in Nat
      BY <3>1, Subsets, Sizes
    <3> QED
      BY <3>1, <3>2 DEF BoundInv
  <2>2. CASE RecordFails(p)
    <3>1. Lost' \subseteq Lost \union {job[p]} /\ faults' = faults + 1
      BY <1>1, <1>2, <2>2 DEF RecordFails, Lost, Sent
    <3>2. IsFiniteSet(Lost) /\ Lost \union {job[p]} \in SUBSET Outreaches
      BY <1>1, Subsets, Sizes
    <3>3. /\ Cardinality(Lost \union {job[p]}) <= Cardinality(Lost) + 1
          /\ Cardinality(Lost) \in Nat /\ Cardinality(Lost \union {job[p]}) \in Nat
      <4>1. Cardinality(Lost) \in Nat
        BY <3>2, FS_CardinalityType
      <4>2. Cardinality(Lost \union {job[p]}) \in {Cardinality(Lost), Cardinality(Lost) + 1}
        BY <3>2, FS_AddElement
      <4> QED
        BY <4>1, <4>2
    <3>4. Cardinality(Lost') <= Cardinality(Lost \union {job[p]}) /\ Cardinality(Lost') \in Nat
      BY <3>1, <3>2, Sizes
    <3> QED
      BY <3>1, <3>3, <3>4 DEF BoundInv
  <2> QED
    BY <2>1, <2>2
<1>4. (\E q \in Senders : step'[q] # "idle") => \E q \in Senders : step[q] # "idle"
  BY <1>1
<1> QED
  BY <1>1, <1>2, <1>3, <1>4, QuietBound

LEMMA StepBound == Finite /\ IInv /\ TypeOK /\ BoundInv /\ [Next]_vars => BoundInv'
<1> SUFFICES ASSUME Finite, IInv, TypeOK, BoundInv, [Next]_vars PROVE BoundInv'
  OBVIOUS
<1>1. IInv' /\ faults \in Nat
  BY StepIInv, LimitsAssumption DEF TypeOK
<1>2. ASSUME UNCHANGED <<now, sentAt, counted, step, job, faults>> PROVE BoundInv'
  <2>1. Checked' = Checked /\ Lost' = Lost
    BY <1>2 DEF Checked, Lost, Sent, InHand
  <2>2. faults <= faults' /\ faults' \in Nat /\ Cardinality(Lost)' <= faults'
    BY <1>1, <1>2, <2>1 DEF BoundInv
  <2> QED
    BY <1>1, <1>2, <2>1, <2>2, QuietBound
<1>3. CASE UNCHANGED vars
  BY <1>2, <1>3 DEF vars
<1>4. CASE Next
  BY <1>1, <1>2, <1>4, TickBound, CheckBound, SendBound, RecordBound DEF Next, CheckRefuses
<1> QED
  BY <1>3, <1>4

\* DAILY_MESSAGE_LIMIT and GLOBAL_HOURLY_LIMIT are exceeded by no more than the messages
\* the other senders had checked and those that were delivered and not counted, for
\* finitely many senders and outreaches, at least one sender among them.
THEOREM OvershootIsBounded == Finite /\ Spec => []OvershootBounded
<1>1. Finite /\ Init => Finite /\ BoundInv
  BY InitBound
<1>2. IInv /\ TypeOK /\ (Finite /\ BoundInv) /\ [Next]_vars => (Finite /\ BoundInv)'
  BY StepBound DEF Finite
<1>3. IInv /\ Finite /\ BoundInv => OvershootBounded
  <2> SUFFICES ASSUME IInv, Finite, BoundInv, NEW o \in Sent
               PROVE  /\ Cardinality(SentOn(DayOf(sentAt[o]))) <= DailyLimit + Slack
                      /\ Cardinality(SentWithin(sentAt[o])) <= HourlyLimit + Slack
    BY DEF OvershootBounded, Slack
  <2>1. DayOf(sentAt[o]) \in Nat
    BY DayStarts DEF IInv, TypeInv, Sent
  <2> QED
    BY <2>1 DEF BoundInv
<1> QED
  BY <1>1, <1>2, <1>3, AlwaysIInv, TypeCorrect, PTL DEF Spec

===============================================================================
