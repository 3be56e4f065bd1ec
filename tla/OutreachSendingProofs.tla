------------------------- MODULE OutreachSendingProofs -------------------------
(***************************************************************************)
(* Theorems about OutreachSending for every set of outreaches, processes   *)
(* and calls, every deployment and every bound.                            *)
(***************************************************************************)
EXTENDS OutreachSending, TLAPS

\* TypeOK is not inductive: a step that reads a row needs a worker that stands
\* anywhere but at "idle" to have a task in hand.
Employed == \A p \in Processes : pc[p] # "idle" => job[p] \in Outreaches

TypeInv == TypeOK /\ Employed

LEMMA TypeInit == Init => TypeInv
  BY RowsAssumption, EnvironmentAssumption
     DEF Init, TypeInv, TypeOK, Employed, OutreachStatus, LeadStatus, Steps, Nothing

LEMMA TypeNext == TypeInv /\ [Next]_vars => TypeInv'
  <1> SUFFICES ASSUME TypeInv, [Next]_vars PROVE TypeInv'
    OBVIOUS
  <1> USE RowsAssumption, DeploymentAssumption, EnvironmentAssumption
  <1> USE DEF TypeInv, TypeOK, Employed, vars, db, worker, memory, past, env
  <1>1. ASSUME NEW c \in Calls, NEW o \in Outreaches, NEW p \in Desks,
               ApproveRead(c, o, p) \/ RejectRead(c, o, p)
        PROVE  TypeInv'
    <2>1. \A s \in {"approve", "reject"} :
            [step |-> s, o |-> o, at |-> p, found |-> status[o]] \in CallInProgress
      BY DEF CallInProgress
    <2>2. call' \in [Calls -> {NoCall} \union CallInProgress]
      BY <1>1, <2>1 DEF ApproveRead, RejectRead, Found
    <2> QED BY <1>1, <2>2 DEF ApproveRead, RejectRead
  <1>2. ASSUME NEW c \in Calls, CallStep(c) PROVE TypeInv'
    <2>1. call[c].step # "idle" => call[c] \in CallInProgress
      BY DEF NoCall
    <2>2. ASSUME ApproveCommit(c) PROVE TypeInv'
      <3>1. call[c] \in CallInProgress
        BY <2>1, <2>2 DEF ApproveCommit
      <3>2. call' = [call EXCEPT ![c] = [@ EXCEPT !.step = "enqueue"]]
        BY <2>2 DEF ApproveCommit
      <3>3. [call[c] EXCEPT !.step = "enqueue"] \in CallInProgress
        BY <3>1 DEF CallInProgress
      <3>4. call' \in [Calls -> {NoCall} \union CallInProgress]
        BY <3>2, <3>3
      <3>5. call[c].o \in Outreaches
        BY <3>1 DEF CallInProgress
      <3> QED BY <2>2, <3>4, <3>5 DEF ApproveCommit, Decided, OutreachStatus, LeadStatus
    <2>3. CASE ApproveEnqueue(c)
      BY <2>3 DEF ApproveEnqueue, CallInProgress, NoCall
    <2>4. CASE RejectCommit(c)
      BY <2>4 DEF RejectCommit, Decided, CallInProgress, NoCall, OutreachStatus
    <2> QED BY <1>2, <2>2, <2>3, <2>4 DEF CallStep
  <1>3. ASSUME NEW c \in Calls, CallFails(c) PROVE TypeInv'
    BY <1>3 DEF CallFails
  <1>4. ASSUME NEW p \in Senders, Take(p) PROVE TypeInv'
    BY <1>4 DEF Take, Steps
  <1>5. ASSUME NEW p \in Senders, Load(p) PROVE TypeInv'
    <2>1. CASE LoadSent(p)
      BY <2>1 DEF LoadSent, Done, Nothing, Steps, LeadStatus
    <2>2. CASE LoadUnapproved(p)
      BY <2>2 DEF LoadUnapproved, GoTo, Steps
    <2>3. CASE LoadApproved(p)
      BY <2>3 DEF LoadApproved, Steps, LeadStatus
    <2> QED BY <1>5, <2>1, <2>2, <2>3 DEF Load
  <1>6. ASSUME NEW p \in Senders, Claim(p) PROVE TypeInv'
    <2>1. CASE Reconcile(p)
      BY <2>1 DEF Reconcile, Done, Nothing, Steps, LeadStatus, OutreachStatus
    <2>2. CASE ClaimOptedOut(p) \/ ClaimLimited(p) \/ ClaimBusy(p)
      BY <2>2 DEF ClaimOptedOut, ClaimLimited, ClaimBusy, GoTo, Steps
    <2>3. CASE ClaimKey(p)
      BY <2>3 DEF ClaimKey, GoTo, Steps, IdempotencyState
    <2> QED BY <1>6, <2>1, <2>2, <2>3 DEF Claim
  <1>7. ASSUME NEW p \in Senders, NEW answer \in TelegramOutcomes, Send(p, answer)
        PROVE  TypeInv'
    <2>1. After(answer) \in Steps \ {"idle"}
      BY DEF After, Steps
    <2>2. delivered' \in [Outreaches -> Nat]
      BY <1>7 DEF Send
    <2> QED BY <1>7, <2>1, <2>2 DEF Send, GoTo
  <1>8. ASSUME NEW p \in Senders,
               FloodRequeue(p) \/ FloodLog(p) \/ MarkFailed(p)
        PROVE  TypeInv'
    <2>1. CASE FloodRequeue(p)
      BY <2>1 DEF FloodRequeue, GoTo, Steps
    <2>2. CASE FloodLog(p)
      BY <2>2 DEF FloodLog, Done, Nothing, Steps, LeadStatus
    <2>3. CASE MarkFailed(p)
      BY <2>3 DEF MarkFailed, Done, Nothing, Steps, LeadStatus, OutreachStatus
    <2> QED BY <1>8, <2>1, <2>2, <2>3
  <1>9. ASSUME NEW p \in Senders, Record(p) PROVE TypeInv'
    <2>1. CASE CanMoveLead(seen[p].lead, "outreach_sent")
      <3>1. /\ status' = [status EXCEPT ![job[p]] = "sent"]
            /\ key' = [key EXCEPT ![job[p]] = "completed"]
            /\ conv' = [conv EXCEPT ![job[p]] = "waiting_reply"]
            /\ lead' = [lead EXCEPT ![job[p]] = "outreach_sent"]
            /\ Done(p)
            /\ UNCHANGED <<optedOut, dlq, delivered, memory, past, env>>
        BY <1>9, <2>1 DEF Record
      <3>2. /\ status' \in [Outreaches -> OutreachStatus]
            /\ lead' \in [Outreaches -> LeadStatus]
        BY <3>1 DEF LeadStatus, OutreachStatus
      <3>3. /\ key' \in [Outreaches -> {"absent"} \union IdempotencyState]
            /\ conv' \in [Outreaches -> {"none"} \union ConversationStatus]
        BY <3>1 DEF ConversationStatus, IdempotencyState
      <3>4. TypeOK'
        BY <3>1, <3>2, <3>3 DEF Done, Nothing, Steps, LeadStatus
      <3> QED BY <3>1, <3>4 DEF Done
    <2>2. CASE ~ CanMoveLead(seen[p].lead, "outreach_sent")
      BY <1>9, <2>2 DEF Record, GoTo, Steps
    <2> QED BY <2>1, <2>2
  <1>10. ASSUME NEW p \in Senders, Retry(p) PROVE TypeInv'
    BY <1>10 DEF Retry, Nothing, Steps, LeadStatus
  <1>11. ASSUME NEW p \in Senders, DeadLetter(p) PROVE TypeInv'
    BY <1>11 DEF DeadLetter, Done, Nothing, Steps, LeadStatus
  <1>12. ASSUME NEW p \in Senders, TransactionFails(p) \/ DeadLetterFails(p)
         PROVE  TypeInv'
    <2>1. CASE TransactionFails(p)
      BY <2>1 DEF TransactionFails, GoTo, Steps
    <2>2. CASE DeadLetterFails(p)
      BY <2>2 DEF DeadLetterFails, Done, Nothing, Steps, LeadStatus
    <2> QED BY <1>12, <2>1, <2>2
  <1>13. ASSUME NEW p \in Senders, NEW o \in Outreaches,
                StrayTask(p, o) \/ DelayedDue(p, o)
         PROVE  TypeInv'
    <2>1. CASE StrayTask(p, o)
      BY <2>1 DEF StrayTask
    <2>2. CASE DelayedDue(p, o)
      BY <2>2 DEF DelayedDue
    <2> QED BY <1>13, <2>1, <2>2
  <1>14. ASSUME NEW p \in Analyzers, AnalyzerTakes(p) PROVE TypeInv'
    BY <1>14 DEF AnalyzerTakes
  <1>15. ASSUME NEW o \in Outreaches, NEW intent \in Intents, Reply(o, intent)
         PROVE  TypeInv'
    BY <1>15 DEF Reply, OutreachStatus, ConversationStatus
  <1>16. ASSUME NEW p \in Processes, Crash(p) PROVE TypeInv'
    <2>1. call' \in [Calls -> {NoCall} \union CallInProgress]
      BY <1>16 DEF Crash
    <2>2. queue' \in [Processes -> Seq(Outreaches)]
      BY <1>16 DEF Crash
    <2>3. crashes' \in 0 .. MaxCrashes
      BY <1>16 DEF Crash
    <2> QED BY <1>16, <2>1, <2>2, <2>3 DEF Crash, Done, Nothing, Steps, LeadStatus
  <1>17. CASE UNCHANGED vars
    BY <1>17
  <1> QED
    BY <1>1, <1>2, <1>3, <1>4, <1>5, <1>6, <1>7, <1>8, <1>9, <1>10, <1>11,
       <1>12, <1>13, <1>14, <1>15, <1>16, <1>17
       DEF Next, SenderStep

\* Every variable keeps its type in every reachable state: no row, key, queue or
\* worker record ever leaves the domain the code's enums and dataclasses give it.
THEOREM TypeCorrect == Spec => []TypeOK
  <1>1. Spec => []TypeInv
    BY TypeInit, TypeNext, PTL DEF Spec
  <1>2. TypeInv => TypeOK
    BY DEF TypeInv
  <1> QED BY <1>1, <1>2, PTL

--------------------------------------------------------------------------------
(***************************************************************************)
(* The inductive invariant.  The key is the pivot: it is absent before any *)
(* delivery, PENDING while a holder may deliver, and stays there when the  *)
(* holder fails or dies; only the holder that delivered completes it, with *)
(* the status, the lead and the conversation in the same transaction.      *)
(***************************************************************************)

\* The states a key is in, and what it says of the deliveries.
KeyInv ==
  \A o \in Outreaches :
    /\ key[o] \in {"absent", "pending", "completed"}
    /\ key[o] = "absent" => delivered[o] = 0
    /\ key[o] = "completed" => delivered[o] = 1 /\ conv[o] # "none"
    /\ conv[o] # "none" => key[o] = "completed"
    /\ status[o] \in {"sent", "replied", "closed"} => key[o] = "completed"
    /\ delivered[o] \in {0, 1}

\* An approval is behind every APPROVED row, every attempt that passed the
\* gate and every delivery.
ApprovalInv ==
  /\ \A o \in Outreaches :
       /\ status[o] = "approved" => o \in approved
       /\ delivered[o] > 0 => o \in approved
  /\ \A p \in Processes :
       pc[p] \in {"claim", "send", "flood", "logflood", "record", "markfail"}
         => job[p] \in approved

\* An APPROVED row has an approved lead, also as the worker saw it.
LeadInv ==
  /\ \A o \in Outreaches :
       status[o] = "approved" => lead[o] = "outreach_approved"
  /\ \A p \in Processes :
       pc[p] \in {"claim", "send", "record"} => seen[p].lead = "outreach_approved"

IInv == TypeInv /\ KeyInv /\ SoleClaimant /\ ApprovalInv /\ LeadInv

LEMMA SafetyInit == Init => IInv
  <1> SUFFICES ASSUME Init PROVE IInv
    OBVIOUS
  <1>1. TypeInv
    BY TypeInit
  <1>2. KeyInv
    BY DEF Init, KeyInv
  <1>3. SoleClaimant /\ ApprovalInv /\ LeadInv
    BY DeploymentAssumption DEF Init, SoleClaimant, Holds, ApprovalInv, LeadInv
  <1> QED BY <1>1, <1>2, <1>3 DEF IInv

Safety == KeyInv /\ SoleClaimant /\ ApprovalInv /\ LeadInv

\* Where a worker holds no claim and has passed no gate.
Outside == {"idle", "load", "failed", "refused"}

\* A step that touches no row the invariant speaks of, and leaves each worker as
\* it is or puts it outside, preserves it.
LEMMA QuietStep ==
  ASSUME IInv,
         UNCHANGED <<status, lead, key, conv, delivered, approved>>,
         \A p \in Processes :
           \/ pc'[p] = pc[p] /\ job'[p] = job[p] /\ seen'[p] = seen[p]
           \/ pc'[p] \in Outside
  PROVE  Safety'
  <1>1. KeyInv'
    BY DEF IInv, KeyInv
  <1>2. SoleClaimant'
    BY DeploymentAssumption DEF IInv, SoleClaimant, Holds, Outside
  <1>3. ApprovalInv' /\ LeadInv'
    BY DEF IInv, ApprovalInv, LeadInv, Outside
  <1> QED BY <1>1, <1>2, <1>3 DEF Safety

LEMMA SafetyNext == IInv /\ [Next]_vars => Safety'
  <1> SUFFICES ASSUME IInv, [Next]_vars PROVE Safety'
    OBVIOUS
  <1> USE RowsAssumption, DeploymentAssumption, EnvironmentAssumption
  <1> USE DEF IInv, TypeInv, TypeOK, Employed, vars, db, worker, memory, past, env
  <1>1. ASSUME NEW c \in Calls, NEW o \in Outreaches, NEW p \in Desks,
               ApproveRead(c, o, p) \/ RejectRead(c, o, p)
        PROVE  Safety'
    BY <1>1, QuietStep DEF ApproveRead, RejectRead
  <1>2. ASSUME NEW c \in Calls, CallStep(c) PROVE Safety'
    <2>1. call[c].step # "idle" => call[c].o \in Outreaches
      BY DEF NoCall, CallInProgress
    <2>2. ASSUME ApproveCommit(c) PROVE Safety'
      <3>1. KeyInv'
        BY <2>1, <2>2 DEF ApproveCommit, KeyInv
      <3>2. SoleClaimant'
        BY <2>2 DEF ApproveCommit, SoleClaimant, Holds
      <3>3. ApprovalInv' /\ LeadInv'
        BY <2>1, <2>2 DEF ApproveCommit, ApprovalInv, LeadInv
      <3> QED BY <3>1, <3>2, <3>3 DEF Safety
    <2>3. CASE ApproveEnqueue(c)
      BY <2>3, QuietStep DEF ApproveEnqueue
    <2>4. ASSUME RejectCommit(c) PROVE Safety'
      <3>1. KeyInv'
        BY <2>1, <2>4 DEF RejectCommit, KeyInv
      <3>2. SoleClaimant'
        BY <2>4 DEF RejectCommit, SoleClaimant, Holds
      <3>3. ApprovalInv' /\ LeadInv'
        BY <2>1, <2>4 DEF RejectCommit, ApprovalInv, LeadInv
      <3> QED BY <3>1, <3>2, <3>3 DEF Safety
    <2> QED BY <1>2, <2>2, <2>3, <2>4 DEF CallStep
  <1>3. ASSUME NEW c \in Calls, CallFails(c) PROVE Safety'
    BY <1>3, QuietStep DEF CallFails
  <1>4. ASSUME NEW p \in Senders, Take(p) PROVE Safety'
    BY <1>4, QuietStep DEF Take, Outside
  <1>5. ASSUME NEW p \in Senders, Load(p) PROVE Safety'
    <2>1. CASE LoadSent(p) \/ LoadUnapproved(p)
      BY <2>1, QuietStep DEF LoadSent, LoadUnapproved, GoTo, Done, Outside
    <2>2. ASSUME LoadApproved(p) PROVE Safety'
      <3>1. KeyInv'
        BY <2>2 DEF LoadApproved, KeyInv
      <3>2. SoleClaimant'
        BY <2>2 DEF LoadApproved, SoleClaimant, Holds
      <3>3. ApprovalInv' /\ LeadInv'
        BY <2>2 DEF LoadApproved, ApprovalInv, LeadInv
      <3> QED BY <3>1, <3>2, <3>3 DEF Safety
    <2> QED BY <1>5, <2>1, <2>2 DEF Load
  <1>6. ASSUME NEW p \in Senders, Claim(p) PROVE Safety'
    <2>1. ASSUME Reconcile(p) PROVE Safety'
      <3>1. KeyInv'
        BY <2>1 DEF Reconcile, KeyInv
      <3>2. SoleClaimant'
        BY <2>1 DEF Reconcile, Done, SoleClaimant, Holds
      <3>3. ApprovalInv' /\ LeadInv'
        BY <2>1 DEF Reconcile, Done, ApprovalInv, LeadInv
      <3> QED BY <3>1, <3>2, <3>3 DEF Safety
    <2>2. CASE ClaimOptedOut(p) \/ ClaimLimited(p) \/ ClaimBusy(p)
      BY <2>2, QuietStep DEF ClaimOptedOut, ClaimLimited, ClaimBusy, GoTo, Outside
    <2>3. ASSUME ClaimKey(p) PROVE Safety'
      <3>1. KeyInv'
        BY <2>3 DEF ClaimKey, KeyInv
      <3>2. SoleClaimant'
        <4>1. /\ job[p] \in Outreaches /\ key[job[p]] = "absent"
              /\ delivered[job[p]] = 0 /\ ~ seen[p].optedOut
          BY <2>3 DEF ClaimKey, KeyInv
        <4>2. \A r \in Senders : ~ Holds(r, job[p])
          BY <4>1 DEF SoleClaimant
        <4>3. \A r \in Senders, o \in Outreaches :
                Holds(r, o)' <=> Holds(r, o) \/ (r = p /\ o = job[p])
          BY <2>3 DEF ClaimKey, GoTo, Holds
        <4>4. /\ key' = [key EXCEPT ![job[p]] = "pending"]
              /\ pc' = [pc EXCEPT ![p] = "send"]
              /\ UNCHANGED <<delivered, seen>>
          BY <2>3 DEF ClaimKey, GoTo
        <4>5. \A r \in Senders, o \in Outreaches : Holds(r, o) => r # p
          BY <2>3 DEF ClaimKey, Holds
        <4> QED BY <4>1, <4>2, <4>3, <4>4, <4>5 DEF SoleClaimant
      <3>3. ApprovalInv' /\ LeadInv'
        BY <2>3 DEF ClaimKey, GoTo, ApprovalInv, LeadInv
      <3> QED BY <3>1, <3>2, <3>3 DEF Safety
    <2> QED BY <1>6, <2>1, <2>2, <2>3 DEF Claim
  <1>7. ASSUME NEW p \in Senders, NEW answer \in TelegramOutcomes, Send(p, answer)
        PROVE  Safety'
    <2>0. job[p] \in Outreaches /\ Holds(p, job[p])
      BY <1>7 DEF Send, Holds
    <2>1. /\ job[p] \in Outreaches
          /\ Holds(p, job[p])
          /\ key[job[p]] = "pending" /\ delivered[job[p]] = 0
      BY <1>7, <2>0 DEF Send, SoleClaimant, KeyInv
    <2>2. /\ After(answer) \in {"record", "failed", "flood", "markfail"}
          /\ After(answer) = "record" => answer \in {"ok", "lost"}
          /\ answer \in {"ok", "lost"} => After(answer) \in {"record", "failed"}
      BY DEF After
    <2>3. KeyInv'
      BY <1>7, <2>1 DEF Send, KeyInv
    <2>4. SoleClaimant'
      BY <1>7, <2>1, <2>2 DEF Send, GoTo, SoleClaimant, Holds
    <2>5. ApprovalInv' /\ LeadInv'
      BY <1>7, <2>1, <2>2 DEF Send, GoTo, ApprovalInv, LeadInv
    <2> QED BY <2>3, <2>4, <2>5 DEF Safety
  <1>8. ASSUME NEW p \in Senders,
               FloodRequeue(p) \/ FloodLog(p) \/ MarkFailed(p)
        PROVE  Safety'
    <2>1. ASSUME FloodRequeue(p) PROVE Safety'
      <3>1. KeyInv'
        BY <2>1 DEF FloodRequeue, KeyInv
      <3>2. SoleClaimant'
        <4>1. /\ pc[p] = "flood"
              /\ pc' = [pc EXCEPT ![p] = "logflood"]
              /\ UNCHANGED <<key, delivered, job, seen>>
          BY <2>1 DEF FloodRequeue, GoTo
        <4>2. \A r \in Senders, o \in Outreaches : Holds(r, o)' <=> Holds(r, o)
          BY <4>1 DEF Holds
        <4> QED BY <4>1, <4>2 DEF SoleClaimant
      <3>3. ApprovalInv' /\ LeadInv'
        BY <2>1 DEF FloodRequeue, GoTo, ApprovalInv, LeadInv
      <3> QED BY <3>1, <3>2, <3>3 DEF Safety
    <2>2. CASE FloodLog(p)
      BY <2>2, QuietStep DEF FloodLog, Done, Outside
    <2>3. ASSUME MarkFailed(p) PROVE Safety'
      <3>1. KeyInv'
        BY <2>3 DEF MarkFailed, KeyInv
      <3>2. SoleClaimant'
        BY <2>3 DEF MarkFailed, Done, SoleClaimant, Holds
      <3>3. ApprovalInv' /\ LeadInv'
        BY <2>3 DEF MarkFailed, Done, ApprovalInv, LeadInv
      <3> QED BY <3>1, <3>2, <3>3 DEF Safety
    <2> QED BY <1>8, <2>1, <2>2, <2>3
  <1>9. ASSUME NEW p \in Senders, Record(p) PROVE Safety'
    <2>1. /\ job[p] \in Outreaches
          /\ Holds(p, job[p])
          /\ key[job[p]] = "pending" /\ delivered[job[p]] = 1
          /\ job[p] \in approved
          /\ \A q \in Senders : Holds(q, job[p]) => q = p
      BY <1>9 DEF Record, Holds, SoleClaimant, ApprovalInv
    <2>2. CASE CanMoveLead(seen[p].lead, "outreach_sent")
      <3>1. /\ status' = [status EXCEPT ![job[p]] = "sent"]
            /\ key' = [key EXCEPT ![job[p]] = "completed"]
            /\ conv' = [conv EXCEPT ![job[p]] = "waiting_reply"]
            /\ lead' = [lead EXCEPT ![job[p]] = "outreach_sent"]
            /\ Done(p)
            /\ UNCHANGED <<delivered, past>>
        BY <1>9, <2>2 DEF Record
      <3>2. KeyInv'
        BY <2>1, <3>1 DEF KeyInv
      <3>3. SoleClaimant'
        BY <2>1, <3>1 DEF Done, SoleClaimant, Holds
      <3>4. ApprovalInv' /\ LeadInv'
        BY <2>1, <3>1 DEF Done, ApprovalInv, LeadInv
      <3> QED BY <3>2, <3>3, <3>4 DEF Safety
    <2>3. CASE ~ CanMoveLead(seen[p].lead, "outreach_sent")
      BY <1>9, <2>3, QuietStep DEF Record, GoTo, Outside
    <2> QED BY <2>2, <2>3
  <1>10. ASSUME NEW p \in Senders, Retry(p) PROVE Safety'
    BY <1>10, QuietStep DEF Retry, Outside
  <1>11. ASSUME NEW p \in Senders,
                \/ DeadLetter(p) \/ TransactionFails(p) \/ DeadLetterFails(p)
         PROVE  Safety'
    BY <1>11, QuietStep
       DEF DeadLetter, TransactionFails, DeadLetterFails, GoTo, Done, Outside
  <1>12. ASSUME NEW p \in Senders, NEW o \in Outreaches,
                StrayTask(p, o) \/ DelayedDue(p, o)
         PROVE  Safety'
    BY <1>12, QuietStep DEF StrayTask, DelayedDue
  <1>13. ASSUME NEW p \in Analyzers, AnalyzerTakes(p) PROVE Safety'
    BY <1>13, QuietStep DEF AnalyzerTakes
  <1>14. ASSUME NEW o \in Outreaches, NEW intent \in Intents, Reply(o, intent)
         PROVE  Safety'
    <2>1. /\ key[o] = "completed"
          /\ status' = [status EXCEPT ![o] = status'[o]]
          /\ status'[o] \in {"replied", "closed"}
          /\ conv' = [conv EXCEPT ![o] = status'[o]]
          /\ UNCHANGED <<lead, key, delivered, worker, past>>
      BY <1>14 DEF Reply, KeyInv
    <2>2. KeyInv'
      BY <2>1 DEF KeyInv
    <2>3. SoleClaimant'
      BY <2>1 DEF SoleClaimant, Holds
    <2>4. ApprovalInv' /\ LeadInv'
      BY <2>1 DEF ApprovalInv, LeadInv
    <2> QED BY <2>2, <2>3, <2>4 DEF Safety
  <1>15. ASSUME NEW p \in Processes, Crash(p) PROVE Safety'
    BY <1>15, QuietStep DEF Crash, Done, Outside
  <1>16. CASE UNCHANGED vars
    BY <1>16, QuietStep
  <1> QED
    BY <1>1, <1>2, <1>3, <1>4, <1>5, <1>6, <1>7, <1>8, <1>9, <1>10, <1>11,
       <1>12, <1>13, <1>14, <1>15, <1>16
       DEF Next, SenderStep

LEMMA Invariance == Spec => []IInv
  <1>1. IInv /\ [Next]_vars => IInv'
    BY TypeNext, SafetyNext DEF IInv, Safety
  <1> QED BY SafetyInit, <1>1, PTL DEF Spec

\* No outreach is delivered twice, whatever the number of workers, duplicate tasks,
\* retries, failures and crashes.
THEOREM AtMostOnce == Spec => []AtMostOneDelivery
  <1>1. IInv => AtMostOneDelivery
    BY DEF IInv, KeyInv, AtMostOneDelivery
  <1> QED BY Invariance, <1>1, PTL

\* Nothing goes out without a committed approval, whoever enqueues send tasks.
THEOREM OnlyApproved == Spec => []ApprovedBeforeDelivery
  <1>1. IInv => ApprovedBeforeDelivery
    BY DEF IInv, ApprovalInv, ApprovedBeforeDelivery
  <1> QED BY Invariance, <1>1, PTL

\* Statuses, keys and conversations that say a message went out are right.
THEOREM SentIsNeverALie == Spec => []SentIsTrue
  <1>1. IInv => SentIsTrue
    BY DEF IInv, KeyInv, SentIsTrue
  <1> QED BY Invariance, <1>1, PTL

\* The claim is exclusive for as long as its holder may still act on it.
THEOREM ClaimIsExclusive == Spec => []SoleClaimant
  <1>1. IInv => SoleClaimant
    BY DEF IInv
  <1> QED BY Invariance, <1>1, PTL

\* The success transaction never raises InvalidStateTransition.
THEOREM DeliveryIsRecordable == Spec => []RecordNeverRaises
  <1>1. CanMoveLead("outreach_approved", "outreach_sent")
    BY DEF CanMoveLead, LeadTable
  <1>2. IInv => RecordNeverRaises
    BY <1>1, DeploymentAssumption DEF IInv, LeadInv, RecordNeverRaises
  <1> QED BY Invariance, <1>2, PTL

--------------------------------------------------------------------------------
(***************************************************************************)
(* Every step of the system is a step of the promise, or changes neither   *)
(* its claims nor its deliveries.                                          *)
(***************************************************************************)

LEMMA PromiseInit == Init => Promise!Init
  BY DEF Init, Promise!Init

LEMMA PromiseNext == IInv /\ [Next]_vars => [Promise!Next]_<<key, delivered>>
  <1> SUFFICES ASSUME IInv, [Next]_vars, ~ UNCHANGED <<key, delivered>>
               PROVE  Promise!Next
    OBVIOUS
  <1> USE DEF db, worker, memory, past, env
  <1>1. ASSUME NEW p \in Senders, ClaimKey(p) PROVE Promise!Next
    <2>1. job[p] \in Outreaches
      BY <1>1, DeploymentAssumption DEF ClaimKey, IInv, TypeInv, Employed
    <2>2. Promise!Claim(job[p])
      BY <1>1 DEF ClaimKey, Promise!Claim
    <2> QED BY <2>1, <2>2 DEF Promise!Next
  <1>2. ASSUME NEW p \in Senders, NEW answer \in TelegramOutcomes, Send(p, answer)
        PROVE  Promise!Next
    <2>1. job[p] \in Outreaches /\ Holds(p, job[p])
      BY <1>2, DeploymentAssumption DEF Send, Holds, IInv, TypeInv, Employed
    <2>2. key[job[p]] = "pending" /\ delivered[job[p]] = 0
      BY <1>2, <2>1 DEF Send, IInv, SoleClaimant, KeyInv
    <2>3. Promise!GoOut(job[p])
      BY <1>2, <2>1, <2>2 DEF Send, Promise!GoOut
    <2> QED BY <2>1, <2>3 DEF Promise!Next
  <1>3. ASSUME NEW p \in Senders, Record(p) PROVE Promise!Next
    <2>1. job[p] \in Outreaches /\ Holds(p, job[p])
      BY <1>3, DeploymentAssumption DEF Record, Holds, IInv, TypeInv, Employed
    <2>2. key[job[p]] = "pending" /\ delivered[job[p]] = 1
      BY <1>3, <2>1 DEF Record, IInv, SoleClaimant, KeyInv
    <2>3. Promise!Confirm(job[p])
      BY <1>3, <2>2 DEF Record, Promise!Confirm
    <2> QED BY <2>1, <2>3 DEF Promise!Next
  <1>4. ASSUME NEW p \in Senders,
               \/ Take(p) \/ Load(p) \/ FloodRequeue(p) \/ FloodLog(p)
               \/ MarkFailed(p) \/ Retry(p) \/ DeadLetter(p)
               \/ TransactionFails(p) \/ DeadLetterFails(p)
        PROVE  Promise!Next
    BY <1>4 DEF Take, Load, LoadSent, LoadUnapproved, LoadApproved, FloodRequeue,
                FloodLog, MarkFailed, Retry, DeadLetter, TransactionFails,
                DeadLetterFails
  <1>5. ASSUME NEW p \in Senders, Claim(p) PROVE Promise!Next
    BY <1>1, <1>5 DEF Claim, Reconcile, ClaimOptedOut, ClaimLimited, ClaimBusy
  <1>6. ASSUME NEW c \in Calls, NEW o \in Outreaches, NEW p \in Desks,
               ApproveRead(c, o, p) \/ RejectRead(c, o, p)
        PROVE  Promise!Next
    BY <1>6 DEF ApproveRead, RejectRead
  <1>7. ASSUME NEW c \in Calls, CallStep(c) \/ CallFails(c) PROVE Promise!Next
    BY <1>7 DEF CallStep, ApproveCommit, ApproveEnqueue, RejectCommit, CallFails
  <1>8. ASSUME NEW p \in Senders, NEW o \in Outreaches,
               StrayTask(p, o) \/ DelayedDue(p, o)
        PROVE  Promise!Next
    BY <1>8 DEF StrayTask, DelayedDue
  <1>9. ASSUME NEW p \in Analyzers, AnalyzerTakes(p) PROVE Promise!Next
    BY <1>9 DEF AnalyzerTakes
  <1>10. ASSUME NEW o \in Outreaches, NEW intent \in Intents, Reply(o, intent)
         PROVE  Promise!Next
    BY <1>10 DEF Reply
  <1>11. ASSUME NEW p \in Processes, Crash(p) PROVE Promise!Next
    BY <1>11 DEF Crash
  <1>12. CASE UNCHANGED vars
    BY <1>12 DEF vars
  <1> QED
    BY <1>2, <1>3, <1>4, <1>5, <1>6, <1>7, <1>8, <1>9, <1>10, <1>11, <1>12
       DEF Next, SenderStep

\* The system implements the abstract promise: a claim is never given back, a
\* message goes out at most once and only under its claim, and is confirmed only
\* after it went out.
THEOREM KeepsPromise == Spec => PromiseKept
  <1>1. Spec => []IInv
    BY Invariance
  <1> QED BY PromiseInit, PromiseNext, <1>1, PTL DEF Spec, PromiseKept, Promise!Spec

--------------------------------------------------------------------------------
(***************************************************************************)
(* Every step of the system is a step of Consent, or changes neither the   *)
(* opt-outs, nor what is in hand, nor the deliveries.  A reply that is no  *)
(* opt-out leaves the opt-outs alone; a delivery is counted up to one,     *)
(* because a claim is behind it.                                           *)
(***************************************************************************)

LEMMA ConsentInit == Init => Willing!Init
  BY DEF Init, Willing!Init, InHand

\* A worker that takes nothing in hand and sends nothing keeps what it has or lets it go.
LEMMA HandsOff ==
  ASSUME IInv, NEW p \in Processes, UNCHANGED <<optedOut, delivered>>,
         \A q \in Processes \ {p} : InHand'[q] = InHand[q],
         InHand'[p] \in {InHand[p], NoOutreach}
  PROVE  [Willing!Next]_<<optedOut, InHand, delivered>>
  <1>0. InHand = [q \in Processes |-> InHand[q]] /\ InHand' = [q \in Processes |-> InHand'[q]]
    BY DEF InHand
  <1>1. CASE InHand'[p] = InHand[p]
    BY <1>0, <1>1
  <1>2. CASE InHand'[p] # InHand[p]
    <2>1. InHand[p] # NoOutreach /\ InHand' = [InHand EXCEPT ![p] = NoOutreach]
      BY <1>0, <1>2
    <2> QED BY <2>1 DEF Willing!Next, Willing!LetGo
  <1> QED BY <1>1, <1>2

LEMMA ConsentNext == IInv /\ [Next]_vars => [Willing!Next]_<<optedOut, InHand, delivered>>
  <1> SUFFICES ASSUME IInv, [Next]_vars
               PROVE  [Willing!Next]_<<optedOut, InHand, delivered>>
    OBVIOUS
  <1>0. /\ pc \in [Processes -> Steps] /\ job \in [Processes -> Outreaches \union {NoOutreach}]
        /\ seen \in [Processes -> [lead : LeadStatus, optedOut : BOOLEAN]]
        /\ optedOut \in [Contacts -> BOOLEAN] /\ Senders \subseteq Processes
    BY DeploymentAssumption DEF IInv, TypeInv, TypeOK
  <1> USE DEF db, worker, memory, past, env
  <1>1. ASSUME NEW p \in Senders, LoadApproved(p) PROVE [Willing!Next]_<<optedOut, InHand, delivered>>
    <2>1. /\ job[p] \in Outreaches /\ InHand[p] = NoOutreach
          /\ UNCHANGED <<optedOut, delivered>>
      BY <1>0, <1>1 DEF LoadApproved, InHand, IInv, TypeInv, Employed
    <2>2. CASE optedOut[ContactOf[job[p]]]
      <3>1. InHand' = InHand
        BY <1>0, <1>1, <2>2 DEF LoadApproved, InHand
      <3> QED BY <2>1, <3>1
    <2>3. CASE ~ optedOut[ContactOf[job[p]]]
      <3>1. InHand' = [InHand EXCEPT ![p] = job[p]]
        BY <1>0, <1>1, <2>3 DEF LoadApproved, InHand
      <3> QED BY <1>0, <2>1, <2>3, <3>1 DEF Willing!Next, Willing!TakeInHand
    <2> QED BY <2>2, <2>3
  <1>2. ASSUME NEW p \in Senders, NEW answer \in TelegramOutcomes, Send(p, answer)
        PROVE  [Willing!Next]_<<optedOut, InHand, delivered>>
    <2>1. job[p] \in Outreaches /\ Holds(p, job[p])
      BY <1>0, <1>2 DEF Send, Holds, IInv, TypeInv, Employed
    <2>2. delivered[job[p]] = 0 /\ ~ seen[p].optedOut
      BY <1>2, <2>1 DEF Send, IInv, SoleClaimant, KeyInv
    <2>3. After(answer) \notin {"claim", "send"}
      BY DEF After
    <2>4. InHand[p] = job[p] /\ InHand' = [InHand EXCEPT ![p] = NoOutreach]
      BY <1>0, <1>2, <2>2, <2>3 DEF Send, GoTo, InHand
    <2>5. CASE answer \in {"ok", "lost"}
      <3>1. delivered' = [delivered EXCEPT ![job[p]] = 1] /\ UNCHANGED optedOut
        BY <1>2, <2>2, <2>5 DEF Send
      <3>2. [delivered EXCEPT ![job[p]] = IF @ < 1 THEN @ + 1 ELSE @]
              = [delivered EXCEPT ![job[p]] = 1]
        BY <2>2
      <3>3. InHand[p] # NoOutreach
        BY <2>1, <2>4, RowsAssumption
      <3>4. Willing!Write(p)
        BY <2>4, <3>1, <3>2, <3>3 DEF Willing!Write
      <3> QED BY <1>0, <3>4 DEF Willing!Next
    <2>6. CASE answer \notin {"ok", "lost"}
      <3>1. Willing!LetGo(p)
        BY <1>0, <1>2, <2>1, <2>4, <2>6, RowsAssumption DEF Send, Willing!LetGo
      <3> QED BY <1>0, <3>1 DEF Willing!Next
    <2> QED BY <2>5, <2>6
  <1>3. ASSUME NEW p \in Senders,
               \/ Take(p) \/ LoadSent(p) \/ LoadUnapproved(p) \/ Claim(p) \/ FloodRequeue(p)
               \/ FloodLog(p) \/ MarkFailed(p) \/ Record(p) \/ Retry(p) \/ DeadLetter(p)
               \/ TransactionFails(p) \/ DeadLetterFails(p)
        PROVE  [Willing!Next]_<<optedOut, InHand, delivered>>
    <2>1. UNCHANGED <<optedOut, delivered>>
      BY <1>3 DEF Take, LoadSent, LoadUnapproved, Claim, Reconcile, ClaimOptedOut, ClaimLimited,
                  ClaimBusy, ClaimKey, FloodRequeue, FloodLog, MarkFailed, Record, Retry,
                  DeadLetter, TransactionFails, DeadLetterFails
    <2>2. \A q \in Processes \ {p} : pc'[q] = pc[q] /\ job'[q] = job[q] /\ seen'[q] = seen[q]
      BY <1>0, <1>3 DEF Take, LoadSent, LoadUnapproved, Claim, Reconcile, ClaimOptedOut,
                  ClaimLimited, ClaimBusy, ClaimKey, FloodRequeue, FloodLog, MarkFailed, Record,
                  Retry, DeadLetter, TransactionFails, DeadLetterFails, GoTo, Done
    <2>3. \/ pc'[p] \notin {"claim", "send"}
          \/ pc[p] = "claim" /\ pc'[p] = "send" /\ job'[p] = job[p] /\ seen'[p] = seen[p]
      BY <1>0, <1>3 DEF Take, LoadSent, LoadUnapproved, Claim, Reconcile, ClaimOptedOut,
                  ClaimLimited, ClaimBusy, ClaimKey, FloodRequeue, FloodLog, MarkFailed, Record,
                  Retry, DeadLetter, TransactionFails, DeadLetterFails, GoTo, Done
    <2>4. /\ \A q \in Processes \ {p} : InHand'[q] = InHand[q]
          /\ InHand'[p] \in {InHand[p], NoOutreach}
      BY <1>0, <2>2, <2>3 DEF InHand
    <2> QED BY <1>0, <2>1, <2>4, HandsOff
  <1>4. CASE UNCHANGED <<optedOut, delivered, worker>>
    BY <1>4 DEF InHand
  <1>5. ASSUME NEW o \in Outreaches, NEW intent \in Intents, Reply(o, intent)
        PROVE  [Willing!Next]_<<optedOut, InHand, delivered>>
    <2>1. UNCHANGED <<InHand, delivered>> /\ ContactOf[o] \in Contacts
      BY <1>5, RowsAssumption DEF Reply, InHand
    <2>2. CASE intent = "opt_out"
      <3>1. optedOut' = [optedOut EXCEPT ![ContactOf[o]] = TRUE]
        BY <1>0, <1>5, <2>2 DEF Reply
      <3> QED BY <2>1, <3>1 DEF Willing!Next, Willing!Withdraw
    <2>3. CASE intent # "opt_out"
      <3>1. optedOut' = optedOut
        BY <1>0, <1>5, <2>3 DEF Reply
      <3> QED BY <2>1, <3>1
    <2> QED BY <2>2, <2>3
  <1>6. ASSUME NEW p \in Processes, Crash(p) PROVE [Willing!Next]_<<optedOut, InHand, delivered>>
    <2>1. /\ UNCHANGED <<optedOut, delivered>>
          /\ \A q \in Processes \ {p} : InHand'[q] = InHand[q]
          /\ InHand'[p] = NoOutreach
      BY <1>0, <1>6 DEF Crash, Done, InHand
    <2> QED BY <2>1, HandsOff
  <1>7. ASSUME \/ \E c \in Calls, o \in Outreaches, p \in Desks :
                    ApproveRead(c, o, p) \/ RejectRead(c, o, p)
               \/ \E c \in Calls : CallStep(c) \/ CallFails(c)
               \/ \E p \in Senders, o \in Outreaches : StrayTask(p, o) \/ DelayedDue(p, o)
               \/ \E p \in Analyzers : AnalyzerTakes(p)
               \/ UNCHANGED vars
        PROVE  UNCHANGED <<optedOut, delivered, worker>>
    BY <1>7 DEF ApproveRead, RejectRead, CallStep, ApproveCommit, ApproveEnqueue, RejectCommit,
                CallFails, StrayTask, DelayedDue, AnalyzerTakes, vars
  <1> QED
    BY <1>1, <1>2, <1>3, <1>4, <1>5, <1>6, <1>7 DEF Next, SenderStep, Load

\* Sending implements consent: after an opt-out only the attempt that had read the contact
\* before can still deliver, once, and nothing takes an opt-out back.
THEOREM KeepsConsent == Spec => ConsentKept
  <1> QED
    BY ConsentInit, ConsentNext, Invariance, PTL DEF Spec, ConsentKept, Willing!Spec

--------------------------------------------------------------------------------
(***************************************************************************)
(* No approval evaporates.  A status may stop telling (a late approval     *)
(* overwrites FAILED or REJECTED), but then that approval's call is under  *)
(* way; a key that is not ABSENT without a holder is no end of the story,  *)
(* because the task it stops goes on to its dead letter.                   *)
(***************************************************************************)
Traced(o) == Told(o) \/ UnderWay(o)

\* A queue that gets a task holds it and what it held.
LEMMA Appended ==
  ASSUME NEW S, NEW s \in Seq(S), NEW e \in S
  PROVE  Range(Append(s, e)) = Range(s) \union {e}
  <1>1. /\ DOMAIN Append(s, e) = 1 .. Len(s) + 1
        /\ \A k \in 1 .. Len(s) : Append(s, e)[k] = s[k]
        /\ Append(s, e)[Len(s) + 1] = e
        /\ DOMAIN s = 1 .. Len(s) /\ Len(s) \in Nat
    OBVIOUS
  <1> QED BY <1>1 DEF Range

\* What was in a queue is its first task or in the rest.
LEMMA Taken ==
  ASSUME NEW S, NEW s \in Seq(S), s # <<>>
  PROVE  Range(s) = Range(Tail(s)) \union {Head(s)}
  <1>1. /\ Len(s) \in Nat \ {0} /\ DOMAIN s = 1 .. Len(s) /\ Head(s) = s[1]
        /\ DOMAIN Tail(s) = 1 .. Len(s) - 1
        /\ \A k \in 1 .. Len(s) - 1 : Tail(s)[k] = s[k + 1]
    OBVIOUS
  <1>2. ASSUME NEW k \in 1 .. Len(s), k # 1
        PROVE  k - 1 \in DOMAIN Tail(s) /\ Tail(s)[k - 1] = s[k]
    BY <1>1, <1>2
  <1>3. ASSUME NEW k \in DOMAIN s PROVE s[k] \in Range(Tail(s)) \union {Head(s)}
    BY <1>1, <1>2, <1>3 DEF Range
  <1>4. Range(s) \subseteq Range(Tail(s)) \union {Head(s)}
    BY <1>3 DEF Range
  <1>5. Range(Tail(s)) \union {Head(s)} \subseteq Range(s)
    BY <1>1 DEF Range
  <1> QED BY <1>4, <1>5

\* What a row or a delivery tells is overwritten by an approval alone.
LEMMA TellsOn ==
  ASSUME IInv, [Next]_vars, NEW o \in Outreaches, Told(o),
         \A c \in Calls : ~ (ApproveCommit(c) /\ call[c].o = o)
  PROVE  Told(o)'
  <1> USE DeploymentAssumption
  <1>0. /\ status \in [Outreaches -> OutreachStatus] /\ delivered \in [Outreaches -> Nat]
        /\ pc \in [Processes -> Steps] /\ job \in [Processes -> Outreaches \union {NoOutreach}]
        /\ dlq \subseteq Outreaches
        /\ \A p \in Processes : pc[p] # "idle" => job[p] \in Outreaches
    BY DEF IInv, TypeInv, TypeOK, Employed
  <1>1. delivered[o] > 0 \/ o \in dlq => Told(o)'
    <2>1. /\ \/ delivered' = delivered
             \/ \E p \in Senders : pc[p] = "send" /\ delivered' = [delivered EXCEPT ![job[p]] = @ + 1]
          /\ dlq \subseteq dlq'
      BY DEF Next, CallStep, SenderStep, Load, Claim, ApproveRead, RejectRead, ApproveCommit,
             ApproveEnqueue, RejectCommit, CallFails, Take, LoadSent, LoadUnapproved, LoadApproved,
             Reconcile, ClaimOptedOut, ClaimLimited, ClaimBusy, ClaimKey, Send, FloodRequeue,
             FloodLog, MarkFailed, Record, Retry, DeadLetter, TransactionFails, DeadLetterFails,
             StrayTask, DelayedDue, AnalyzerTakes, Reply, Crash, vars, db
    <2>2. delivered'[o] >= delivered[o]
      BY <1>0, <2>1
    <2> QED BY <1>0, <2>1, <2>2 DEF Told
  <1>2. ASSUME status[o] \in {"failed", "rejected"}, delivered[o] = 0 PROVE Told(o)'
    <2>1. key[o] # "completed" /\ conv[o] = "none"
      BY <1>2 DEF IInv, KeyInv
    <2>2. ASSUME NEW p \in Senders, pc[p] = "record" PROVE job[p] # o
      <3>1. Holds(p, job[p]) /\ job[p] \in Outreaches
        BY <1>0, <2>2 DEF Holds
      <3>2. delivered[job[p]] = 1
        BY <2>2, <3>1 DEF IInv, SoleClaimant
      <3> QED BY <1>2, <3>2
    <2>3. \/ status'[o] = status[o]
          \/ status'[o] \in {"failed", "rejected"}
      <3>1. CASE UNCHANGED status
        BY <3>1
      <3>2. ASSUME NEW c \in Calls, ApproveCommit(c) PROVE status'[o] = status[o]
        BY <1>0, <3>2 DEF ApproveCommit
      <3>3. ASSUME NEW c \in Calls, RejectCommit(c)
            PROVE  status'[o] = status[o] \/ status'[o] \in {"failed", "rejected"}
        BY <1>0, <3>3 DEF RejectCommit
      <3>4. ASSUME NEW p \in Senders, Reconcile(p) \/ MarkFailed(p) \/ Record(p)
            PROVE  status'[o] = status[o] \/ status'[o] \in {"failed", "rejected"}
        BY <1>0, <2>1, <2>2, <3>4 DEF Reconcile, MarkFailed, Record
      <3>5. ASSUME NEW q \in Outreaches, NEW intent \in Intents, Reply(q, intent)
            PROVE  status'[o] = status[o]
        BY <1>0, <2>1, <3>5 DEF Reply
      <3> QED
        BY <3>1, <3>2, <3>3, <3>4, <3>5
           DEF Next, CallStep, SenderStep, Load, Claim, ApproveRead, RejectRead,
             ApproveEnqueue, CallFails, Take, LoadSent, LoadUnapproved, LoadApproved,
             ClaimOptedOut, ClaimLimited, ClaimBusy, ClaimKey, Send, FloodRequeue,
             FloodLog, Retry, DeadLetter, TransactionFails, DeadLetterFails,
             StrayTask, DelayedDue, AnalyzerTakes, Crash, vars, db
    <2> QED BY <1>2, <2>3 DEF Told
  <1> QED BY <1>0, <1>1, <1>2 DEF Told

\* Every step but a loss leaves a trace of each approved outreach, of the one it approves too.
LEMMA TraceNext ==
  ASSUME IInv, Next, ~ TaskIsLost, NEW o \in approved', o \in approved => Traced(o)
  PROVE  Traced(o)'
  <1> USE DeploymentAssumption
  <1>0. /\ pc \in [Processes -> Steps] /\ job \in [Processes -> Outreaches \union {NoOutreach}]
        /\ queue \in [Processes -> Seq(Outreaches)]
        /\ delayed \in [Processes -> SUBSET Outreaches] /\ dlq \subseteq Outreaches
        /\ \A c \in Calls : call[c] = NoCall \/ call[c] \in CallInProgress
        /\ call = [c \in Calls |-> call[c]] /\ approved \subseteq Outreaches
        /\ status \in [Outreaches -> OutreachStatus] /\ delivered \in [Outreaches -> Nat]
        /\ \A p \in Processes : pc[p] # "idle" => job[p] \in Outreaches
    BY DEF IInv, TypeInv, TypeOK, Employed
  <1>1. ASSUME NEW c \in Calls, ApproveCommit(c), call[c].o = o PROVE Traced(o)'
    <2>1. call' = [call EXCEPT ![c] = [call[c] EXCEPT !.step = "enqueue"]] /\ call[c] \in CallInProgress
      BY <1>0, <1>1 DEF ApproveCommit, NoCall
    <2>2. call'[c].step = "enqueue" /\ call'[c].o = o
      BY <1>0, <1>1, <2>1 DEF CallInProgress
    <2> QED BY <2>2 DEF Traced, UnderWay
  <1>2. CASE \A c \in Calls : ~ (ApproveCommit(c) /\ call[c].o = o)
    <2>0. o \in approved /\ Traced(o) /\ o \in Outreaches
      BY <1>0, <1>2
         DEF Next, CallStep, SenderStep, Load, Claim, ApproveRead, RejectRead, ApproveCommit,
             ApproveEnqueue, RejectCommit, CallFails, Take, LoadSent, LoadUnapproved, LoadApproved,
             Reconcile, ClaimOptedOut, ClaimLimited, ClaimBusy, ClaimKey, Send, FloodRequeue,
             FloodLog, MarkFailed, Record, Retry, DeadLetter, TransactionFails, DeadLetterFails,
             StrayTask, DelayedDue, AnalyzerTakes, Reply, Crash, past
    <2>1. Told(o) => Told(o)'
      BY <1>2, <2>0, TellsOn
    <2>2. \/ Told(o)
          \/ \E c \in Calls : call[c].step = "enqueue" /\ call[c].o = o
          \/ \E p \in Senders : o \in delayed[p] \/ o \in Range(queue[p])
                               \/ (job[p] = o /\ pc[p] \notin {"idle", "logflood"})
      BY <2>0 DEF Traced, UnderWay
    <2>3. /\ Told(o) => Traced(o)'
          /\ \A c \in Calls : call'[c].step = "enqueue" /\ call'[c].o = o => Traced(o)'
          /\ \A p \in Senders : \/ o \in delayed'[p] \/ o \in Range(queue'[p])
                               \/ (job'[p] = o /\ pc'[p] \notin {"idle", "logflood"})
                             => Traced(o)'
      BY <2>1 DEF Traced, UnderWay
    <2> HIDE DEF Traced
    <2> DEFINE SameCalls  == \A c \in Calls : call[c].step = "enqueue" => call'[c] = call[c]
               SameQueues == \A p \in Senders : queue'[p] = queue[p] /\ delayed'[p] = delayed[p]
               SameJobs   == \A p \in Senders : pc[p] \notin {"idle", "logflood"} =>
                               job'[p] = job[p] /\ pc'[p] \notin {"idle", "logflood"}
    <2>4. CASE SameCalls /\ SameQueues /\ SameJobs
      BY <1>0, <2>0, <2>2, <2>3, <2>4
    \* The task goes into the queue.
    <2>5. ASSUME NEW c \in Calls, ApproveEnqueue(c) PROVE Traced(o)'
      <3>1. /\ call[c].at \in Senders /\ call[c].o \in Outreaches
            /\ queue' = [queue EXCEPT ![call[c].at] = Append(@, call[c].o)]
            /\ call' = [call EXCEPT ![c] = NoCall]
            /\ UNCHANGED <<delayed, pc, job>>
        <4>1. call[c] \in CallInProgress
          BY <1>0, <2>5 DEF ApproveEnqueue, NoCall
        <4>2. call[c].at \in Senders
          BY <2>5 DEF TaskIsLost
        <4> QED BY <2>5, <4>1, <4>2 DEF ApproveEnqueue, CallInProgress, worker
      <3>2. /\ Range(queue'[call[c].at]) = Range(queue[call[c].at]) \union {call[c].o}
            /\ \A p \in Senders \ {call[c].at} : queue'[p] = queue[p]
        BY <1>0, <3>1, Appended
      <3>3. \A d \in Calls \ {c} : call'[d] = call[d]
        BY <1>0, <3>1
      <3> QED BY <2>2, <2>3, <3>1, <3>2, <3>3
    <2>6. ASSUME NEW p \in Senders, \E q \in Outreaches : StrayTask(p, q) \/ DelayedDue(p, q)
          PROVE  Traced(o)'
      <3>1. PICK q \in Outreaches : StrayTask(p, q) \/ DelayedDue(p, q)
        BY <2>6
      <3>2. /\ queue' = [queue EXCEPT ![p] = Append(@, q)]
            /\ delayed' = delayed \/ delayed' = [delayed EXCEPT ![p] = @ \ {q}]
            /\ UNCHANGED <<call, pc, job>>
        BY <3>1 DEF StrayTask, DelayedDue, worker
      <3>3. /\ Range(queue'[p]) = Range(queue[p]) \union {q}
            /\ \A r \in Senders \ {p} : queue'[r] = queue[r]
        BY <1>0, <3>2, Appended
      <3>4. /\ delayed[p] \subseteq delayed'[p] \union {q}
            /\ \A r \in Senders \ {p} : delayed'[r] = delayed[r]
        BY <1>0, <3>2
      <3> QED BY <2>2, <2>3, <3>2, <3>3, <3>4
    \* The worker takes it.
    <2>7. ASSUME NEW p \in Senders, Take(p) PROVE Traced(o)'
      <3>1. /\ queue' = [queue EXCEPT ![p] = Tail(@)] /\ queue[p] # <<>> /\ pc[p] = "idle"
            /\ job' = [job EXCEPT ![p] = Head(queue[p])] /\ pc' = [pc EXCEPT ![p] = "load"]
            /\ UNCHANGED <<call, delayed>>
        BY <2>7 DEF Take
      <3>2. /\ Range(queue[p]) = Range(queue'[p]) \union {job'[p]}
            /\ \A r \in Senders \ {p} : queue'[r] = queue[r]
        BY <1>0, <3>1, Taken
      <3>3. /\ pc'[p] = "load"
            /\ \A r \in Senders \ {p} : job'[r] = job[r] /\ pc'[r] = pc[r]
        BY <1>0, <3>1
      <3> QED BY <2>2, <2>3, <3>1, <3>2, <3>3
    \* The worker comes to an end with it.
    <2>8. ASSUME NEW p \in Senders,
                 \/ LoadSent(p) \/ Reconcile(p) \/ FloodLog(p) \/ MarkFailed(p) \/ DeadLetter(p)
                 \/ (Record(p) /\ CanMoveLead(seen[p].lead, "outreach_sent"))
          PROVE  Traced(o)'
      <3>1. job[p] \in Outreaches /\ pc[p] # "idle"
        BY <1>0, <2>8 DEF LoadSent, Reconcile, FloodLog, MarkFailed, DeadLetter, Record
      <3>2. job[p] = o /\ pc[p] # "logflood" => Told(o)'
        <4>1. CASE LoadSent(p) \/ Reconcile(p)
          BY <1>0, <3>1, <4>1 DEF LoadSent, Reconcile, IInv, KeyInv, Told, db
        <4>2. CASE FloodLog(p)
          BY <4>2 DEF FloodLog
        <4>3. CASE MarkFailed(p) \/ DeadLetter(p)
          BY <1>0, <3>1, <4>3 DEF MarkFailed, DeadLetter, Told
        <4>4. CASE Record(p)
          <5>1. delivered[job[p]] = 1
            BY <3>1, <4>4 DEF Record, Holds, IInv, SoleClaimant
          <5> QED BY <4>4, <5>1 DEF Record, Told
        <4> QED BY <2>8, <4>1, <4>2, <4>3, <4>4
      <3>3. /\ UNCHANGED <<queue, delayed, call>>
            /\ \A r \in Senders \ {p} : job'[r] = job[r] /\ pc'[r] = pc[r]
        BY <1>0, <2>8 DEF LoadSent, Reconcile, FloodLog, MarkFailed, DeadLetter, Record, Done, memory
      <3>4. job[p] = o /\ pc[p] # "logflood" => Traced(o)'
        BY <2>3, <3>2 DEF Traced
      <3> QED BY <2>2, <2>3, <3>3, <3>4
    <2>9. ASSUME NEW p \in Senders, FloodRequeue(p) PROVE Traced(o)'
      <3>1. /\ UNCHANGED <<queue, call, job>> /\ job[p] \in delayed'[p]
            /\ \A r \in Senders : delayed[r] \subseteq delayed'[r]
            /\ \A r \in Senders \ {p} : pc'[r] = pc[r]
        BY <1>0, <2>9 DEF FloodRequeue, GoTo
      <3> QED BY <2>2, <2>3, <3>1
    <2>10. ASSUME \/ \E c \in Calls, q \in Outreaches, p \in Desks :
                       ApproveRead(c, q, p) \/ RejectRead(c, q, p)
                  \/ \E c \in Calls : ApproveCommit(c) \/ RejectCommit(c)
                  \/ \E q \in Outreaches, intent \in Intents : Reply(q, intent)
           PROVE  SameCalls /\ SameQueues /\ SameJobs
      <3>1. SameCalls
        BY <1>0, <2>10 DEF ApproveRead, RejectRead, Found, ApproveCommit, RejectCommit, Reply, NoCall, memory
      <3>2. SameQueues /\ SameJobs
        BY <2>10 DEF ApproveRead, RejectRead, ApproveCommit, RejectCommit, Reply, memory, worker
      <3> QED BY <3>1, <3>2
    <2>11. ASSUME NEW p \in Senders,
                  \/ LoadUnapproved(p) \/ LoadApproved(p) \/ ClaimOptedOut(p) \/ ClaimLimited(p)
                  \/ ClaimBusy(p) \/ ClaimKey(p) \/ Retry(p) \/ TransactionFails(p)
                  \/ (Record(p) /\ ~ CanMoveLead(seen[p].lead, "outreach_sent"))
           PROVE  Traced(o)'
      <3>1. UNCHANGED <<queue, delayed, call>>
        BY <2>11 DEF LoadUnapproved, LoadApproved, ClaimOptedOut, ClaimLimited, ClaimBusy, ClaimKey,
                     Retry, TransactionFails, Record, memory
      <3>2. \E s \in Steps \ {"idle", "logflood"} : pc' = [pc EXCEPT ![p] = s] /\ job' = job
        BY <2>11 DEF LoadUnapproved, LoadApproved, ClaimOptedOut, ClaimLimited, ClaimBusy, ClaimKey,
                     Retry, TransactionFails, Record, GoTo, Steps
      <3>3. SameJobs
        BY <1>0, <3>2
      <3> QED BY <2>4, <3>1, <3>3
    <2>12. ASSUME NEW p \in Senders, NEW answer \in TelegramOutcomes, Send(p, answer) PROVE Traced(o)'
      <3>1. After(answer) \notin {"idle", "logflood"}
        BY DEF After
      <3>2. SameCalls /\ SameQueues /\ SameJobs
        BY <1>0, <2>12, <3>1 DEF Send, GoTo, memory
      <3> QED BY <2>4, <3>2
    <2> QED
      BY <2>4, <2>5, <2>6, <2>7, <2>8, <2>9, <2>10, <2>11, <2>12
         DEF Next, CallStep, SenderStep, Load, Claim, TaskIsLost
  <1> QED BY <1>1, <1>2

\* The five ways of losing a task are all there are, in every deployment, for any number of
\* workers, calls, retries and stray tasks.
THEOREM ApprovalsAreTraced == Spec => ApprovalLeavesATrace
  <1> DEFINE Kept == \A o \in approved' : (o \in approved => Told(o) \/ UnderWay(o)) =>
                       (Told(o) \/ UnderWay(o))' \/ TaskIsLost
  <1>1. IInv /\ [Next]_vars => [Kept]_vars
    <2> SUFFICES ASSUME IInv, Next PROVE Kept
      OBVIOUS
    <2> QED BY TraceNext DEF Traced
  <1> QED BY <1>1, Invariance, PTL DEF Spec, ApprovalLeavesATrace

--------------------------------------------------------------------------------
(***************************************************************************)
(* Rejections.  Two calls that both read DRAFTED both succeed; unless that *)
(* happened, a rejection is final, whatever the workers do.                *)
(***************************************************************************)

\* Nothing went out, and no worker has it past the gate.
Held(o) ==
  /\ delivered[o] = 0
  /\ \A p \in Processes : job[p] = o => pc[p] \in Outside

\* The gate holds back what is not decided.  What is rejected stays so and is held back
\* too: no later call reads it as DRAFTED, and an earlier one overtakes the rejection.
RejectedInv ==
  /\ \A o \in Outreaches : status[o] = "drafted" => Held(o)
  /\ \A o \in rejected \ overtaken : status[o] = "rejected" /\ Held(o)
  /\ \A c \in Calls : call[c].step \in {"approve", "reject"} => call[c].found = "drafted"

Still(o) == status[o] = "drafted" \/ o \in rejected \ overtaken

\* Workers and replies leave such rows and the calls alone.
LEMMA RejectedStays ==
  ASSUME RejectedInv, rejected \subseteq Outreaches, UNCHANGED <<rejected, overtaken>>,
         \A o \in Outreaches : status'[o] = "drafted" => status[o] = "drafted",
         \A o \in Outreaches : Still(o) =>
           /\ status'[o] = status[o] /\ delivered'[o] = delivered[o]
           /\ \A p \in Processes : job'[p] = o => pc'[p] \in Outside \/ (job[p] = o /\ pc'[p] = pc[p]),
         \A c \in Calls : call'[c] = call[c] \/ call'[c].step \notin {"approve", "reject"}
  PROVE  RejectedInv'
  BY DEF RejectedInv, Still, Held

LEMMA RejectedInit == Init => RejectedInv
  BY DEF Init, RejectedInv, Held, Outside, NoCall

LEMMA RejectedNext == IInv /\ RejectedInv /\ [Next]_vars => RejectedInv'
  <1> SUFFICES ASSUME IInv, RejectedInv, [Next]_vars PROVE RejectedInv'
    OBVIOUS
  <1>0. /\ status \in [Outreaches -> OutreachStatus] /\ delivered \in [Outreaches -> Nat]
        /\ pc \in [Processes -> Steps] /\ job \in [Processes -> Outreaches \union {NoOutreach}]
        /\ \A c \in Calls : call[c] = NoCall \/ call[c] \in CallInProgress
        /\ call = [c \in Calls |-> call[c]] /\ rejected \subseteq Outreaches
    BY DEF IInv, TypeInv, TypeOK
  <1>1. ASSUME NEW c \in Calls, NEW o \in Outreaches, NEW p \in Desks,
               ApproveRead(c, o, p) \/ RejectRead(c, o, p)
        PROVE  RejectedInv'
    <2>1. status[o] = "drafted"
      BY <1>0, <1>1 DEF ApproveRead, RejectRead, CanMoveOutreach, OutreachTable, OutreachStatus
    <2>2. call'[c].found = "drafted" /\ \A d \in Calls \ {c} : call'[d] = call[d]
      BY <1>0, <1>1, <2>1 DEF ApproveRead, RejectRead, Found
    <2> QED BY <1>1, <2>2 DEF ApproveRead, RejectRead, RejectedInv, Held, db, worker, past
  <1>2. ASSUME NEW c \in Calls, ApproveCommit(c) \/ RejectCommit(c) PROVE RejectedInv'
    <2> DEFINE o == call[c].o
    <2>1. /\ call[c] \in CallInProgress /\ o \in Outreaches
          /\ call[c].found = "drafted"
      BY <1>0, <1>2 DEF ApproveCommit, RejectCommit, NoCall, CallInProgress, RejectedInv
    <2>2. \A d \in Calls : call'[d] = call[d] \/ call'[d].step \notin {"approve", "reject"}
      <3>1. CASE ApproveCommit(c)
        <4>1. call' = [call EXCEPT ![c] = [call[c] EXCEPT !.step = "enqueue"]]
          BY <3>1 DEF ApproveCommit
        <4>2. [call[c] EXCEPT !.step = "enqueue"].step = "enqueue"
          BY <2>1 DEF CallInProgress
        <4> QED BY <1>0, <4>1, <4>2
      <3>2. CASE RejectCommit(c)
        BY <1>0, <3>2 DEF RejectCommit, NoCall
      <3> QED BY <1>2, <3>1, <3>2
    <2>3. /\ UNCHANGED <<delivered, pc, job>>
          /\ \A q \in Outreaches : Held(q)' <=> Held(q)
      BY <1>2 DEF ApproveCommit, RejectCommit, worker, Held
    <2>4. /\ \A q \in Outreaches \ {o} : status'[q] = status[q]
          /\ status'[o] = IF ApproveCommit(c) THEN "approved" ELSE "rejected"
          /\ rejected' \ {o} = rejected \ {o}
          /\ overtaken' = IF status[o] = "drafted" THEN overtaken ELSE overtaken \union {o}
      BY <1>0, <1>2, <2>1 DEF ApproveCommit, RejectCommit, Decided
    <2>5. ApproveCommit(c) => rejected' = rejected
      BY DEF ApproveCommit
    \* Either the row is as the call found it, and held back, or the call overtakes.
    <2>6. o \in rejected' \ overtaken' => status'[o] = "rejected" /\ Held(o)
      BY <2>1, <2>4, <2>5 DEF RejectedInv
    <2>7. \A q \in rejected' \ overtaken' : status'[q] = "rejected" /\ Held(q)'
      <3> SUFFICES ASSUME NEW q \in rejected' \ overtaken' PROVE status'[q] = "rejected" /\ Held(q)'
        OBVIOUS
      <3>1. q # o => q \in rejected \ overtaken
        BY <2>4
      <3> QED BY <1>0, <2>1, <2>3, <2>4, <2>6, <3>1 DEF RejectedInv
    <2>8. \A q \in Outreaches : status'[q] = "drafted" => Held(q)'
      BY <2>1, <2>3, <2>4 DEF RejectedInv
    <2>9. \A d \in Calls : call'[d].step \in {"approve", "reject"} => call'[d].found = "drafted"
      BY <2>2 DEF RejectedInv
    <2> QED BY <2>7, <2>8, <2>9 DEF RejectedInv
  <1>3. ASSUME NEW c \in Calls, ApproveEnqueue(c) \/ CallFails(c) PROVE RejectedInv'
    <2>1. UNCHANGED <<db, delivered, worker, past>> /\ call' = [call EXCEPT ![c] = NoCall]
      BY <1>3 DEF ApproveEnqueue, CallFails
    <2>2. \A d \in Calls : call'[d] = call[d] \/ call'[d].step \notin {"approve", "reject"}
      BY <2>1 DEF NoCall
    <2> QED BY <1>0, <2>1, <2>2, RejectedStays DEF db, worker, past
  <1>4. ASSUME NEW p \in Processes,
               \/ Take(p) \/ LoadSent(p) \/ LoadUnapproved(p) \/ FloodLog(p) \/ Retry(p)
               \/ DeadLetter(p) \/ TransactionFails(p) \/ DeadLetterFails(p)
               \/ ClaimOptedOut(p) \/ ClaimLimited(p) \/ ClaimBusy(p)
        PROVE  RejectedInv'
    <2>1. UNCHANGED <<status, delivered, call, past>>
      BY <1>4 DEF Take, LoadSent, LoadUnapproved, FloodLog, Retry, DeadLetter, TransactionFails,
                  DeadLetterFails, ClaimOptedOut, ClaimLimited, ClaimBusy, memory, db
    <2>2. \E s \in Outside : pc' = [pc EXCEPT ![p] = s]
      BY <1>4 DEF Take, LoadSent, LoadUnapproved, FloodLog, Retry, DeadLetter, TransactionFails,
                  DeadLetterFails, ClaimOptedOut, ClaimLimited, ClaimBusy, GoTo, Done, Outside
    <2>3. \A q \in Processes \ {p} : job'[q] = job[q] /\ pc'[q] = pc[q]
      BY <1>0, <1>4 DEF Take, LoadSent, LoadUnapproved, FloodLog, Retry, DeadLetter,
                  TransactionFails, DeadLetterFails, ClaimOptedOut, ClaimLimited, ClaimBusy, GoTo, Done
    <2> QED BY <1>0, <2>1, <2>2, <2>3, RejectedStays DEF past
  \* Past the gate the row is not held back.
  <1>5. ASSUME NEW p \in Processes,
               \/ LoadApproved(p) \/ Reconcile(p) \/ ClaimKey(p) \/ FloodRequeue(p)
               \/ MarkFailed(p) \/ Record(p) \/ \E answer \in TelegramOutcomes : Send(p, answer)
        PROVE  RejectedInv'
    <2>1. job[p] \in Outreaches
      BY <1>5 DEF IInv, TypeInv, Employed, LoadApproved, Reconcile, ClaimKey, FloodRequeue,
                  MarkFailed, Record, Send
    <2>2. ~ Still(job[p])
      BY <1>5, <2>1 DEF RejectedInv, Still, Held, Outside, LoadApproved, Reconcile, ClaimKey,
                  FloodRequeue, MarkFailed, Record, Send
    <2>3. \/ status' = status
          \/ \E s \in {"sent", "failed"} : status' = [status EXCEPT ![job[p]] = s]
      BY <1>5 DEF LoadApproved, Reconcile, ClaimKey, FloodRequeue, MarkFailed, Record, Send, db
    <2>4. /\ delivered' = delivered \/ delivered' = [delivered EXCEPT ![job[p]] = delivered[job[p]] + 1]
          /\ UNCHANGED <<call, rejected, overtaken>>
      BY <1>5 DEF LoadApproved, Reconcile, ClaimKey, FloodRequeue, MarkFailed, Record, Send,
                  memory, past
    <2>5. /\ \A q \in Processes \ {p} : job'[q] = job[q] /\ pc'[q] = pc[q]
          /\ job'[p] = job[p] \/ pc'[p] = "idle"
      BY <1>0, <1>5 DEF LoadApproved, Reconcile, ClaimKey, FloodRequeue, MarkFailed, Record, Send,
                  GoTo, Done
    <2>6. \A o \in Outreaches \ {job[p]} : status'[o] = status[o] /\ delivered'[o] = delivered[o]
      BY <1>0, <2>3, <2>4
    <2>7. \A o \in Outreaches : status'[o] = "drafted" => status[o] = "drafted"
      BY <1>0, <2>1, <2>3
    <2>8. \A o \in Outreaches, q \in Processes :
            o # job[p] /\ job'[q] = o => pc'[q] \in Outside \/ (job[q] = o /\ pc'[q] = pc[q])
      BY <2>5 DEF Outside
    <2> QED BY <1>0, <2>2, <2>4, <2>6, <2>7, <2>8, RejectedStays
  <1>6. ASSUME NEW p \in Processes,
               AnalyzerTakes(p) \/ \E o \in Outreaches : StrayTask(p, o) \/ DelayedDue(p, o)
        PROVE  RejectedInv'
    <2>1. UNCHANGED <<db, delivered, worker, call, past>>
      BY <1>6 DEF AnalyzerTakes, StrayTask, DelayedDue
    <2> QED BY <1>0, <2>1, RejectedStays DEF db, worker, past
  <1>7. ASSUME NEW o \in Outreaches, NEW intent \in Intents, Reply(o, intent) PROVE RejectedInv'
    <2>1. ~ Still(o)
      BY <1>7 DEF IInv, KeyInv, RejectedInv, Held, Still, Reply
    <2>2. /\ UNCHANGED <<delivered, worker, call, rejected, overtaken>>
          /\ \E s \in {"replied", "closed"} : status' = [status EXCEPT ![o] = s]
      BY <1>7 DEF Reply, memory, past
    <2>3. /\ \A q \in Outreaches \ {o} : status'[q] = status[q]
          /\ status'[o] # "drafted"
      BY <1>0, <2>2
    <2> QED BY <1>0, <2>1, <2>2, <2>3, RejectedStays DEF worker
  <1>8. ASSUME NEW p \in Processes, Crash(p) PROVE RejectedInv'
    <2>1. /\ UNCHANGED <<status, delivered, rejected, overtaken>>
          /\ \A c \in Calls : call'[c] = call[c] \/ call'[c] = NoCall
          /\ pc' = [pc EXCEPT ![p] = "idle"] /\ job' = [job EXCEPT ![p] = NoOutreach]
      BY <1>8 DEF Crash, Done, db, past
    <2>2. \A q \in Processes : pc'[q] = "idle" \/ (pc'[q] = pc[q] /\ job'[q] = job[q])
      BY <1>0, <2>1
    <2> QED BY <1>0, <2>1, <2>2, RejectedStays DEF NoCall, Outside
  <1>9. CASE UNCHANGED vars
    BY <1>0, <1>9, RejectedStays DEF vars, db, worker, memory, past
  <1> QED
    BY <1>1, <1>2, <1>3, <1>4, <1>5, <1>6, <1>7, <1>8, <1>9, DeploymentAssumption
       DEF Next, CallStep, SenderStep, Load, Claim

\* A rejected outreach is never sent, whatever tasks there are for it, in how many processes,
\* and whatever fails, crashes or is approved later, unless one of two decisions that had both
\* read DRAFTED overtook the other.
THEOREM RejectionIsFinal == Spec => []RejectedIsNeverSent
  <1>1. IInv /\ RejectedInv => RejectedIsNeverSent
    BY DEF RejectedInv, Held, RejectedIsNeverSent
  <1> QED BY RejectedInit, RejectedNext, <1>1, Invariance, PTL DEF Spec

================================================================================
