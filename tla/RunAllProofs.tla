------------------------------ MODULE RunAllProofs ------------------------------
(***************************************************************************)
(* For any number of tasks, consumers, starts and faults: TypeOK, every    *)
(* task that was accepted is recorded, none is handled twice, and the      *)
(* handlers have their clients.                                            *)
(***************************************************************************)
EXTENDS RunAll, TLAPS

Waiting == Range(queue) \union timers \union putting
Begun   == Held \union returned \union raised

\* What was ever accepted has a row, which is COMPLETED only after its handler returned.
RecordInv ==
  /\ Waiting \union Begun \subseteq {t \in Tasks : row[t] # "none"}
  /\ \A t \in Tasks : row[t] = "completed" => t \in returned
  /\ \A c \in Consumers : at[c] = "acking" => hand[c] \in returned

Unique(s) == \A j, k \in DOMAIN s : s[j] = s[k] => j = k

\* A task waits in one place, once, and only before its handler is started.
PlaceInv ==
  /\ Waiting \intersect Begun = {}
  /\ timers \intersect putting = {}
  /\ (timers \union putting) \intersect Range(queue) = {}
  /\ Unique(queue)

\* The loops of a process that is not stopping run between StartModel and CancelTasks.
ClientInv ==
  /\ main \notin {"down", "connect"} => session
  /\ main = "start_bot" => program = "run_all"
  /\ main = "start_model" => program \in {"run_all", "run_worker"}
  /\ main \in {"down", "connect", "start_bot", "start_model"} =>
       ~ cancelled /\ \A c \in Consumers : at[c] = "none"
  /\ main \in {"close_bot", "close_model"} => cancelled
  /\ \A c \in Consumers : at[c] # "none" /\ ~ cancelled =>
       model /\ main = "serve" /\ program \in {"run_all", "run_worker"}

IInv == TypeOK /\ RecordInv /\ PlaceInv /\ ClientInv

--------------------------------------------------------------------------------
\* What is put at the end of a queue is in it, once.
LEMMA Appended ==
  ASSUME NEW S, NEW s \in Seq(S), NEW e \in S
  PROVE  /\ Append(s, e) \in Seq(S) /\ Len(Append(s, e)) = Len(s) + 1
         /\ Range(Append(s, e)) = Range(s) \union {e}
         /\ Unique(s) /\ e \notin Range(s) => Unique(Append(s, e))
<1>1. Append(s, e) \in Seq(S) /\ Len(Append(s, e)) = Len(s) + 1
  OBVIOUS
<1>2. /\ DOMAIN Append(s, e) = 1 .. Len(s) + 1
      /\ \A k \in 1 .. Len(s) : Append(s, e)[k] = s[k]
      /\ Append(s, e)[Len(s) + 1] = e
      /\ DOMAIN s = 1 .. Len(s) /\ Len(s) \in Nat
  OBVIOUS
<1>3. Range(Append(s, e)) = Range(s) \union {e}
  BY <1>2 DEF Range
<1>4. ASSUME Unique(s), e \notin Range(s) PROVE Unique(Append(s, e))
  BY <1>2, <1>4 DEF Range, Unique
<1> QED
  BY <1>1, <1>3, <1>4

\* What is taken from the front of a queue is not in the rest.
LEMMA Taken ==
  ASSUME NEW S, NEW s \in Seq(S), s # <<>>
  PROVE  /\ Tail(s) \in Seq(S) /\ Len(Tail(s)) <= Len(s)
         /\ Head(s) \in S /\ Head(s) \in Range(s)
         /\ Range(s) = Range(Tail(s)) \union {Head(s)}
         /\ Unique(s) => Unique(Tail(s)) /\ Head(s) \notin Range(Tail(s))
<1>1. /\ Tail(s) \in Seq(S) /\ Len(Tail(s)) = Len(s) - 1
      /\ Len(s) \in Nat \ {0} /\ Head(s) = s[1]
      /\ DOMAIN s = 1 .. Len(s) /\ DOMAIN Tail(s) = 1 .. Len(s) - 1
      /\ \A k \in 1 .. Len(s) - 1 : Tail(s)[k] = s[k + 1]
  OBVIOUS
<1>2. Head(s) \in S /\ Head(s) \in Range(s) /\ Range(Tail(s)) \subseteq Range(s)
  BY <1>1 DEF Range
<1>3. Range(s) \subseteq Range(Tail(s)) \union {Head(s)}
  <2>1. ASSUME NEW k \in 1 .. Len(s), k # 1
        PROVE  k - 1 \in DOMAIN Tail(s) /\ Tail(s)[k - 1] = s[k]
    BY <1>1, <2>1
  <2>2. ASSUME NEW k \in DOMAIN s PROVE s[k] \in Range(Tail(s)) \union {Head(s)}
    BY <1>1, <2>1, <2>2 DEF Range
  <2> QED
    BY <2>2 DEF Range
<1>4. ASSUME Unique(s) PROVE Unique(Tail(s)) /\ Head(s) \notin Range(Tail(s))
  BY <1>1, <1>4 DEF Range, Unique
<1> QED
  BY <1>1, <1>2, <1>3, <1>4

--------------------------------------------------------------------------------
\* Init establishes the invariant.
LEMMA InitIInv == Init => IInv
<1> SUFFICES ASSUME Init PROVE IInv
  OBVIOUS
<1>0. queue \in Seq(Tasks) /\ Len(queue) <= QueueCap
  BY ProcessAssumption DEF Init
<1>1. TypeOK
  <2>1. /\ at \in [Consumers -> {"none", "waiting", "handling", "acking", "rejecting", "dead"}]
        /\ hand \in [Consumers -> Tasks \union {NoTask}]
        /\ row \in [Tasks -> {"none", "pending", "completed", "failed"}]
    BY DEF Init
  <2>2. \A c \in Consumers : hand[c] # NoTask <=> at[c] \in {"handling", "acking", "rejecting"}
    BY DEF Init
  <2>3. starts \in 0 .. MaxStarts /\ faults \in 0 .. MaxFaults
    BY ProcessAssumption DEF Init
  <2>4. /\ program \in Programs
        /\ main \in {"down", "connect", "start_bot", "start_model", "serve",
                     "close_bot", "close_model", "close_session"}
        /\ session \in BOOLEAN /\ bot \in BOOLEAN /\ model \in BOOLEAN
        /\ signalled \in BOOLEAN /\ cancelled \in BOOLEAN
        /\ timers \subseteq Tasks /\ putting \subseteq Tasks
        /\ returned \subseteq Tasks /\ raised \subseteq Tasks
    BY DEF Init
  <2> QED
    BY <1>0, <2>1, <2>2, <2>3, <2>4 DEF TypeOK
<1>2. RecordInv /\ PlaceInv
  BY DEF Init, RecordInv, PlaceInv, Waiting, Begun, Held, Range, Unique
<1>3. ClientInv
  BY DEF Init, ClientInv
<1> QED
  BY <1>1, <1>2, <1>3 DEF IInv

\* RecordInv and PlaceInv speak of the rows, the broker and what happened to tasks.
LEMMA TasksUntouched ==
  ASSUME RecordInv, PlaceInv, UNCHANGED <<row, memory, ghosts>>
  PROVE  RecordInv' /\ PlaceInv'
BY DEF RecordInv, PlaceInv, Waiting, Begun, Held, Range, Unique, memory, ghosts

\* When a process is gone, the rows and what happened are left.
LEMMA GoneKeeps ==
  ASSUME IInv, Gone, UNCHANGED <<row, program, ghosts, starts, faults>>
  PROVE  IInv'
<1>1. Waiting' = {} /\ Held' = {} /\ Unique(queue')
  BY DEF Gone, Waiting, Held, Range, Unique
<1>2. TypeOK'
  <2>1. queue' \in Seq(Tasks) /\ Len(queue') <= QueueCap
    BY ProcessAssumption DEF Gone
  <2>2. /\ at' \in [Consumers -> {"none", "waiting", "handling", "acking", "rejecting", "dead"}]
        /\ hand' \in [Consumers -> Tasks \union {NoTask}]
        /\ \A c \in Consumers : hand'[c] # NoTask <=> at'[c] \in {"handling", "acking", "rejecting"}
    BY DEF Gone
  <2>3. /\ main' \in {"down", "connect", "start_bot", "start_model", "serve",
                      "close_bot", "close_model", "close_session"}
        /\ session' \in BOOLEAN /\ bot' \in BOOLEAN /\ model' \in BOOLEAN
        /\ signalled' \in BOOLEAN /\ cancelled' \in BOOLEAN
        /\ timers' \subseteq Tasks /\ putting' \subseteq Tasks
    BY DEF Gone
  <2>4. /\ row' \in [Tasks -> {"none", "pending", "completed", "failed"}]
        /\ program' \in Programs
        /\ returned' \subseteq Tasks /\ raised' \subseteq Tasks
        /\ starts' \in 0 .. MaxStarts /\ faults' \in 0 .. MaxFaults
    BY DEF IInv, TypeOK, ghosts
  <2> QED
    BY <2>1, <2>2, <2>3, <2>4 DEF TypeOK
<1>3. RecordInv' /\ PlaceInv'
  BY <1>1 DEF IInv, RecordInv, PlaceInv, Begun, Gone, ghosts
<1>4. ClientInv'
  BY DEF Gone, ClientInv
<1> QED
  BY <1>2, <1>3, <1>4 DEF IInv

\* The steps of the main coroutine that leave the broker alone.
LEMMA MainKeeps ==
  ASSUME IInv,
         \/ \E p \in Programs : Start(p)
         \/ Connect \/ StartBot \/ Signal \/ CancelTasks \/ DryRunEnds \/ CloseBot \/ CloseModel
  PROVE  IInv'
<1>0. UNCHANGED <<row, memory, ghosts>>
  BY DEF Start, Connect, StartBot, Signal, CancelTasks, DryRunEnds, CloseBot, CloseModel
<1>1. RecordInv' /\ PlaceInv'
  BY <1>0, TasksUntouched DEF IInv
<1>2. CASE \E p \in Programs : Start(p)
  <2>1. TypeOK'
    BY <1>2, ProcessAssumption DEF IInv, TypeOK, Start, memory, ghosts, clients
  <2>2. ClientInv'
    BY <1>2 DEF IInv, ClientInv, Start, memory, clients
  <2> QED
    BY <1>1, <2>1, <2>2 DEF IInv
<1>3. CASE Connect
  <2>1. TypeOK' /\ ClientInv'
    BY <1>3, ProcessAssumption DEF IInv, TypeOK, ClientInv, Connect, memory, ghosts
  <2> QED
    BY <1>1, <2>1 DEF IInv
<1>4. CASE StartBot
  <2>1. TypeOK' /\ ClientInv'
    BY <1>4 DEF IInv, TypeOK, ClientInv, StartBot, memory, ghosts
  <2> QED
    BY <1>1, <2>1 DEF IInv
<1>5. CASE Signal \/ CancelTasks
  <2>1. TypeOK' /\ ClientInv'
    BY <1>5 DEF IInv, TypeOK, ClientInv, Signal, CancelTasks, memory, ghosts, clients
  <2> QED
    BY <1>1, <2>1 DEF IInv
<1>6. CASE DryRunEnds
  <2>1. TypeOK' /\ ClientInv'
    BY <1>6 DEF IInv, TypeOK, ClientInv, DryRunEnds, memory, ghosts, clients
  <2> QED
    BY <1>1, <2>1 DEF IInv
<1>7. CASE CloseBot \/ CloseModel
  <2>1. TypeOK' /\ ClientInv'
    BY <1>7 DEF IInv, TypeOK, ClientInv, CloseBot, CloseModel, memory, ghosts
  <2> QED
    BY <1>1, <2>1 DEF IInv
<1> QED
  BY <1>2, <1>3, <1>4, <1>5, <1>6, <1>7

\* The loops begin with nothing in their hands.
LEMMA StartModelKeeps == ASSUME IInv, StartModel PROVE IInv'
<1>1. \A c \in Consumers : hand[c] = NoTask /\ at[c] = "none" /\ at'[c] \in {"waiting", "none"}
  BY DEF IInv, TypeOK, ClientInv, StartModel
<1>2. TypeOK'
  BY <1>1 DEF IInv, TypeOK, StartModel, ghosts
<1>3. RecordInv' /\ PlaceInv'
  BY <1>1 DEF IInv, RecordInv, PlaceInv, StartModel, Waiting, Begun, Held, Range, Unique, ghosts
<1>4. ClientInv'
  BY <1>1 DEF IInv, ClientInv, StartModel, Loops
<1> QED
  BY <1>2, <1>3, <1>4 DEF IInv

--------------------------------------------------------------------------------
\* A task comes to wait with its row, or moves from one place to the next.
LEMMA QueueKeeps ==
  ASSUME IInv, NEW t \in Tasks,
         Enqueue(t) \/ EnqueueElsewhere(t) \/ EnqueueDelayed(t) \/ TimerFires(t) \/ Put(t)
  PROVE  IInv'
<1>0. /\ Begun' = Begun /\ at' = at /\ hand' = hand
      /\ UNCHANGED <<main, clients, program, cancelled, ghosts>>
  BY DEF Enqueue, EnqueueElsewhere, EnqueueDelayed, TimerFires, Put, process, memory, ghosts,
         Begun, Held
<1>1. ClientInv'
  BY <1>0 DEF IInv, ClientInv, clients
<1>2. CASE Enqueue(t) \/ EnqueueElsewhere(t) \/ EnqueueDelayed(t)
  <2>1. row[t] = "none" /\ row' = [row EXCEPT ![t] = "pending"] /\ queue' = queue
    BY <1>2 DEF Enqueue, EnqueueElsewhere, EnqueueDelayed, process, memory
  <2>2. t \notin Waiting \union Begun
    BY <2>1 DEF IInv, RecordInv
  <2>3. TypeOK'
    BY <1>2 DEF IInv, TypeOK, Enqueue, EnqueueElsewhere, EnqueueDelayed, process, memory, ghosts,
                clients
  <2>4. Waiting' \subseteq Waiting \union {t}
    BY <1>2 DEF Enqueue, EnqueueElsewhere, EnqueueDelayed, process, memory, Waiting
  <2>5. RecordInv'
    BY <1>0, <2>1, <2>4 DEF IInv, RecordInv, TypeOK, ghosts
  <2>6. PlaceInv'
    BY <1>0, <1>2, <2>1, <2>2, <2>4 DEF IInv, PlaceInv, Waiting, Enqueue, EnqueueElsewhere,
       EnqueueDelayed, process, memory
  <2> QED
    BY <1>1, <2>3, <2>5, <2>6 DEF IInv
<1>3. CASE TimerFires(t)
  <2>1. TypeOK'
    BY <1>3 DEF IInv, TypeOK, TimerFires, ghosts, clients
  <2>2. Waiting' = Waiting /\ row' = row
    BY <1>3 DEF TimerFires, Waiting
  <2>3. RecordInv' /\ PlaceInv'
    BY <1>0, <1>3, <2>2 DEF IInv, RecordInv, PlaceInv, TimerFires, ghosts
  <2> QED
    BY <1>1, <2>1, <2>3 DEF IInv
<1>4. CASE Put(t)
  <2>1. queue \in Seq(Tasks) /\ queue' = Append(queue, t) /\ t \in putting /\ row' = row
        /\ putting' = putting \ {t} /\ timers' = timers /\ Len(queue) < QueueCap
    BY <1>4 DEF IInv, TypeOK, Put
  <2>2. /\ queue' \in Seq(Tasks) /\ Len(queue') = Len(queue) + 1
        /\ Range(queue') = Range(queue) \union {t}
        /\ Unique(queue')
    BY <2>1, Appended DEF IInv, PlaceInv
  <2>3. TypeOK'
    BY <1>4, <2>1, <2>2, ProcessAssumption DEF IInv, TypeOK, Put, ghosts, clients
  <2>4. Waiting' = Waiting
    BY <2>1, <2>2 DEF Waiting
  <2>5. RecordInv' /\ PlaceInv'
    BY <1>0, <2>1, <2>2, <2>4 DEF IInv, RecordInv, PlaceInv, ghosts
  <2> QED
    BY <1>1, <2>3, <2>5 DEF IInv
<1> QED
  BY <1>2, <1>3, <1>4

\* The loop of another consumer does not move.
LEMMA LoopKeepsClients ==
  ASSUME IInv, NEW c \in Consumers, NEW s, NEW h, GoTo(c, s, h), LoopOnly, at[c] # "none"
  PROVE  ClientInv'
BY DEF IInv, ClientInv, TypeOK, GoTo, LoopOnly, clients

\* A consumer takes the first task of the queue.
LEMMA TakeKeeps == ASSUME IInv, NEW c \in Consumers, Take(c) PROVE IInv'
<1>1. /\ queue \in Seq(Tasks) /\ queue # <<>> /\ hand[c] = NoTask
      /\ queue' = Tail(queue) /\ GoTo(c, "handling", Head(queue))
      /\ timers' = timers /\ putting' = putting /\ UNCHANGED <<row, ghosts>>
  BY DEF IInv, TypeOK, Take, LoopOnly
<1>2. /\ Tail(queue) \in Seq(Tasks) /\ Len(Tail(queue)) <= Len(queue)
      /\ Head(queue) \in Tasks /\ Head(queue) \in Range(queue)
      /\ Range(Tail(queue)) \subseteq Range(queue)
      /\ Unique(Tail(queue)) /\ Head(queue) \notin Range(Tail(queue))
  BY <1>1, Taken DEF IInv, PlaceInv
<1>3. Held' = Held \union {Head(queue)}
  BY <1>1, <1>2, ProcessAssumption DEF IInv, TypeOK, GoTo, Held
<1>4. TypeOK'
  BY <1>1, <1>2, ProcessAssumption DEF IInv, TypeOK, Take, GoTo, LoopOnly, ghosts, clients
<1>5. RecordInv'
  BY <1>1, <1>2, <1>3 DEF IInv, RecordInv, TypeOK, Waiting, Begun, GoTo, ghosts
<1>6. PlaceInv'
  BY <1>1, <1>2, <1>3 DEF IInv, PlaceInv, Waiting, Begun, ghosts
<1>7. ClientInv'
  BY <1>1, LoopKeepsClients DEF Take
<1> QED
  BY <1>4, <1>5, <1>6, <1>7 DEF IInv

\* A loop that handles a task goes on with it or lets it go.
LEMMA HandKeeps ==
  ASSUME IInv, NEW c \in Consumers,
         \/ HandlerReturns(c) \/ HandlerRaises(c) \/ Acknowledge(c) \/ AcknowledgeFails(c)
         \/ Reject(c) \/ RejectFails(c) \/ Unwind(c)
  PROVE  IInv'
<1>1. /\ LoopOnly /\ queue' = queue /\ at[c] # "none"
      /\ \/ \E s \in {"none", "waiting", "dead"} : GoTo(c, s, NoTask)
         \/ /\ at[c] \in {"handling", "acking"}
            /\ \E s \in {"acking", "rejecting"} : GoTo(c, s, hand[c])
  BY DEF HandlerReturns, HandlerRaises, Acknowledge, AcknowledgeFails, Reject, RejectFails, Unwind
<1>2. ClientInv'
  BY <1>1, LoopKeepsClients
<1>3. at[c] \in {"handling", "acking", "rejecting"} => hand[c] \in Tasks
  BY DEF IInv, TypeOK
<1>4. Waiting' = Waiting /\ Held' \subseteq Held
  BY <1>1 DEF IInv, TypeOK, LoopOnly, GoTo, Waiting, Held
<1>5. TypeOK'
  BY <1>1, <1>3, ProcessAssumption
     DEF IInv, TypeOK, LoopOnly, GoTo, clients, ghosts, HandlerReturns, HandlerRaises,
         Acknowledge, AcknowledgeFails, Reject, RejectFails, Unwind
<1>6. Begun' \subseteq Begun
  <2>1. \/ UNCHANGED ghosts
        \/ /\ at[c] = "handling" /\ hand[c] \in Held
           /\ returned' \union raised' \subseteq returned \union raised \union {hand[c]}
    BY <1>3, ProcessAssumption
       DEF Held, HandlerReturns, HandlerRaises, Acknowledge, AcknowledgeFails, Reject, RejectFails,
           Unwind, ghosts
  <2> QED
    BY <1>4, <2>1 DEF Begun, ghosts
<1>7. PlaceInv'
  BY <1>1, <1>4, <1>6 DEF IInv, PlaceInv, LoopOnly
<1>8. RecordInv'
  <2>1. \A t \in Tasks : row'[t] = "none" => row[t] = "none"
    BY <1>3 DEF IInv, TypeOK, HandlerReturns, HandlerRaises,
         Acknowledge, AcknowledgeFails, Reject, RejectFails, Unwind
  <2>2. \A t \in Tasks : row'[t] = "completed" => t \in returned'
    BY <1>3 DEF IInv, TypeOK, RecordInv, ghosts, HandlerReturns, HandlerRaises,
         Acknowledge, AcknowledgeFails, Reject, RejectFails, Unwind
  <2>3. \A d \in Consumers : at'[d] = "acking" => hand'[d] \in returned'
    BY DEF IInv, TypeOK, RecordInv, GoTo, ghosts, HandlerReturns, HandlerRaises,
         Acknowledge, AcknowledgeFails, Reject, RejectFails, Unwind
  <2> QED
    BY <1>4, <1>6, <2>1, <2>2, <2>3 DEF IInv, RecordInv
<1> QED
  BY <1>2, <1>5, <1>7, <1>8 DEF IInv

\* Every step preserves the invariant.
LEMMA StepIInv == IInv /\ [Next]_vars => IInv'
<1> SUFFICES ASSUME IInv, [Next]_vars PROVE IInv'
  OBVIOUS
<1>1. CASE UNCHANGED vars
  <2>1. UNCHANGED <<row, memory, ghosts>>
    BY <1>1 DEF vars, process, memory, ghosts
  <2> QED
    BY <1>1, <2>1, TasksUntouched
       DEF IInv, TypeOK, ClientInv, vars, process, clients, memory, ghosts
<1>2. CASE CloseSession \/ NotAuthorised \/ Crash
  BY <1>2, GoneKeeps DEF CloseSession, NotAuthorised, Crash
<1>3. CASE Next
  BY <1>2, <1>3, MainKeeps, StartModelKeeps, QueueKeeps, TakeKeeps, HandKeeps
     DEF Next, MainStep, LoopStep
<1> QED
  BY <1>1, <1>3

\* The invariant holds throughout.
LEMMA AlwaysIInv == Spec => []IInv
BY InitIInv, StepIInv, PTL DEF Spec

--------------------------------------------------------------------------------
(***************************************************************************)
(* The theorems.                                                           *)
(***************************************************************************)

\* The state keeps its type: a queue never holds more than its places, a loop holds a task
\* exactly while it is busy with one (broker.py, main.py).
THEOREM TypeCorrect == Spec => []TypeOK
BY AlwaysIInv, PTL DEF IInv

\* No accepted task is without its row, and COMPLETED is true (broker.py).
THEOREM TasksAreRecorded == Spec => []UnfinishedIsRecorded
<1>1. IInv => UnfinishedIsRecorded
  BY DEF IInv, RecordInv, UnfinishedIsRecorded, Waiting, Begun
<1> QED
  BY <1>1, AlwaysIInv, PTL

\* A handler never runs without its clients (main.py).
THEOREM ClientsAreOpen == Spec => []ClientsOutliveHandlers
<1>1. IInv => ClientsOutliveHandlers
  BY DEF IInv, ClientInv, ClientsOutliveHandlers
<1> QED
  BY <1>1, AlwaysIInv, PTL

\* No task is handled twice, by no rejection, restart or crash (broker.py).
THEOREM HandledOnce == Spec => HandledAtMostOnce
<1> DEFINE Fresh == \A c \in Consumers, t \in Tasks :
                      hand[c] # t /\ hand'[c] = t => t \notin Held \union returned \union raised
<1>1. IInv /\ [Next]_vars => [Fresh]_vars
  <2> SUFFICES ASSUME IInv, Next PROVE Fresh
    BY DEF vars
  <2>1. CASE \E c \in Consumers : Take(c)
    <3> PICK c \in Consumers : Take(c)
      BY <2>1
    <3>1. queue \in Seq(Tasks) /\ queue # <<>> /\ hand' = [hand EXCEPT ![c] = Head(queue)]
      BY DEF IInv, TypeOK, Take, GoTo
    <3>2. Head(queue) \in Range(queue)
      BY <3>1, Taken
    <3>3. Head(queue) \notin Begun
      BY <3>2 DEF IInv, PlaceInv, Waiting
    <3> QED
      BY <3>1, <3>3 DEF IInv, TypeOK, Begun
  <2>2. CASE \E c \in Consumers : \E s : GoTo(c, s, NoTask) \/ GoTo(c, s, hand[c])
    BY <2>2, ProcessAssumption DEF IInv, TypeOK, GoTo
  <2>3. CASE hand' = hand \/ Gone
    BY <2>3, ProcessAssumption DEF Gone
  <2> QED
    BY <2>1, <2>2, <2>3
       DEF Next, MainStep, LoopStep, Start, Connect, StartBot, StartModel, CancelTasks, DryRunEnds,
           CloseBot, CloseModel, CloseSession, NotAuthorised, Signal, Crash, Enqueue,
           EnqueueElsewhere, EnqueueDelayed, TimerFires, Put, HandlerReturns, HandlerRaises,
           Acknowledge, AcknowledgeFails, Reject, RejectFails, Unwind, process, memory
<1> QED
  BY <1>1, AlwaysIInv, PTL DEF Spec, HandledAtMostOnce

--------------------------------------------------------------------------------
(***************************************************************************)
(* The life of a task.  The queue's steps accept, begin and finish one     *)
(* task at a time, the main coroutine's steps none, until it is gone.      *)
(***************************************************************************)

\* No two loops hold one task, and there are no buttons without a process.
LoneInv ==
  /\ \A c, d \in Consumers : hand[c] = hand[d] /\ hand[c] # NoTask => c = d
  /\ main = "down" => ~ bot

LEMMA LoneNext == IInv /\ LoneInv /\ [Next]_vars => LoneInv'
<1> SUFFICES ASSUME IInv, LoneInv, [Next]_vars PROVE LoneInv'
  OBVIOUS
<1> USE DEF LoneInv
<1>0. hand \in [Consumers -> Tasks \union {NoTask}]
  BY DEF IInv, TypeOK
<1>1. CASE \E c \in Consumers : Take(c)
  <2> PICK c \in Consumers : Take(c)
    BY <1>1
  <2>1. /\ queue \in Seq(Tasks) /\ queue # <<>>
        /\ hand' = [hand EXCEPT ![c] = Head(queue)] /\ main' = main /\ bot' = bot
    BY DEF IInv, TypeOK, Take, GoTo, LoopOnly, clients
  <2>2. Head(queue) \notin Held /\ Head(queue) \in Tasks
    BY <2>1, Taken DEF IInv, PlaceInv, Waiting, Begun
  <2>3. \A d \in Consumers : hand[d] # Head(queue)
    BY <2>2, ProcessAssumption DEF Held
  <2> QED
    BY <1>0, <2>1, <2>3
<1>2. CASE \E c \in Consumers :
             \/ HandlerReturns(c) \/ HandlerRaises(c) \/ Acknowledge(c) \/ AcknowledgeFails(c)
             \/ Reject(c) \/ RejectFails(c) \/ Unwind(c)
  <2>1. /\ \E c \in Consumers : hand' = hand \/ hand' = [hand EXCEPT ![c] = NoTask]
        /\ main' = main /\ bot' = bot
    BY <1>0, <1>2 DEF HandlerReturns, HandlerRaises, Acknowledge, AcknowledgeFails, Reject, RejectFails,
           Unwind, GoTo, LoopOnly, clients
  <2> QED
    BY <1>0, <2>1
<1>3. CASE UNCHANGED vars \/ \E t \in Tasks :
             Enqueue(t) \/ EnqueueElsewhere(t) \/ EnqueueDelayed(t) \/ TimerFires(t) \/ Put(t)
  BY <1>3 DEF Enqueue, EnqueueElsewhere, EnqueueDelayed, TimerFires, Put, vars, process, memory, clients
<1>4. CASE \/ \E p \in Programs : Start(p)
           \/ MainStep \/ NotAuthorised \/ Signal \/ Crash
  <2>1. CASE Gone
    BY <1>0, <2>1 DEF Gone
  <2>2. CASE main' # "down" /\ hand' = hand
    BY <2>2
  <2> QED
    BY <1>4, <2>1, <2>2, ProcessAssumption
       DEF IInv, TypeOK, MainStep, Start, Connect, StartBot, StartModel, CancelTasks, DryRunEnds,
           CloseBot, CloseModel, CloseSession, NotAuthorised, Signal, Crash, memory
<1> QED
  BY <1>1, <1>2, <1>3, <1>4 DEF Next, LoopStep

LEMMA AlwaysLone == Spec => []LoneInv
<1>1. Init => LoneInv
  BY DEF Init, LoneInv
<1> QED
  BY <1>1, LoneNext, AlwaysIInv, PTL DEF Spec

Accepted == {t \in Tasks : row[t] # "none"}

LEMMA LifeInit == Init => Life!Init
BY DEF Init, Life!Init, Held, Range

LEMMA LifeNext ==
  IInv /\ LoneInv /\ [Next]_vars => [Life!Next]_<<main # "down", Accepted, Waiting, Held>>
<1> SUFFICES ASSUME IInv, LoneInv, [Next]_vars
             PROVE  [Life!Next]_<<main # "down", Accepted, Waiting, Held>>
  OBVIOUS
<1>0. /\ row \in [Tasks -> {"none", "pending", "completed", "failed"}]
      /\ hand \in [Consumers -> Tasks \union {NoTask}] /\ queue \in Seq(Tasks)
      /\ Waiting \subseteq Accepted
      /\ \A c \in Consumers : at[c] \in {"handling", "acking", "rejecting"} => hand[c] \in Tasks
  BY DEF IInv, TypeOK, RecordInv, Accepted
<1> USE DEF Life!Next
<1>1. ASSUME NEW t \in Tasks, Enqueue(t) \/ EnqueueDelayed(t)
      PROVE  Life!Accept(t)
  <2>1. main # "down" /\ main' = main
    BY <1>1 DEF IInv, ClientInv, LoneInv, Enqueue, EnqueueDelayed
  <2>2. t \notin Accepted /\ Accepted' = Accepted \union {t}
    BY <1>0, <1>1 DEF Enqueue, EnqueueDelayed, Accepted
  <2>3. Waiting' = Waiting \union {t} /\ Held' = Held
    BY <1>1 DEF Enqueue, EnqueueDelayed, Waiting, Held
  <2> QED
    BY <2>1, <2>2, <2>3 DEF Life!Accept, Accepted, Waiting
<1>2. ASSUME NEW t \in Tasks, EnqueueElsewhere(t)
      PROVE  Life!AcceptElsewhere(t)
  <2>1. t \notin Accepted /\ Accepted' = Accepted \union {t}
    BY <1>0, <1>2 DEF EnqueueElsewhere, Accepted
  <2>2. Waiting' = Waiting /\ Held' = Held /\ main' = main
    BY <1>2 DEF EnqueueElsewhere, process, memory, Waiting, Held
  <2> QED
    BY <2>1, <2>2 DEF Life!AcceptElsewhere, Accepted, Waiting
<1>3. ASSUME NEW t \in Tasks, TimerFires(t) \/ Put(t)
      PROVE  UNCHANGED <<main, Accepted, Waiting, Held>>
  <2>1. row' = row /\ main' = main /\ hand' = hand
    BY <1>3 DEF TimerFires, Put
  <2>2. CASE TimerFires(t)
    BY <2>1, <2>2 DEF TimerFires, Waiting, Held, Accepted
  <2>3. CASE Put(t)
    <3>1. Range(queue') = Range(queue) \union {t}
      BY <1>0, <2>3, Appended DEF Put
    <3> QED
      BY <2>1, <2>3, <3>1 DEF Put, Waiting, Held, Accepted
  <2> QED
    BY <1>3, <2>2, <2>3
<1>4. ASSUME NEW c \in Consumers, Take(c) PROVE Life!Begin(Head(queue)) /\ Head(queue) \in Tasks
  <2>1. /\ queue # <<>> /\ hand[c] = NoTask /\ queue' = Tail(queue)
        /\ hand' = [hand EXCEPT ![c] = Head(queue)]
        /\ timers' = timers /\ putting' = putting /\ main' = main /\ row' = row
    BY <1>4 DEF IInv, TypeOK, Take, GoTo, LoopOnly
  <2>2. /\ Head(queue) \in Tasks /\ Range(queue) = Range(Tail(queue)) \union {Head(queue)}
        /\ Head(queue) \notin Range(Tail(queue))
    BY <1>0, <2>1, Taken DEF IInv, PlaceInv
  <2>3. Head(queue) \in Waiting /\ Head(queue) \notin Held
    BY <2>2 DEF IInv, PlaceInv, Waiting, Begun
  <2>4. Waiting' = Waiting \ {Head(queue)}
    BY <2>1, <2>2 DEF IInv, PlaceInv, Waiting
  <2>5. Held' = Held \union {Head(queue)}
    BY <1>0, <2>1, <2>2, ProcessAssumption DEF Held
  <2>6. Accepted' = Accepted
    BY <2>1 DEF Accepted
  <2> QED
    BY <2>1, <2>2, <2>3, <2>4, <2>5, <2>6 DEF Life!Begin, Accepted, Waiting
<1>5. ASSUME NEW c \in Consumers,
             \/ HandlerReturns(c) \/ HandlerRaises(c) \/ Acknowledge(c) \/ AcknowledgeFails(c)
             \/ Reject(c) \/ RejectFails(c) \/ Unwind(c)
      PROVE  [Life!Next]_<<main # "down", Accepted, Waiting, Held>>
  <2>1. /\ main' = main /\ Waiting' = Waiting
        /\ hand' = hand \/ hand' = [hand EXCEPT ![c] = NoTask]
    BY <1>0, <1>5 DEF HandlerReturns, HandlerRaises, Acknowledge, AcknowledgeFails, Reject, RejectFails,
           Unwind, GoTo, LoopOnly, Waiting
  <2>2. Accepted' = Accepted
    <3>1. CASE Acknowledge(c) \/ Reject(c)
      <4>1. hand[c] \in Accepted
        BY <1>0, <3>1, ProcessAssumption DEF Acknowledge, Reject, IInv, RecordInv, Begun, Held, Accepted
      <4>2. \E s \in {"completed", "failed", row[hand[c]]} : row' = [row EXCEPT ![hand[c]] = s]
        BY <3>1 DEF Acknowledge, Reject
      <4> QED
        BY <1>0, <4>1, <4>2 DEF Accepted
    <3>2. CASE row' = row
      BY <3>2 DEF Accepted
    <3> QED
      BY <1>5, <3>1, <3>2 DEF HandlerReturns, HandlerRaises, AcknowledgeFails, RejectFails, Unwind
  <2>3. CASE hand' = hand \/ hand[c] = NoTask
    <3>1. Held' = Held
      BY <1>0, <2>1, <2>3 DEF Held
    <3> QED
      BY <2>1, <2>2, <3>1
  <2>4. CASE hand' = [hand EXCEPT ![c] = NoTask] /\ hand[c] # NoTask
    <3>1. hand[c] \in Held /\ Held' = Held \ {hand[c]} /\ hand[c] \in Tasks
      BY <1>0, <2>4, ProcessAssumption DEF Held, LoneInv
    <3>2. Life!Finish(hand[c])
      BY <2>1, <2>2, <3>1 DEF Life!Finish, Accepted, Waiting
    <3> QED
      BY <3>1, <3>2
  <2> QED
    BY <2>1, <2>3, <2>4
<1>6. ASSUME CloseSession \/ NotAuthorised \/ Crash PROVE Life!Stop
  <2>1. main # "down" /\ main' = "down" /\ Waiting' = {} /\ Held' = {} /\ row' = row
    BY <1>6 DEF CloseSession, NotAuthorised, Crash, Gone, Waiting, Held, Range
  <2> QED
    BY <2>1 DEF Life!Stop, Waiting
<1>7. ASSUME NEW p \in Programs, Start(p) PROVE Life!Start
  <2>1. main = "down" /\ main' # "down" /\ UNCHANGED <<row, Waiting, Held>>
    BY <1>7 DEF Start, memory, Waiting, Held
  <2> QED
    BY <2>1 DEF Life!Start, Waiting
<1>8. ASSUME \/ Connect \/ StartBot \/ StartModel \/ CancelTasks \/ DryRunEnds \/ CloseBot
             \/ CloseModel \/ Signal
      PROVE  UNCHANGED <<main # "down", Accepted, Waiting, Held>>
  <2>1. UNCHANGED <<row, queue, timers, putting, hand>> /\ main # "down" /\ main' # "down"
    BY <1>8, ProcessAssumption
       DEF IInv, TypeOK, Connect, StartBot, StartModel, CancelTasks, DryRunEnds, CloseBot, CloseModel,
           Signal, memory
  <2> QED
    BY <2>1 DEF Accepted, Waiting, Held
<1>9. CASE UNCHANGED vars
  BY <1>9 DEF vars, process, memory, Accepted, Waiting, Held
<1> QED
  BY <1>1, <1>2, <1>3, <1>4, <1>5, <1>6, <1>7, <1>8, <1>9 DEF Next, MainStep, LoopStep

\* The broker implements the life of a task: in any process, for any number of tasks, loops,
\* signals, crashes and failing transactions.
THEOREM TasksLive == Spec => LifeKept
BY LifeInit, LifeNext, AlwaysIInv, AlwaysLone, PTL
   DEF Spec, LifeKept, Life!Spec, Accepted, Waiting

================================================================================
