--------------------------------- MODULE RunAll ---------------------------------
(***************************************************************************)
(* The life of a process of the program: run-all, a worker of              *)
(* scripts/run_worker.py, the dry run and auth.  It opens its clients,     *)
(* serves, is signalled or crashes, closes what it opened, and may be      *)
(* started again; the database outlives it.                                *)
(*                                                                         *)
(* With it goes AsyncioQueueBroker in full: the row a task has in          *)
(* idempotency_keys, the queue, the timers, the consumers' inner loops.    *)
(* What a handler does is in the other modules; here it returns or raises. *)
(***************************************************************************)
EXTENDS Naturals, Sequences

CONSTANTS
  Tasks,
  NoTask,
  Consumers,    \* consumers of run-all's queue, one inner loop each
  Programs,     \* what may be started
  QueueCap,     \* places in the queue, 1024 in the code
  MaxAttempts,  \* Task.max_attempts, 5 in the code
  MaxStarts,    \* bound: starts of a process
  MaxFaults     \* bound: failing transactions of the broker

ASSUME ProcessAssumption ==
  /\ NoTask \notin Tasks
  /\ Programs \subseteq {"run_all", "run_worker", "run_dry", "auth"}
  /\ QueueCap \in Nat \ {0}
  /\ MaxAttempts \in Nat /\ MaxStarts \in Nat /\ MaxFaults \in Nat

VARIABLES
  \* the database
  row,        \* idempotency_keys.state of the task
  \* the process
  program,
  main,       \* what its main coroutine does next, or "down"
  session,    \* whether the outreach account's client is connected
  bot,        \* ... the management bot's
  model,      \* ... the model's
  signalled,  \* stop_event
  cancelled,  \* the inner loops have been cancelled
  queue,
  timers,     \* tasks of call_later
  putting,    \* tasks whose put has not found a place yet
  at,         \* where each inner loop stands
  hand,       \* the task it handles
  \* what happened, which the program does not know
  returned,   \* tasks whose handler has returned
  raised,     \* tasks whose handler has raised
  \* the bounded environment
  starts, faults

clients == <<session, bot, model>>
memory  == <<queue, timers, putting, at, hand>>
ghosts  == <<returned, raised>>
process == <<program, main, clients, signalled, cancelled, memory>>
vars    == <<row, process, ghosts, starts, faults>>

Range(s) == {s[k] : k \in DOMAIN s}
Held     == {hand[c] : c \in Consumers} \ {NoTask}

TypeOK ==
  /\ row \in [Tasks -> {"none", "pending", "completed", "failed"}]
  /\ program \in Programs
  /\ main \in {"down", "connect", "start_bot", "start_model", "serve",
               "close_bot", "close_model", "close_session"}
  /\ session \in BOOLEAN /\ bot \in BOOLEAN /\ model \in BOOLEAN
  /\ signalled \in BOOLEAN /\ cancelled \in BOOLEAN
  /\ queue \in Seq(Tasks) /\ Len(queue) <= QueueCap
  /\ timers \subseteq Tasks /\ putting \subseteq Tasks
  /\ at \in [Consumers -> {"none", "waiting", "handling", "acking", "rejecting", "dead"}]
  /\ hand \in [Consumers -> Tasks \union {NoTask}]
  /\ \A c \in Consumers : hand[c] # NoTask <=> at[c] \in {"handling", "acking", "rejecting"}
  /\ returned \subseteq Tasks /\ raised \subseteq Tasks
  /\ starts \in 0 .. MaxStarts /\ faults \in 0 .. MaxFaults

Init ==
  /\ row = [t \in Tasks |-> "none"]
  /\ program \in Programs /\ main = "down"
  /\ session = FALSE /\ bot = FALSE /\ model = FALSE
  /\ signalled = FALSE /\ cancelled = FALSE
  /\ queue = <<>> /\ timers = {} /\ putting = {}
  /\ at = [c \in Consumers |-> "none"]
  /\ hand = [c \in Consumers |-> NoTask]
  /\ returned = {} /\ raised = {}
  /\ starts = 0 /\ faults = 0

--------------------------------------------------------------------------------
(***************************************************************************)
(* The main coroutine.                                                     *)
(***************************************************************************)

\* Nothing of a process is left when it ends; the operating system closes its clients.
Gone ==
  /\ main' = "down"
  /\ session' = FALSE /\ bot' = FALSE /\ model' = FALSE
  /\ signalled' = FALSE /\ cancelled' = FALSE
  /\ queue' = <<>> /\ timers' = {} /\ putting' = {}
  /\ at' = [c \in Consumers |-> "none"]
  /\ hand' = [c \in Consumers |-> NoTask]

\* Nothing is read back from idempotency_keys: recover_pending has no caller.
Start(p) ==
  /\ main = "down" /\ starts < MaxStarts
  /\ starts' = starts + 1
  /\ program' = p
  /\ main' = "connect"
  /\ UNCHANGED <<row, clients, signalled, cancelled, memory, ghosts, faults>>

Connect ==
  /\ main = "connect"
  /\ session' = TRUE
  /\ main' = CASE program = "run_all"    -> "start_bot"
               [] program = "run_worker" -> "start_model"
               [] program = "run_dry"    -> "serve"
               [] program = "auth"       -> "close_session"
  /\ UNCHANGED <<row, program, bot, model, signalled, cancelled, memory, ghosts, starts, faults>>

\* A session nobody has authorised ends the process, auth as well, which never asks for
\* the code.
NotAuthorised ==
  /\ main = "connect"
  /\ Gone
  /\ UNCHANGED <<row, program, ghosts, starts, faults>>

\* The bot is not configured, or its start failed: the rest runs without it.
StartBot ==
  /\ main = "start_bot"
  /\ bot' \in BOOLEAN
  /\ main' = "start_model"
  /\ UNCHANGED <<row, program, session, model, signalled, cancelled, memory, ghosts, starts, faults>>

Loops(p) == IF p = "run_all" THEN Consumers ELSE {CHOOSE c \in Consumers : TRUE}

StartModel ==
  /\ main = "start_model"
  /\ model' = TRUE
  /\ main' = "serve"
  /\ at' = [c \in Consumers |-> IF c \in Loops(program) THEN "waiting" ELSE "none"]
  /\ UNCHANGED <<row, program, session, bot, signalled, cancelled, queue, timers, putting, hand,
                 ghosts, starts, faults>>

Signal ==
  /\ main = "serve" /\ program \in {"run_all", "run_worker"} /\ ~ signalled
  /\ signalled' = TRUE
  /\ UNCHANGED <<row, program, main, clients, cancelled, memory, ghosts, starts, faults>>

\* Mutant: the inner loops are not cancelled with the tasks that wait for them.
LeaveLoops ==
  /\ main = "serve" /\ program = "run_all" /\ signalled
  /\ main' = "close_bot"
  /\ UNCHANGED <<row, program, clients, signalled, cancelled, memory, ghosts, starts, faults>>

\* Only run-all waits for its event.  The inner loops are cancelled and not waited for.
CancelTasks ==
  /\ main = "serve" /\ program = "run_all" /\ signalled
  /\ cancelled' = TRUE
  /\ main' = "close_bot"
  /\ UNCHANGED <<row, program, clients, signalled, memory, ghosts, starts, faults>>

\* The one scan of a dry run is over, or it has raised.
DryRunEnds ==
  /\ main = "serve" /\ program = "run_dry"
  /\ main' = "close_session"
  /\ UNCHANGED <<row, program, clients, signalled, cancelled, memory, ghosts, starts, faults>>

CloseBot ==
  /\ main = "close_bot"
  /\ bot' = FALSE
  /\ main' = "close_model"
  /\ UNCHANGED <<row, program, session, model, signalled, cancelled, memory, ghosts, starts, faults>>

CloseModel ==
  /\ main = "close_model"
  /\ model' = FALSE
  /\ main' = "close_session"
  /\ UNCHANGED <<row, program, session, bot, signalled, cancelled, memory, ghosts, starts, faults>>

\* With the main coroutine the event loop ends, and all that still unwinds in it.
CloseSession ==
  /\ main = "close_session"
  /\ Gone
  /\ UNCHANGED <<row, program, ghosts, starts, faults>>

Crash ==
  /\ main # "down"
  /\ Gone
  /\ UNCHANGED <<row, program, ghosts, starts, faults>>

--------------------------------------------------------------------------------
(***************************************************************************)
(* The queue.                                                              *)
(***************************************************************************)

\* An operator's button: the task's row is committed before the task is put.
Enqueue(t) ==
  /\ bot /\ row[t] = "none"
  /\ row' = [row EXCEPT ![t] = "pending"]
  /\ putting' = putting \union {t}
  /\ UNCHANGED <<program, main, clients, signalled, cancelled, queue, timers, at, hand, ghosts,
                 starts, faults>>

\* The command line approves in a process of its own, which has no consumer and ends.
EnqueueElsewhere(t) ==
  /\ row[t] = "none"
  /\ row' = [row EXCEPT ![t] = "pending"]
  /\ UNCHANGED <<process, ghosts, starts, faults>>

\* Mutant: a delayed task gets its row when it is due.
DelayUnrecorded(t) ==
  /\ ~ cancelled /\ \E c \in Consumers : at[c] = "handling"
  /\ row[t] = "none"
  /\ timers' = timers \union {t}
  /\ UNCHANGED <<row, program, main, clients, signalled, cancelled, queue, putting, at, hand,
                 ghosts, starts, faults>>

\* The handler of a send that Telegram asked to wait.
EnqueueDelayed(t) ==
  /\ ~ cancelled /\ \E c \in Consumers : at[c] = "handling"
  /\ row[t] = "none"
  /\ row' = [row EXCEPT ![t] = "pending"]
  /\ timers' = timers \union {t}
  /\ UNCHANGED <<program, main, clients, signalled, cancelled, queue, putting, at, hand, ghosts,
                 starts, faults>>

TimerFires(t) ==
  /\ t \in timers
  /\ timers' = timers \ {t}
  /\ putting' = putting \union {t}
  /\ UNCHANGED <<row, program, main, clients, signalled, cancelled, queue, at, hand, ghosts,
                 starts, faults>>

\* Mutant: a put does not wait for a place.
PutAnyway(t) ==
  /\ t \in putting
  /\ putting' = putting \ {t}
  /\ queue' = Append(queue, t)
  /\ UNCHANGED <<row, program, main, clients, signalled, cancelled, timers, at, hand, ghosts,
                 starts, faults>>

Put(t) ==
  /\ t \in putting /\ Len(queue) < QueueCap
  /\ putting' = putting \ {t}
  /\ queue' = Append(queue, t)
  /\ UNCHANGED <<row, program, main, clients, signalled, cancelled, timers, at, hand, ghosts,
                 starts, faults>>

--------------------------------------------------------------------------------
(***************************************************************************)
(* An inner loop of consume.                                               *)
(***************************************************************************)
LoopOnly == UNCHANGED <<program, main, clients, signalled, cancelled, timers, putting, starts>>

GoTo(c, s, t) ==
  /\ at' = [at EXCEPT ![c] = s]
  /\ hand' = [hand EXCEPT ![c] = t]

Take(c) ==
  /\ at[c] = "waiting" /\ ~ cancelled /\ queue # <<>>
  /\ GoTo(c, "handling", Head(queue))
  /\ queue' = Tail(queue)
  /\ LoopOnly /\ UNCHANGED <<row, ghosts, faults>>

HandlerReturns(c) ==
  /\ at[c] = "handling" /\ ~ cancelled
  /\ GoTo(c, "acking", hand[c])
  /\ returned' = returned \union {hand[c]}
  /\ LoopOnly /\ UNCHANGED <<row, queue, raised, faults>>

HandlerRaises(c) ==
  /\ at[c] = "handling" /\ ~ cancelled
  /\ GoTo(c, "rejecting", hand[c])
  /\ raised' = raised \union {hand[c]}
  /\ LoopOnly /\ UNCHANGED <<row, queue, returned, faults>>

Acknowledge(c) ==
  /\ at[c] = "acking" /\ ~ cancelled
  /\ row' = [row EXCEPT ![hand[c]] = "completed"]
  /\ GoTo(c, "waiting", NoTask)
  /\ LoopOnly /\ UNCHANGED <<queue, ghosts, faults>>

\* It is called in the try of the handler.
AcknowledgeFails(c) ==
  /\ at[c] = "acking" /\ ~ cancelled /\ faults < MaxFaults
  /\ faults' = faults + 1
  /\ GoTo(c, "rejecting", hand[c])
  /\ LoopOnly /\ UNCHANGED <<row, queue, ghosts>>

\* Task.attempt stays 0: nothing counts it.
Requeue == 0 + 1 < MaxAttempts

\* Mutant: what is rejected is put into the queue again.
RejectRequeues(c) ==
  /\ at[c] = "rejecting" /\ ~ cancelled
  /\ queue' = IF Requeue /\ Len(queue) < QueueCap THEN Append(queue, hand[c]) ELSE queue
  /\ GoTo(c, "waiting", NoTask)
  /\ LoopOnly /\ UNCHANGED <<row, ghosts, faults>>

\* Mutant: an error of the handler ends the loop.
RejectDies(c) ==
  /\ at[c] = "rejecting" /\ ~ cancelled
  /\ GoTo(c, "dead", NoTask)
  /\ LoopOnly /\ UNCHANGED <<row, queue, ghosts, faults>>

\* To requeue is to count an attempt in the row, which stays PENDING.
Reject(c) ==
  /\ at[c] = "rejecting" /\ ~ cancelled
  /\ row' = [row EXCEPT ![hand[c]] = IF Requeue THEN @ ELSE "failed"]
  /\ GoTo(c, "waiting", NoTask)
  /\ LoopOnly /\ UNCHANGED <<queue, ghosts, faults>>

\* Nothing catches this error: the loop ends, consume waits on.
RejectFails(c) ==
  /\ at[c] = "rejecting" /\ ~ cancelled /\ faults < MaxFaults
  /\ faults' = faults + 1
  /\ GoTo(c, "dead", NoTask)
  /\ LoopOnly /\ UNCHANGED <<row, queue, ghosts>>

\* The cancellation is no Exception: neither acknowledged nor rejected.
Unwind(c) ==
  /\ cancelled /\ at[c] \notin {"none", "dead"}
  /\ GoTo(c, "none", NoTask)
  /\ LoopOnly /\ UNCHANGED <<row, queue, ghosts, faults>>

--------------------------------------------------------------------------------
MainStep ==
  \/ Connect \/ StartBot \/ StartModel \/ CancelTasks \/ DryRunEnds
  \/ CloseBot \/ CloseModel \/ CloseSession

LoopStep(c) ==
  \/ Take(c) \/ HandlerReturns(c) \/ HandlerRaises(c)
  \/ Acknowledge(c) \/ Reject(c) \/ Unwind(c)

Next ==
  \/ \E p \in Programs : Start(p)
  \/ MainStep \/ NotAuthorised \/ Signal \/ Crash
  \/ \E t \in Tasks :
       \/ Enqueue(t) \/ EnqueueElsewhere(t) \/ EnqueueDelayed(t) \/ TimerFires(t) \/ Put(t)
  \/ \E c \in Consumers : LoopStep(c) \/ AcknowledgeFails(c) \/ RejectFails(c)

\* What the event loop runs by itself: the main coroutine, the inner loops with handlers
\* that end, timers and puts.
Fairness ==
  /\ WF_vars(MainStep)
  /\ \A c \in Consumers : WF_vars(LoopStep(c))
  /\ \A t \in Tasks : WF_vars(TimerFires(t)) /\ WF_vars(Put(t))

Spec == Init /\ [][Next]_vars /\ Fairness

--------------------------------------------------------------------------------
(***************************************************************************)
(* What must hold.                                                         *)
(***************************************************************************)

\* Every task that was accepted and did not end well has a row that says so, whatever
\* process had it, in its queue, a timer or a handler, when it was stopped or crashed;
\* and what the process holds has a row (README, "pending keys can be inspected").
UnfinishedIsRecorded ==
  /\ Range(queue) \union timers \union putting \union Held
       \subseteq {t \in Tasks : row[t] # "none"}
  /\ \A t \in Tasks : row[t] = "completed" => t \in returned

\* A handler is started at most once for a task: neither a rejection nor a restart nor an
\* acknowledgement that failed runs it again (broker.py).
HandledAtMostOnce ==
  [][\A c \in Consumers, t \in Tasks :
       hand[c] # t /\ hand'[c] = t => t \notin Held \union returned \union raised]_vars

\* A task that waits is handled, once, or lost with the process: it is accepted for good,
\* waits in one place, and no rejection, signal or restart makes it wait again or drops it
\* (broker.py).
Life == INSTANCE TaskLife
          WITH up <- main # "down", accepted <- {t \in Tasks : row[t] # "none"},
               waiting <- Range(queue) \union timers \union putting, running <- Held

LifeKept == Life!Spec

\* While a handler runs its clients are open: the process closes them after the loops are
\* cancelled, although it does not wait for them (main.py, broker.py).
ClientsOutliveHandlers ==
  \A c \in Consumers : at[c] = "handling" /\ ~ cancelled => session /\ model

\* While the process serves and the broker's transactions succeed, a queued task is
\* handled, though other handlers raise and the queue is full (broker.py).
QueuedIsHandled ==
  \A t \in Tasks :
    t \in Range(queue) \union putting \union timers
      ~> t \in returned \union raised \/ signalled \/ main = "down" \/ faults > 0

================================================================================
