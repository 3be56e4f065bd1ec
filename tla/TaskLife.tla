-------------------------------- MODULE TaskLife --------------------------------
(***************************************************************************)
(* What a queue in the memory of one process makes of a task: it is        *)
(* accepted once, for good; it waits in the process that accepted it, or   *)
(* nowhere; it is begun once, and begun or waiting it is lost only with    *)
(* the whole process.                                                      *)
(***************************************************************************)
CONSTANT Tasks

VARIABLES
  up,        \* whether the process is there
  accepted,  \* tasks somebody accepted, in whatever process
  waiting,   \* those that wait in this one
  running    \* those that are handled in it

Init == up = FALSE /\ accepted = {} /\ waiting = {} /\ running = {}

Start ==
  /\ ~ up
  /\ up' = TRUE
  /\ UNCHANGED <<accepted, waiting, running>>

Accept(t) ==
  /\ up /\ t \notin accepted
  /\ accepted' = accepted \union {t}
  /\ waiting' = waiting \union {t}
  /\ UNCHANGED <<up, running>>

AcceptElsewhere(t) ==
  /\ t \notin accepted
  /\ accepted' = accepted \union {t}
  /\ UNCHANGED <<up, waiting, running>>

Begin(t) ==
  /\ t \in waiting \ running
  /\ waiting' = waiting \ {t}
  /\ running' = running \union {t}
  /\ UNCHANGED <<up, accepted>>

Finish(t) ==
  /\ t \in running
  /\ running' = running \ {t}
  /\ UNCHANGED <<up, accepted, waiting>>

Stop ==
  /\ up
  /\ up' = FALSE /\ waiting' = {} /\ running' = {}
  /\ UNCHANGED accepted

Next ==
  \/ Start \/ Stop
  \/ \E t \in Tasks : Accept(t) \/ AcceptElsewhere(t) \/ Begin(t) \/ Finish(t)

Spec == Init /\ [][Next]_<<up, accepted, waiting, running>>

================================================================================
