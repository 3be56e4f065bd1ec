--------------------------- MODULE OperatorDeskProofs ---------------------------
(***************************************************************************)
(* For any number of drafts, users, faults and restarts: TypeOK, and no    *)
(* button overturns a decision that was recorded before it was pressed.    *)
(***************************************************************************)
EXTENDS OperatorDesk, TLAPS

\* What is shown, or about to be, exists.
Shown(u, o) == open[u][o] > 0 \/ o \in listing[u] \/ notice[o][u] = "due"
ShownExists == \A u \in Users, o \in Drafts : Shown(u, o) => status[o] # "none"

\* A callback serves an operator and a card that has its buttons yet; when the draft
\* was decided before the press it is decided now, and will not be written.
Stands(u) ==
  press[u].was # "drafted" => at[u] # "commit" /\ status[press[u].draft] \in Decided
PressSound ==
  \A u \in Users : at[u] # "idle" =>
    /\ u \in allowed
    /\ press[u] \in Button
    /\ open[u][press[u].draft] > 0
    /\ Stands(u)

IInv == TypeOK /\ ShownExists /\ PressSound

\* Init establishes the invariant.
LEMMA InitIInv == Init => IInv
<1> SUFFICES ASSUME Init PROVE IInv
  OBVIOUS
<1> USE DeskAssumption
<1>1. TypeOK
  BY DEF Init, TypeOK
<1>2. ShownExists
  BY DEF Init, ShownExists, Shown
<1>3. PressSound
  BY DEF Init, PressSound
<1> QED
  BY <1>1, <1>2, <1>3 DEF IInv

\* Every step preserves it.
LEMMA StepIInv == IInv /\ [Next]_vars => IInv'
<1> SUFFICES ASSUME IInv, [Next]_vars PROVE IInv'
  OBVIOUS
<1> USE DeskAssumption DEF IInv
<1>1. ASSUME NEW o \in Drafts, NEW reachable \in BOOLEAN, Draft(o, reachable) PROVE IInv'
  <2>1. TypeOK'
    BY <1>1 DEF Draft, callback, TypeOK, Decided
  <2>2. ShownExists'
    BY <1>1 DEF Draft, callback, TypeOK, ShownExists, Shown
  <2>3. PressSound'
    BY <1>1 DEF Draft, callback, TypeOK, PressSound, Stands, Decided, Button
  <2> QED
    BY <2>1, <2>2, <2>3
<1>2. ASSUME NEW o \in Drafts, Announce(o) PROVE IInv'
  <2>1. TypeOK'
    BY <1>2 DEF Announce, callback, TypeOK
  <2>2. ShownExists'
    BY <1>2 DEF Announce, callback, TypeOK, ShownExists, Shown
  <2>3. PressSound'
    BY <1>2 DEF Announce, callback, PressSound, Stands
  <2> QED
    BY <2>1, <2>2, <2>3
<1>3. ASSUME NEW o \in Drafts, AnnounceFails(o) PROVE IInv'
  BY <1>3 DEF AnnounceFails, callback, Fault, TypeOK, ShownExists, Shown, PressSound, Stands
<1>4. ASSUME NEW o \in Drafts, NEW u \in Users, Tell(o, u) PROVE IInv'
  <2>1. TypeOK'
    BY <1>4 DEF Tell, callback, MoreCards, TypeOK
  <2>2. ShownExists'
    BY <1>4 DEF Tell, callback, MoreCards, TypeOK, ShownExists, Shown
  <2>3. PressSound'
    BY <1>4 DEF Tell, callback, MoreCards, TypeOK, PressSound, Stands, Button
  <2> QED
    BY <2>1, <2>2, <2>3
<1>5. ASSUME NEW o \in Drafts, NEW u \in Users, TellFails(o, u) PROVE IInv'
  <2>1. TypeOK'
    BY <1>5 DEF TellFails, callback, Fault, TypeOK
  <2>2. ShownExists'
    BY <1>5 DEF TellFails, callback, TypeOK, ShownExists, Shown
  <2>3. PressSound'
    BY <1>5 DEF TellFails, callback, PressSound, Stands
  <2> QED
    BY <2>1, <2>2, <2>3
<1>6. ASSUME NEW u \in Users, AskPending(u) PROVE IInv'
  <2> PICK P \in Pages : listing' = [listing EXCEPT ![u] = P]
    BY <1>6 DEF AskPending
  <2>0. P \subseteq Drafts /\ \A o \in P : status[o] = "drafted"
    BY DEF Pages, Drafted
  <2>1. TypeOK'
    BY <1>6, <2>0 DEF AskPending, callback, TypeOK
  <2>2. ShownExists'
    BY <1>6, <2>0 DEF AskPending, callback, TypeOK, ShownExists, Shown
  <2>3. PressSound'
    BY <1>6 DEF AskPending, callback, PressSound, Stands
  <2> QED
    BY <2>1, <2>2, <2>3
<1>7. ASSUME NEW u \in Users, ShowPending(u) PROVE IInv'
  <2> PICK o \in listing[u] : /\ listing' = [listing EXCEPT ![u] = @ \ {o}]
                              /\ MoreCards(u, o)
    BY <1>7 DEF ShowPending
  <2>0. o \in Drafts
    BY DEF TypeOK
  <2>1. TypeOK'
    BY <1>7, <2>0 DEF ShowPending, callback, MoreCards, TypeOK
  <2>2. ShownExists'
    BY <1>7, <2>0 DEF ShowPending, callback, MoreCards, TypeOK, ShownExists, Shown
  <2>3. PressSound'
    BY <1>7, <2>0 DEF ShowPending, callback, MoreCards, TypeOK, PressSound, Stands, Button
  <2> QED
    BY <2>1, <2>2, <2>3
<1>8. ASSUME NEW u \in Users, ShowFails(u) PROVE IInv'
  BY <1>8 DEF ShowFails, callback, Fault, TypeOK, ShownExists, Shown, PressSound, Stands
<1>9. ASSUME NEW u \in Users, NEW o \in Drafts, NEW kind \in Kinds, Press(u, o, kind)
      PROVE IInv'
  <2>0. status[o] \in {"drafted"} \union Decided
    BY <1>9 DEF Press, Serve, TypeOK, ShownExists, Shown
  <2>1. TypeOK'
    BY <1>9, <2>0 DEF Press, Serve, TypeOK, Button, Kinds, Decided, OutreachStatus
  <2>2. ShownExists'
    BY <1>9 DEF Press, Serve, ShownExists, Shown
  <2>3. press'[u] \in Button /\ press'[u].draft = o /\ press'[u].was = status[o]
        /\ at'[u] = "read" /\ u \in allowed /\ open[u][o] > 0
    BY <1>9, <2>0 DEF Press, Serve, TypeOK, Button
  <2>4. \A v \in Users \ {u} : press'[v] = press[v] /\ at'[v] = at[v]
    BY <1>9 DEF Press, Serve, TypeOK
  <2>5. PressSound'
    BY <1>9, <2>0, <2>3, <2>4 DEF Press, Serve, PressSound, Stands
  <2> QED
    BY <2>1, <2>2, <2>5
<1>10. ASSUME NEW u \in Users, CallbackReads(u) PROVE IInv'
  <2>0. press[u] \in Button
    BY <1>10 DEF CallbackReads, PressSound
  <2>1. TypeOK'
    BY <1>10, <2>0 DEF CallbackReads, GoTo, Ends, TypeOK, Button
  <2>2. ShownExists'
    BY <1>10 DEF CallbackReads, ShownExists, Shown
  <2>3. status[press[u].draft] \in Decided => ~ CanMoveOutreach(status[press[u].draft], press[u].kind)
    BY <2>0 DEF Button, Kinds, Decided, CanMoveOutreach, OutreachTable
  <2>4. PressSound'
    BY <1>10, <2>0, <2>3 DEF CallbackReads, GoTo, Ends, TypeOK, PressSound, Stands, Button
  <2> QED
    BY <2>1, <2>2, <2>4
<1>11. ASSUME NEW u \in Users, CallbackCommits(u) PROVE IInv'
  <2>0. press[u] \in Button
    BY <1>11 DEF CallbackCommits, PressSound
  <2>1. TypeOK'
    BY <1>11, <2>0 DEF CallbackCommits, TypeOK, Button, Kinds
  <2>2. ShownExists'
    BY <1>11, <2>0 DEF CallbackCommits, TypeOK, ShownExists, Shown, Button, Kinds, Decided
  <2>3. PressSound'
    BY <1>11, <2>0 DEF CallbackCommits, TypeOK, PressSound, Stands, Button, Kinds, Decided, Button
  <2> QED
    BY <2>1, <2>2, <2>3
<1>12. ASSUME NEW u \in Users, CallbackAnswers(u) PROVE IInv'
  <2>0. press[u] \in Button /\ open[u][press[u].draft] > 0
    BY <1>12 DEF CallbackAnswers, PressSound
  <2>1. TypeOK'
    BY <1>12, <2>0 DEF CallbackAnswers, Ends, TypeOK, Button
  <2>2. ShownExists'
    BY <1>12, <2>0 DEF CallbackAnswers, TypeOK, ShownExists, Shown, Button
  <2>3. PressSound'
    BY <1>12, <2>0 DEF CallbackAnswers, Ends, TypeOK, PressSound, Stands, Button
  <2> QED
    BY <2>1, <2>2, <2>3
<1>13. ASSUME NEW u \in Users, CallbackFails(u) PROVE IInv'
  BY <1>13 DEF CallbackFails, Fault, Ends, TypeOK, ShownExists, Shown, PressSound, Stands
<1>14. ASSUME NEW users \in SUBSET Users, Restart(users) PROVE IInv'
  <2>1. TypeOK'
    BY <1>14 DEF Restart, Written, TypeOK
  <2>2. ShownExists'
    BY <1>14 DEF Restart, TypeOK, ShownExists, Shown
  <2>3. PressSound'
    BY <1>14 DEF Restart, PressSound
  <2> QED
    BY <2>1, <2>2, <2>3
<1>15. CASE UNCHANGED vars
  BY <1>15 DEF vars, callback, TypeOK, ShownExists, Shown, PressSound, Stands
<1> QED
  BY <1>1, <1>2, <1>3, <1>4, <1>5, <1>6, <1>7, <1>8, <1>9, <1>10, <1>11, <1>12,
     <1>13, <1>14, <1>15 DEF Next, Callback

\* The invariant holds throughout.
THEOREM DeskIsSound == Spec => []IInv
  BY InitIInv, StepIInv, PTL DEF Spec

\* The state stays in its type; above all, a chat never has fewer than no buttons, and
\* a callback always has the card it edits.
THEOREM TypeCorrect == Spec => []TypeOK
  BY DeskIsSound, PTL DEF IInv

--------------------------------------------------------------------------------
\* A step that changes a decided or drafted outreach is the commit of what a press that
\* found it DRAFTED asked for.
LEMMA StepDecides ==
  IInv /\ [Next]_vars =>
    [\A o \in Drafts :
       status'[o] # status[o] /\ status[o] # "none" =>
         \E u \in allowed :
           /\ at[u] = "commit" /\ at'[u] = "answer"
           /\ press[u] = [draft |-> o, kind |-> status'[o], was |-> "drafted"]]_vars
<1> SUFFICES ASSUME IInv, Next, NEW o \in Drafts, status'[o] # status[o], status[o] # "none"
             PROVE \E u \in allowed :
                     /\ at[u] = "commit" /\ at'[u] = "answer"
                     /\ press[u] = [draft |-> o, kind |-> status'[o], was |-> "drafted"]
  OBVIOUS
<1>1. ASSUME NEW p \in Drafts, NEW reachable \in BOOLEAN, Draft(p, reachable) PROVE FALSE
  BY <1>1 DEF Draft, callback, IInv, TypeOK
<1>2. ASSUME NEW u \in Users, CallbackCommits(u)
      PROVE /\ u \in allowed
            /\ at[u] = "commit" /\ at'[u] = "answer"
            /\ press[u] = [draft |-> o, kind |-> status'[o], was |-> "drafted"]
  <2>1. at[u] = "commit" /\ at'[u] = "answer"
    BY <1>2 DEF CallbackCommits, IInv, TypeOK
  <2>2. press[u].draft = o /\ press[u].kind = status'[o]
    BY <1>2 DEF CallbackCommits, IInv, TypeOK
  <2>3. u \in allowed /\ press[u] \in Button /\ press[u].was = "drafted"
    BY <1>2, <2>1 DEF CallbackCommits, IInv, PressSound, Stands
  <2> QED
    BY <2>1, <2>2, <2>3 DEF Button
<1>3. ASSUME NEW p \in Drafts, NEW u \in Users, Tell(p, u) \/ TellFails(p, u) PROVE FALSE
  BY <1>3 DEF Tell, TellFails
<1>4. ASSUME NEW p \in Drafts, Announce(p) \/ AnnounceFails(p) PROVE FALSE
  BY <1>4 DEF Announce, AnnounceFails
<1>5. ASSUME NEW u \in Users, AskPending(u) \/ ShowPending(u) \/ ShowFails(u) PROVE FALSE
  BY <1>5 DEF AskPending, ShowPending, ShowFails
<1>6. ASSUME NEW u \in Users, NEW p \in Drafts, NEW kind \in Kinds, Press(u, p, kind)
      PROVE FALSE
  BY <1>6 DEF Press, Serve
<1>7. ASSUME NEW u \in Users, CallbackReads(u) \/ CallbackAnswers(u) \/ CallbackFails(u)
      PROVE FALSE
  BY <1>7 DEF CallbackReads, CallbackAnswers, CallbackFails
<1>8. ASSUME NEW users \in SUBSET Users, Restart(users) PROVE FALSE
  BY <1>8 DEF Restart
<1> QED
  BY <1>1, <1>2, <1>3, <1>4, <1>5, <1>6, <1>7, <1>8 DEF Next, Callback

\* Whatever operators press on however old a card, at once or after restarts that
\* change the list of operators: a button whose draft was decided before the press
\* changes nothing, and nobody outside the list changes anything.  What is written is
\* what the button asked for.
THEOREM DecisionsStand == Spec => DecidedBeforePressStands
  BY DeskIsSound, StepDecides, PTL DEF Spec, DecidedBeforePressStands

================================================================================
