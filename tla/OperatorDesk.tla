------------------------------ MODULE OperatorDesk ------------------------------
(***************************************************************************)
(* The management bot: a card with buttons is pushed to every operator for *)
(* a draft (BotNotifier, TelethonBotNotifier), /pending shows a page of    *)
(* drafts, and a button approves or rejects (BotHandlers).                 *)
(*                                                                         *)
(* Cards stay in the chats while other operators decide, while the process *)
(* restarts and while the list of operators changes, so buttons are        *)
(* pressed on cards whose draft was decided long ago.                      *)
(***************************************************************************)
EXTENDS Naturals, FiniteSets, Transitions

CONSTANTS
  Drafts,
  Users,        \* who may ever be in settings.bot_allowed_users
  PageSize,     \* cards that one /pending shows, 10 in the code
  MaxCards,     \* bound: cards with buttons, of one draft in one chat
  MaxLoad,      \* bound: drafts written times operators on the list
  MaxTroubles   \* bound: failing transactions and Telegram calls, and restarts

ASSUME DeskAssumption ==
  /\ IsFiniteSet(Drafts)
  /\ PageSize \in Nat \ {0} /\ MaxCards \in Nat \ {0}
  /\ MaxLoad \in Nat /\ MaxTroubles \in Nat

VARIABLES
  status,    \* outreach.status, or "none"
  announced, \* the analyzer has told the notifier of the draft, or failed to
  notice,    \* what the notifier's loop did about each draft and operator
  open,      \* cards with buttons in each chat
  listing,   \* drafts that a running /pending is still to show
  at,        \* where the callback that serves each user's button stands
  press,     \* the button it serves, and the status when it was pressed
  allowed,   \* settings.bot_allowed_user_ids of the running process
  faults, restarts

callback == <<at, press>>
vars == <<status, announced, notice, open, listing, callback, allowed, faults, restarts>>

Decided == {"approved", "rejected"}
Kinds   == Decided   \* what a button asks for
Button  == [draft : Drafts, kind : Kinds, was : {"drafted"} \union Decided]
NoPress == [draft |-> "none", kind |-> "none", was |-> "none"]

TypeOK ==
  /\ status \in [Drafts -> {"none", "drafted"} \union Decided]
  /\ announced \subseteq Drafts
  /\ notice \in [Drafts -> [Users -> {"no", "due", "told", "missed"}]]
  /\ open \in [Users -> [Drafts -> 0 .. MaxCards]]
  /\ listing \in [Users -> SUBSET Drafts]
  /\ at \in [Users -> {"idle", "read", "commit", "answer"}]
  /\ press \in [Users -> Button \union {NoPress}]
  /\ allowed \subseteq Users
  /\ faults \in 0 .. MaxTroubles
  /\ restarts \in 0 .. MaxTroubles

Init ==
  /\ status = [o \in Drafts |-> "none"]
  /\ announced = {}
  /\ notice = [o \in Drafts |-> [u \in Users |-> "no"]]
  /\ open = [u \in Users |-> [o \in Drafts |-> 0]]
  /\ listing = [u \in Users |-> {}]
  /\ at = [u \in Users |-> "idle"]
  /\ press = [u \in Users |-> NoPress]
  /\ allowed \in SUBSET Users
  /\ faults = 0 /\ restarts = 0

Bearable(drafts, users) == Cardinality(drafts) * Cardinality(users) <= MaxLoad

Written == {o \in Drafts : status[o] # "none"}

Fault == faults + restarts < MaxTroubles /\ faults' = faults + 1

\* Another card in the chat; beyond MaxCards one more makes no difference.
MoreCards(u, o) ==
  open' = [open EXCEPT ![u][o] = IF @ < MaxCards THEN @ + 1 ELSE @]

--------------------------------------------------------------------------------
(***************************************************************************)
(* The analyzer's side: a draft is written, then announced.                *)
(***************************************************************************)

\* Without a user id the contact cannot be written to: REJECTED from the start.
Draft(o, reachable) ==
  /\ status[o] = "none"
  /\ Bearable(Written \union {o}, allowed)
  /\ status' = [status EXCEPT ![o] = IF reachable THEN "drafted" ELSE "rejected"]
  /\ UNCHANGED <<announced, notice, open, listing, callback, allowed, faults, restarts>>

\* The outreach is read again, and its card is due to every operator.
Announce(o) ==
  /\ status[o] # "none" /\ o \notin announced
  /\ announced' = announced \union {o}
  /\ notice' = [notice EXCEPT ![o] = [u \in Users |-> IF u \in allowed THEN "due" ELSE @[u]]]
  /\ UNCHANGED <<status, open, listing, callback, allowed, faults, restarts>>

\* The bot is off, or the outreach cannot be read: logged, no more.
AnnounceFails(o) ==
  /\ status[o] # "none" /\ o \notin announced
  /\ Fault
  /\ announced' = announced \union {o}
  /\ UNCHANGED <<status, notice, open, listing, callback, allowed, restarts>>

Tell(o, u) ==
  /\ notice[o][u] = "due"
  /\ notice' = [notice EXCEPT ![o][u] = "told"]
  /\ MoreCards(u, o)
  /\ UNCHANGED <<status, announced, listing, callback, allowed, faults, restarts>>

\* Mutant: the exception of one send ends the loop.
TellFailsForAll(o, u) ==
  /\ notice[o][u] = "due"
  /\ Fault
  /\ notice' = [notice EXCEPT ![o] = [v \in Users |->
                  IF v = u THEN "missed" ELSE IF @[v] = "due" THEN "no" ELSE @[v]]]
  /\ UNCHANGED <<status, announced, open, listing, callback, allowed, restarts>>

\* An operator who cannot be written to; the loop goes on.
TellFails(o, u) ==
  /\ notice[o][u] = "due"
  /\ Fault
  /\ notice' = [notice EXCEPT ![o][u] = "missed"]
  /\ UNCHANGED <<status, announced, open, listing, callback, allowed, restarts>>

--------------------------------------------------------------------------------
(***************************************************************************)
(* /pending, or the menu's button for it.                                  *)
(***************************************************************************)

Drafted == {o \in Drafts : status[o] = "drafted"}

\* Mutant: the first rows of all, and of those the ones that are drafted.
CutTooEarly ==
  LET rows == CHOOSE P \in SUBSET Written :
                Cardinality(P) = PageSize \/ (P = Written /\ Cardinality(P) < PageSize)
  IN {rows \intersect Drafted}

\* items[:10] of a query without ORDER BY.
Pages ==
  {P \in SUBSET Drafted :
     IF Cardinality(Drafted) <= PageSize THEN P = Drafted ELSE Cardinality(P) = PageSize}

AskPending(u) ==
  /\ u \in allowed
  /\ listing[u] = {}
  /\ \E P \in Pages : listing' = [listing EXCEPT ![u] = P]
  /\ UNCHANGED <<status, announced, notice, open, callback, allowed, faults, restarts>>

ShowPending(u) ==
  /\ \E o \in listing[u] :
       /\ listing' = [listing EXCEPT ![u] = @ \ {o}]
       /\ MoreCards(u, o)
  /\ UNCHANGED <<status, announced, notice, callback, allowed, faults, restarts>>

\* A respond that raises takes the rest of the page with it.
ShowFails(u) ==
  /\ listing[u] # {}
  /\ Fault
  /\ listing' = [listing EXCEPT ![u] = {}]
  /\ UNCHANGED <<status, announced, notice, open, callback, allowed, restarts>>

--------------------------------------------------------------------------------
(***************************************************************************)
(* _on_callback with ApproveMessageUseCase and RejectMessageUseCase.       *)
(***************************************************************************)

\* Of the callbacks of one user one runs at a time; those of different users race.
Serve(u, o, kind) ==
  /\ at' = [at EXCEPT ![u] = "read"]
  /\ press' = [press EXCEPT ![u] = [draft |-> o, kind |-> kind, was |-> status[o]]]
  /\ UNCHANGED <<status, announced, notice, open, listing, allowed, faults, restarts>>

\* Mutant: the buttons stay when a card is edited.
PressAgain(u, o, kind) ==
  /\ u \in allowed /\ at[u] = "idle"
  /\ status[o] # "none"
  /\ Serve(u, o, kind)

Press(u, o, kind) ==
  /\ u \in allowed /\ at[u] = "idle"
  /\ open[u][o] > 0
  /\ Serve(u, o, kind)

GoTo(u, s) == at' = [at EXCEPT ![u] = s] /\ UNCHANGED press

Ends(u) ==
  /\ at' = [at EXCEPT ![u] = "idle"]
  /\ press' = [press EXCEPT ![u] = NoPress]

\* Mutant: the status the draft had on the card is trusted.
ReadsNothing(u) ==
  /\ at[u] = "read"
  /\ GoTo(u, "commit")
  /\ UNCHANGED <<status, announced, notice, open, listing, allowed, faults, restarts>>

\* Approving says no to what is not DRAFTED; rejecting raises.
CallbackReads(u) ==
  /\ at[u] = "read"
  /\ LET now == status[press[u].draft] IN
       \/ CanMoveOutreach(now, press[u].kind) /\ GoTo(u, "commit")
       \/ press[u].kind = "approved" /\ now # "drafted" /\ GoTo(u, "answer")
       \/ press[u].kind = "rejected" /\ ~ CanMoveOutreach(now, "rejected") /\ Ends(u)
  /\ UNCHANGED <<status, announced, notice, open, listing, allowed, faults, restarts>>

\* UPDATE ... WHERE id, whatever the status is by now.
CallbackCommits(u) ==
  /\ at[u] = "commit"
  /\ status' = [status EXCEPT ![press[u].draft] = press[u].kind]
  /\ at' = [at EXCEPT ![u] = "answer"]
  /\ UNCHANGED <<announced, notice, open, listing, press, allowed, faults, restarts>>

\* The answer; then the card's text becomes Approved or Rejected, and its buttons go.
CallbackAnswers(u) ==
  /\ at[u] = "answer"
  /\ open' = [open EXCEPT ![u][press[u].draft] = @ - 1]
  /\ Ends(u)
  /\ UNCHANGED <<status, announced, notice, listing, allowed, faults, restarts>>

\* A transaction or the answer raises, or the edit fails, which is passed over: the
\* buttons stay.
CallbackFails(u) ==
  /\ at[u] # "idle"
  /\ Fault
  /\ Ends(u)
  /\ UNCHANGED <<status, announced, notice, open, listing, allowed, restarts>>

\* The process ends and starts again, with another BOT_ALLOWED_USERS perhaps.
Restart(users) ==
  /\ faults + restarts < MaxTroubles
  /\ Bearable(Written, users)
  /\ restarts' = restarts + 1
  /\ allowed' = users
  /\ notice' = [o \in Drafts |-> [u \in Users |->
                  IF notice[o][u] = "due" THEN "no" ELSE notice[o][u]]]
  /\ announced' = Written
  /\ listing' = [u \in Users |-> {}]
  /\ at' = [u \in Users |-> "idle"]
  /\ press' = [u \in Users |-> NoPress]
  /\ UNCHANGED <<status, open, faults>>

--------------------------------------------------------------------------------
Callback(u) == CallbackReads(u) \/ CallbackCommits(u) \/ CallbackAnswers(u)

Next ==
  \/ \E o \in Drafts :
       \/ Announce(o) \/ AnnounceFails(o)
       \/ \E reachable \in BOOLEAN : Draft(o, reachable)
       \/ \E u \in Users : Tell(o, u) \/ TellFails(o, u)
  \/ \E u \in Users :
       \/ AskPending(u) \/ ShowPending(u) \/ ShowFails(u)
       \/ Callback(u) \/ CallbackFails(u)
       \/ \E o \in Drafts, kind \in Kinds : Press(u, o, kind)
  \/ \E users \in SUBSET Users : Restart(users)

Spec == Init /\ [][Next]_vars

\* The loop of the notifier, /pending and the callbacks run to their ends.
Fairness ==
  /\ \A o \in Drafts : WF_vars(\E u \in Users : Tell(o, u))
  /\ \A u \in Users : WF_vars(ShowPending(u)) /\ WF_vars(Callback(u))

FairSpec == Spec /\ Fairness

\* The operators attend to the bot: they ask for /pending while there are drafts, and
\* press a button on the cards of drafts that nobody has decided.
Attend(u) ==
  /\ SF_vars(AskPending(u) /\ Drafted # {})
  /\ SF_vars(\E o \in Drafted, kind \in Kinds : Press(u, o, kind))

AttendedSpec == FairSpec /\ \A u \in Users : Attend(u)

--------------------------------------------------------------------------------
(***************************************************************************)
(* What must hold.                                                         *)
(***************************************************************************)

\* A decision that was recorded before a button is pressed is never overturned by
\* that button: the callback that writes a status serves an operator's button for
\* it, pressed when the outreach was DRAFTED, however old the card (approve_message.py,
\* handlers.py).  So a rejection stands too.
DecidedBeforePressStands ==
  [][\A o \in Drafts :
       status'[o] # status[o] /\ status[o] # "none" =>
         \E u \in allowed :
           /\ at[u] = "commit" /\ at'[u] = "answer"
           /\ press[u] = [draft |-> o, kind |-> status'[o], was |-> "drafted"]]_vars

\* Whoever is to get a card gets it, or cannot be written to himself: "the failure
\* of one operator must not cost the others their notification" (bot.py).
EveryOperatorIsTold ==
  \A o \in Drafts, u \in Users :
    (notice[o][u] = "due") ~> (notice[o][u] \in {"told", "missed"} \/ restarts > 0)

\* Where operators attend to the bot, every draft is decided at last: those that
\* no card told of, those beyond the page of ten, those a restart caught ("nothing is lost
\* and /pending still lists it", README section 12).
EveryDraftIsDecided ==
  \A o \in Drafts :
    (status[o] = "drafted") ~> (status[o] \in Decided \/ allowed = {})

================================================================================
