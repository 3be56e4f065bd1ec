---------------------------- MODULE DeliveryPromise ----------------------------
(***************************************************************************)
(* What the sending of an outreach promises, with no queue, no worker and  *)
(* no database (README section 17): a message is first claimed, goes out   *)
(* at most once and only under its claim, and is confirmed only after it   *)
(* went out.  A claim is never given back, so a message whose fate is      *)
(* unknown is never sent again.                                            *)
(***************************************************************************)
EXTENDS Naturals

CONSTANT Messages

VARIABLES
  claim,   \* "absent", "pending" or "completed"
  sent     \* how many times each message went out

Init ==
  /\ claim = [m \in Messages |-> "absent"]
  /\ sent = [m \in Messages |-> 0]

Claim(m) ==
  /\ claim[m] = "absent"
  /\ claim' = [claim EXCEPT ![m] = "pending"]
  /\ UNCHANGED sent

GoOut(m) ==
  /\ claim[m] = "pending"
  /\ sent[m] = 0
  /\ sent' = [sent EXCEPT ![m] = 1]
  /\ UNCHANGED claim

Confirm(m) ==
  /\ claim[m] = "pending"
  /\ sent[m] = 1
  /\ claim' = [claim EXCEPT ![m] = "completed"]
  /\ UNCHANGED sent

Next == \E m \in Messages : Claim(m) \/ GoOut(m) \/ Confirm(m)

Spec == Init /\ [][Next]_<<claim, sent>>

================================================================================
