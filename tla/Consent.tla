-------------------------------- MODULE Consent --------------------------------
(***************************************************************************)
(* What "the moment a user asks to stop" (README section 16) comes to,     *)
(* whoever writes: a message is taken in hand only for a contact who has   *)
(* not withdrawn, a writer holds one at a time, and it goes out from the   *)
(* hand or not at all.  After a withdrawal, which is never taken back,     *)
(* only what was in hand can still go out, each message once.              *)
(***************************************************************************)
EXTENDS Naturals

CONSTANTS
  Contacts,
  Messages,
  AddressOf,  \* the contact each message is for
  Writers,
  None,       \* an empty hand
  Most        \* bound: times a message went out are counted up to here

VARIABLES
  withdrawn,
  inHand,
  sent

Init ==
  /\ withdrawn = [c \in Contacts |-> FALSE]
  /\ inHand = [w \in Writers |-> None]
  /\ sent = [m \in Messages |-> 0]

TakeInHand(w, m) ==
  /\ inHand[w] = None
  /\ ~ withdrawn[AddressOf[m]]
  /\ inHand' = [inHand EXCEPT ![w] = m]
  /\ UNCHANGED <<withdrawn, sent>>

Write(w) ==
  /\ inHand[w] # None
  /\ sent' = [sent EXCEPT ![inHand[w]] = IF @ < Most THEN @ + 1 ELSE @]
  /\ inHand' = [inHand EXCEPT ![w] = None]
  /\ UNCHANGED withdrawn

LetGo(w) ==
  /\ inHand[w] # None
  /\ inHand' = [inHand EXCEPT ![w] = None]
  /\ UNCHANGED <<withdrawn, sent>>

Withdraw(c) ==
  /\ withdrawn' = [withdrawn EXCEPT ![c] = TRUE]
  /\ UNCHANGED <<inHand, sent>>

Next ==
  \/ \E w \in Writers : Write(w) \/ LetGo(w) \/ \E m \in Messages : TakeInHand(w, m)
  \/ \E c \in Contacts : Withdraw(c)

Spec == Init /\ [][Next]_<<withdrawn, inHand, sent>>

================================================================================
