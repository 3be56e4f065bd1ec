---------------------------- MODULE MCConversations ----------------------------
(* An instance of Conversations small enough for TLC. *)
EXTENDS Conversations, TLC

CONSTANTS o1, ann

OneOutreach == {o1}
ToAnn       == [o \in {o1} |-> ann]

================================================================================
