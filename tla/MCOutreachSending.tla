--------------------------- MODULE MCOutreachSending ---------------------------
(* Instances of OutreachSending small enough for TLC. *)
EXTENDS OutreachSending, TLC

CONSTANTS o1, o2, ann

\* One outreach; two outreaches to one contact.
OneOutreach    == {o1}
ToAnn          == [o \in {o1} |-> ann]
TwoOutreaches  == {o1, o2}
BothToAnn      == [o \in {o1, o2} |-> ann]

AllOutcomes == Outcomes
OnlyOk      == {"ok"}

================================================================================
