-------------------------- MODULE MCVacancyPipeline --------------------------
(* Instances of VacancyPipeline small enough for TLC. *)
EXTENDS VacancyPipeline, TLC

CONSTANTS m1, m2, m3, ann, bob

TwoPosts   == {m1, m2}
ThreePosts == {m1, m2, m3}

\* Each post in a channel of its own.
OwnChannels == [m \in Posts |-> m]

\* Two copies of one vacancy, and perhaps another vacancy.
Copies == [m \in Posts |-> IF m = m3 THEN "other" ELSE "text"]

\* The copies name the same @username, the other post an author; or one copy has an
\* author and one names nobody.
FromBobAndAnn == [m \in Posts |-> IF m = m3 THEN ann ELSE bob]
FromNobody    == [m \in Posts |-> IF m = m1 THEN ann ELSE NoContact]

==============================================================================
