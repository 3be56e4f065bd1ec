---------------------------- MODULE MCChannelIntake ----------------------------
(* ChannelIntake with two channels and two queries. *)
EXTENDS ChannelIntake, TLC

CONSTANTS news, jobs, p1, p2, worker, dry, work, spam, town

MCChannelOf == p1 :> jobs @@ p2 :> jobs
MCKind      == p1 :> "text" @@ p2 :> "masked"
Large       == [username |-> "ads", title |-> {}, subscribers |-> 1]
Small       == [username |-> "ads", title |-> {}, subscribers |-> 0]
Spam        == [username |-> "ads", title |-> {spam}, subscribers |-> 1]
MCFaces     == {Large, Small, Spam}
MCFirstFace == jobs :> Large @@ news :> Spam
MCMinSubs   == worker :> 1 @@ dry :> 0
MCKeywords  == <<work>>
MCCities    == <<town>>
MCFinds     == <<work, NoCity>> :> {jobs, news} @@ <<work, town>> :> {}

================================================================================
