---------------------------- MODULE MCRateLimits ----------------------------
(* An instance of RateLimits small enough for TLC. *)
EXTENDS RateLimits, TLC

CONSTANTS o1, o2, o3, o4, ann, bob

FourOutreaches == {o1, o2, o3, o4}
TwoEach == (o1 :> ann) @@ (o2 :> ann) @@ (o3 :> bob) @@ (o4 :> bob)

=============================================================================
