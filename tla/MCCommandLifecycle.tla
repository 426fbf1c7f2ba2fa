------------------------- MODULE MCCommandLifecycle -------------------------
(* Small instances of CommandLifecycle: two publications that share a      *)
(* client-supplied command_id and a response about it, or two commands     *)
(* with an id each and a response to each.                                 *)
EXTENDS CommandLifecycle, TLC

CONSTANTS p1, p2, r1, r2, c1, c2

SharedId == p1 :> c1 @@ p2 :> c1
FreshIds == p1 :> c1 @@ p2 :> c2
OneAboutC1 == r1 :> c1
OneEach == r1 :> c1 @@ r2 :> c2
=============================================================================
