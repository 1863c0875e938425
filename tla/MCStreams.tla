----------------------------- MODULE MCStreams ------------------------------
(* Reassembly and Follower for TLC.  A behaviour is about one of them, and *)
(* the variables of the other keep their initial values.                   *)
EXTENDS Reassembly, MCFollower

VARIABLE about

all_vars == <<about, vars, follower_vars>>

MCInit == about \in {"direction", "sessions"} /\ Init /\ FollowerInit

MCNext ==
  \/ about = "direction" /\ Next /\ UNCHANGED <<about, follower_vars>>
  \/ about = "sessions" /\ FollowerNext /\ UNCHANGED <<about, vars>>

MCSpec == MCInit /\ [][MCNext]_all_vars /\ WF_vars(about = "direction" /\ Process)
=============================================================================
