--------------------------- MODULE MCContestPlay ---------------------------
(* Instances of ContestPlay for TLC. *)
EXTENDS ContestPlay, TLC

CONSTANTS c1, c2

MCSolution == [q \in Questions |-> "a"]
RunOnly == {RunScript}
=============================================================================
