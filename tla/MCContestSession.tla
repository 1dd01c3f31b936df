-------------------------- MODULE MCContestSession --------------------------
(* Instances of ContestSession for TLC. *)
EXTENDS ContestSession, TLC

CONSTANTS c1, c2

MCSolution == [q \in Questions |-> "a"]
RunOnly == {RunScript}
\* run(), and the calls the session refuses.
RunAndMisuse == {RunScript, <<Start, Start>>, <<Play(1)>>, <<Terminate>>,
                 <<Start, Play(NumQuestions + 1)>>}
Symmetry == Permutations({c1, c2})
=============================================================================
