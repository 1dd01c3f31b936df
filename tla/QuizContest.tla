---------------------------- MODULE QuizContest ----------------------------
(***************************************************************************)
(* What a contest promises its contestants: they join, then the rounds are *)
(* played one by one, each judged for all contestants at once, and the     *)
(* contest is over when every question was played (src/README.md:117).     *)
(***************************************************************************)
EXTENDS Naturals

CONSTANTS Players,  \* who may join
          Rounds    \* how many rounds are played

VARIABLES phase, joined, round, points

TypeOK ==
  /\ phase \in {"open", "playing", "over"}
  /\ joined \subseteq Players
  /\ round \in 0..Rounds
  /\ points \in [Players -> 0..Rounds]

Init ==
  /\ phase = "open" /\ joined = {} /\ round = 0
  /\ points = [p \in Players |-> 0]

Join(p) ==
  /\ phase = "open" /\ p \notin joined
  /\ joined' = joined \cup {p}
  /\ UNCHANGED <<phase, round, points>>

Begin ==
  /\ phase = "open" /\ phase' = "playing"
  /\ UNCHANGED <<joined, round, points>>

\* One round: some of those who joined had it right, and each gets one point.
Judge(right) ==
  /\ phase = "playing" /\ round < Rounds
  /\ round' = round + 1
  /\ points' = [p \in Players |-> IF p \in right THEN points[p] + 1 ELSE points[p]]
  /\ UNCHANGED <<phase, joined>>

End ==
  /\ phase = "playing" /\ round = Rounds /\ phase' = "over"
  /\ UNCHANGED <<joined, round, points>>

Next ==
  \/ \E p \in Players : Join(p)
  \/ Begin
  \/ \E right \in SUBSET joined : Judge(right)
  \/ End

Spec == Init /\ [][Next]_<<phase, joined, round, points>>
=============================================================================
