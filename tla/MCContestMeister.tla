-------------------------- MODULE MCContestMeister --------------------------
(* Instances of ContestMeister for TLC. *)
EXTENDS ContestMeister, TLC

CONSTANTS m1, m2

Full(op, q, c) == Line(Ask(op, q, c), FALSE)
Bare(op) == Line(Ask(op, 0, 0), TRUE)
\* One user makes something, with an id, with what is none, or with none, and
\* then undoes it, adds to it, leaves or kills; the other looks or kills the server.
TwoUsers ==
  (m1 :> << { Full("p", 1, 0), Full("s", 0, 1), Full("P", 1, 0), Full("p", 0, 0), Bare("a") },
            { Full("d", 1, 0), Full("a", 2, 1), Full("r", 0, 0),
              Bare("q"), Bare("k") } >>)
  @@ (m2 :> << { Full("g", 1, 0), Bare("k") } >>)
NoRequest == {}
=============================================================================
