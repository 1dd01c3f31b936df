-------------------------- MODULE MCContestServer --------------------------
(* Instances of ContestServer for TLC. *)
EXTENDS ContestServer, TLC

CONSTANTS m1, m2, s1, s2

\* One question and one contest, and every request that touches them.
Changes == { Ask("p", 1, 0), Ask("d", 1, 0), Ask("s", 0, 1), Ask("a", 1, 1), Ask("b", 0, 1),
             Ask("r", 0, 1) }
\* Those, one that only looks, a question that has no end, a type without a handler,
\* and no message at all.
Anything ==
  Changes \cup { Ask("l", 0, 0), Ask("P", 1, 0), Ask("x", 0, 0), Ask("garbled", 0, 0) }
Posts == { Ask("p", q, 0) : q \in QIds }

\* The bound on mishaps: a client that left is followed to the end of its thread where
\* it was alone with the server, whose sessions go on.
OneMishap ==
  \A c \in Clients : link[c] \in {"fin", "rst", "dead"} =>
    process = "up" /\ \A d \in Clients \ {c} : at[d] \in {"none", "gone"}
Symmetry == Permutations({m1, m2}) \cup Permutations({s1, s2})
=============================================================================
