------------------------------- MODULE MCBank -------------------------------
(***************************************************************************)
(* An instance of Bank: a question as the tests write it; one with no tags *)
(* and lines in its title that are a number and empty; one with a dot for  *)
(* its tags and three choices; and bodies of posts that are cut, have no   *)
(* dots between the choices, no end of the title, or no such solution.     *)
(***************************************************************************)
EXTENDS Bank

MCWord == [n \in 0..MaxNumber |-> ToString(n)]

MCPlain  == Question(<<"tag">>, <<"title">>, 2, "a")
MCBare   == Question(<< >>, <<"1", EOL, EOL, "title">>, 2, "b")
MCDotted == Question(<<Dot>>, <<"2">>, 3, "c")

MCBodies ==
  { SubSeq(QuestionText(MCPlain), 1, n) : n \in 0..Len(QuestionText(MCPlain)) } \cup
  { <<"tag", EOL, "title", EOL, Dot, EOL, Choice(1), EOL, Choice(2), EOL, Dot, EOL, Dot, EOL, "a", EOL>>,
    <<"tag", EOL, "title", EOL, Dot, EOL, Choice(2), EOL, Dot, EOL, Dot, EOL, "b", EOL>>,
    <<"title", EOL, Dot, EOL, Choice(1), EOL, Dot, EOL, Choice(2), EOL, Dot, EOL, Dot, EOL, "b", EOL>>,
    <<"tag", EOL, "title", EOL, Dot, EOL, Choice(1), EOL, Dot, EOL, Choice(2), EOL, Dot, EOL, Dot, EOL, "c", EOL>> }

MCPosted ==
  { <<1, body>> : body \in MCBodies } \cup { <<2, QuestionText(q)>> : q \in {MCBare, MCDotted} }
=============================================================================
