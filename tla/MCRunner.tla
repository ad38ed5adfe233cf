------------------------------- MODULE MCRunner -------------------------------
(* Runner with runbooks of up to three calls: two captures, of which the      *)
(* second may fail, a tolerated call, and paths that join two values.         *)
EXTENDS RunnerInvariant, RunnerRefinement

Lit == <<Char("slash"), Char("plain")>>

MCCall(p, texts, t, capture) ==
  [path |-> p, texts |-> texts, tolerate |-> t, capture |-> capture]

Joined == <<Char("slash"), Char("dot"), Ref("u"), Char("slash"), Ref("v")>>

MCRunbooks ==
  {<<MCCall(Lit, {}, FALSE, <<"u", "v">>), MCCall(Joined, {}, t, <<>>),
     MCCall(Lit, {<<Ref("v")>>}, FALSE, <<>>)>> : t \in BOOLEAN}
  \cup
  {<<MCCall(Lit, {}, FALSE, <<"u">>), MCCall(Lit, {}, TRUE, <<"v">>),
     MCCall(<<Ref("u"), Ref("u")>>, {}, t, <<>>)>> : t \in BOOLEAN}
  \cup {<<MCCall(<<Char("dot"), Char("dot")>>, {}, TRUE, <<>>)>>}

MCValues == {<<>>, <<"plain">>, <<"dot">>, <<"plain", "slash">>, <<"query">>}
=============================================================================
