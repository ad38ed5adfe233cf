----------------------------- MODULE MCRunCommand -----------------------------
(* RunCommand over two sets of documents.  The first are run for real: two     *)
(* calls, a capture whose call may be tolerated, by its own key or by the     *)
(* defaults, and consumers of it.  The others are only loaded (--dry-run):    *)
(* up to three calls that combine a producer of captures, a consumer and a    *)
(* third call; references in every field, own and inherited; both spellings   *)
(* of a header; both status lists; each fault.                                *)
EXTENDS RunCommand, TLC

MCCanonical == "type" :> "Type" @@ "Type" :> "Type"

Empty == [k \in {} |-> <<>>]

Bare == [query |-> Empty, headers |-> Empty, body |-> Absent, tolerate |-> Absent,
         abortOn |-> Absent, retryOn |-> Absent, fault |-> "none"]

MCCall(name, p, capture, own) ==
  [raw |-> name, name |-> name, path |-> p, capture |-> capture, own |-> own]

Lit == <<Char("slash"), Char("plain")>>
V   == <<Char("slash"), Ref("v")>>

MCTexts == {Lit, V, <<Escape>>, <<Escape, Open>>, <<Ref("v")>>, <<Ref("u"), Ref("v")>>,
            <<Char("dot")>>}

With(field, value) == [Bare EXCEPT ![field] = value]

Tolerating == With("tolerate", TRUE)

MCExecuted ==
  {[fault |-> "none", defaults |-> d, calls |-> <<MCCall("a", Lit, capture, own), c>>] :
     d \in {Bare, Tolerating, With("headers", "type" :> V)},
     capture \in {<<"v">>, <<"u", "v">>}, own \in {Bare, Tolerating},
     c \in {MCCall("b", V, <<>>, Bare), MCCall("b", Lit, <<"v">>, Tolerating),
            MCCall("b", Lit, <<>>, With("headers", "Type" :> Lit))}}

-----------------------------------------------------------------------------
MCDefaults ==
  {Bare, With("tolerate", TRUE), With("query", "q" :> V), With("query", "q" :> Lit),
   With("headers", "type" :> V), With("headers", "type" :> Lit @@ "Type" :> Lit), With("body", V),
   With("body", <<Escape, Open>>), With("abortOn", {404}), With("retryOn", {404}),
   [Bare EXCEPT !.abortOn = {404}, !.retryOn = {404}], With("fault", "keys")}

Producers ==
  {MCCall("a", Lit, <<"v">>, Bare), MCCall("a", Lit, <<"v">>, With("tolerate", TRUE)),
   MCCall("a", Lit, <<"v">>, With("tolerate", FALSE)), MCCall("a", Lit, <<"u", "u">>, Bare),
   MCCall("a", V, <<"v">>, Bare), MCCall("a", Lit, <<>>, With("headers", "type" :> Lit))}

Consumers ==
  {MCCall("b", Lit, <<"u">>, Bare), MCCall("b", V, <<>>, Bare),
   MCCall("b", Lit, <<"v">>, With("query", "r" :> Lit)),
   MCCall("b", Lit, <<>>, With("headers", "Type" :> Lit)),
   MCCall("b", Lit, <<>>, With("headers", "type" :> Lit @@ "Type" :> <<Ref("v")>>)),
   MCCall("b", Lit, <<>>, With("body", <<Escape>>)),
   MCCall("b", Lit, <<>>, With("abortOn", {404})),
   MCCall("b", Lit, <<>>, [Bare EXCEPT !.abortOn = {404}, !.retryOn = {404}]),
   MCCall("b", Absent, <<>>, Bare),
   [MCCall("b", Lit, <<>>, Bare) EXCEPT !.raw = Absent, !.name = Absent],
   MCCall("a", Lit, <<>>, Bare)}

Thirds ==
  {MCCall("c", <<Ref("u"), Ref("v")>>, <<>>, Bare), MCCall("c", Lit, <<>>, With("retryOn", {404})),
   MCCall("c", <<Char("dot")>>, <<>>, With("body", <<Ref("v")>>)),
   MCCall("c", Lit, <<>>, With("query", "q" :> V)),
   [MCCall("c", Lit, <<>>, Bare) EXCEPT !.raw = "c", !.name = "b"]}

Faults == {"shape", "keys", "decode", "method", "capture", "references", "file", "config",
           "predicate"}

LoadOnly ==
  {[fault |-> f, defaults |-> Bare, calls |-> <<>>] : f \in {"none", "yaml", "documents"}}
  \cup {[fault |-> "none", defaults |-> d, calls |-> <<p, c, t>>] :
          d \in MCDefaults, p \in Producers, c \in Consumers, t \in Thirds}
  \cup {[fault |-> "none", defaults |-> Bare,
         calls |-> <<MCCall("a", Lit, <<"v">>, With("fault", f)), MCCall("b", V, <<>>, Bare)>>] :
          f \in Faults}

MCDocuments == MCExecuted \cup LoadOnly

MCValues == {<<"plain">>, <<"dot">>}
=============================================================================
