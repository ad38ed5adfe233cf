----------------------------- MODULE MCCompletion -----------------------------
(* Completion over a part of the real table that has every shape in it: an     *)
(* endpoint above others, hints in the middle and at the end, one prefix for   *)
(* several endpoints, bodies of one verb only, and two templates that tie.     *)
EXTENDS Completion, TLC

MCStarts(p, s) ==
  p = s \/ p = "" \/ <<p, s>> \in {<<"_c", "_cat">>, <<"_c", "_cluster">>, <<"s", "settings">>,
                                   <<"s", "stats">>, <<"{", "{id}">>, <<"{", "{name}">>}

Json(fields) == [json |-> TRUE, fields |-> fields]
Yaml == [json |-> FALSE, fields |-> <<"yaml">>]

Bare(verbs) == [v \in verbs |-> <<>>]

MCDocument ==
     <<"">> :> Bare({"GET"})
  @@ <<"_cat">> :> Bare({"GET"})
  @@ <<"_cat", "indices">> :> Bare({"GET"})
  @@ <<"_cat", "indices", "{name}">> :> Bare({"GET"})
  @@ <<"_cluster", "settings">> :> ("GET" :> <<>> @@ "PUT" :> <<Yaml, Json(<<"persistent">>)>>)
  @@ <<"_cluster", "stats">> :> Bare({})
  @@ <<"_nodes", "stats", "{id}">> :> Bare({"GET"})
  @@ <<"_nodes", "{id}", "stats">> :> ("GET" :> <<Json(<<"level">>)>>)
  @@ <<"_search">> :> ("GET" :> <<Json(<<"query">>)>> @@ "POST" :> <<Json(<<"query">>)>>)
  @@ <<"{name}">> :> ("GET" :> <<>> @@ "PUT" :> <<Json(<<"mappings">>)>>)
  @@ <<"{name}", "_bulk">> :> ("POST" :> <<Json(<<>>)>> @@ "PUT" :> <<Yaml>>)
  @@ <<"{name}", "_doc", "{id}">> :> ("GET" :> <<>> @@ "PUT" :> <<Json(<<>>)>>)

MCRank ==
     <<"">> :> 1 @@ <<"_cat">> :> 2 @@ <<"_cat", "indices">> :> 3
  @@ <<"_cat", "indices", "{name}">> :> 4 @@ <<"_cluster", "settings">> :> 5
  @@ <<"_cluster", "stats">> :> 6 @@ <<"_nodes", "stats", "{id}">> :> 7
  @@ <<"_nodes", "{id}", "stats">> :> 8 @@ <<"_search">> :> 9 @@ <<"{name}">> :> 10
  @@ <<"{name}", "_bulk">> :> 11 @@ <<"{name}", "_doc", "{id}">> :> 12
=============================================================================
