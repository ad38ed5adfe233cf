--------------------------- MODULE MCRequestCommand ---------------------------
(* RequestCommand with a 2xx and a failure, bodies around the cap of one byte  *)
(* that may break off, and configurations with and without predicates.        *)
EXTENDS RequestCommand

Answer(s, l, b, j, rw, sw) ==
  [status |-> s, len |-> l, breaks |-> b, json |-> j, retryWhen |-> rw, successWhen |-> sw]

MCIntMax == 4

MCConfigs ==
  {[maxRetries |-> m, abortOn |-> {404}, retryOn |-> {}, retryWhen |-> rw,
    successWhen |-> sw, maxBuffer |-> 1, delays |-> TRUE] :
     m \in {0, 1}, rw \in BOOLEAN, sw \in BOOLEAN}

MCResponses ==
  {Answer(200, 2, FALSE, TRUE, "falsy", "truthy"), Answer(200, 3, TRUE, FALSE, "falsy", "falsy"),
   Answer(200, 1, FALSE, TRUE, "truthy", "hang"), Answer(404, 2, FALSE, FALSE, "falsy", "falsy"),
   Answer(503, 1, TRUE, FALSE, "falsy", "falsy"), Answer(503, 0, FALSE, FALSE, "falsy", "falsy")}
=============================================================================
