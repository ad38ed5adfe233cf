---------------------------- MODULE MCRetryEngine ----------------------------
(***************************************************************************)
(* RetryEngine on small instances: a 2xx, a conflict, a not-found and a    *)
(* server error; bodies of zero to two bytes around a cap of one byte; and *)
(* every verdict of either predicate.                                      *)
(***************************************************************************)
EXTENDS RetryEngine

Answer(s, l, b, j, rw, sw) ==
  [status |-> s, len |-> l, breaks |-> b, json |-> j, retryWhen |-> rw, successWhen |-> sw]

Retries(m, abort, retry, rw, sw, buf, d) ==
  [maxRetries |-> m, abortOn |-> abort, retryOn |-> retry, retryWhen |-> rw,
   successWhen |-> sw, maxBuffer |-> buf, delays |-> d]

(* One configuration per shape of the status lists (they exclude each other), *)
(* predicates and cap, which is read only with a predicate; MCIntMax is the   *)
(* cap that would overflow if incremented.                                    *)
MCIntMax == 4

MCConfigs ==
  {Retries(m, lists[1], lists[2], p[1], p[2], p[3], TRUE) :
     m \in {-1, 0, 1, 2},
     lists \in {<<{}, {}>>, <<{200, 404}, {}>>, <<{}, {200, 409}>>},
     p \in {<<FALSE, FALSE, 1>>}
            \cup {<<rw, sw, buf>> \in BOOLEAN \X BOOLEAN \X {0, 1, MCIntMax} : rw \/ sw}}
  \cup {Retries(m, {}, {}, rw, sw, 1, FALSE) :
          m \in {-1, 1}, rw \in BOOLEAN, sw \in BOOLEAN}

MCResponses ==
  {Answer(s, 1, FALSE, TRUE, rw, sw) :
     s \in {200, 503}, rw \in {"truthy", "falsy"}, sw \in {"truthy", "falsy"}}
  \cup {Answer(s, 0, FALSE, FALSE, "falsy", "falsy") : s \in {200, 404, 409}}
  \cup {Answer(200, 2, FALSE, TRUE, "truthy", "truthy"),
        Answer(503, 2, TRUE, FALSE, "falsy", "falsy"),
        Answer(404, 1, TRUE, FALSE, "falsy", "falsy"),
        Answer(200, 1, FALSE, TRUE, "error", "truthy"),
        Answer(409, 1, FALSE, TRUE, "falsy", "error"),
        Answer(503, 1, FALSE, TRUE, "hang", "hang")}
=============================================================================
