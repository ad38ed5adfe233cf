------------------------------ MODULE MCBackoff ------------------------------
(* Backoff with int64 cut down to seven bits, jitter in tenths and float64
   arithmetic good to one part in fifty. *)
EXTENDS Backoff

MCSettings ==
  {[strategy |-> s, initial |-> a, max |-> m, jitter |-> j] :
     s \in {"constant", "linear", "exponential"},
     a \in {-1, 0, 1, 2, 5, 20, 31, 32, 63}, m \in {-1, 0, 1, 7, 30, 63}, j \in {0, 3, 9, 12}}

MCSamples == {-1, 0, 2, 5, 8, 9, 11}
=============================================================================
