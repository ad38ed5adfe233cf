------------------------------- MODULE Outcome -------------------------------
(***************************************************************************)
(* The classification of one attempt: internal/retry/classify.go and the   *)
(* buffering of a response body that it needs (bufferBody in retry.go).    *)
(* Everything here is a pure function of the retry configuration and of    *)
(* what the server sent; RetryEngine reads the context in between.         *)
(*                                                                         *)
(* A body is a length, whether its stream breaks off, whether it is JSON,  *)
(* and what each of the two jq predicates makes of it.  "hang" is an       *)
(* expression that never ends: only a context error cuts it short.         *)
(*                                                                         *)
(* A definition called Faulty... is a mistake the one after it avoids; the *)
(* specification does not use it.                                          *)
(***************************************************************************)
EXTENDS Integers

CONSTANT IntMax       \* math.MaxInt64, on a scale TLC can count to

ASSUME IntMaxAssumption == IntMax \in Nat \ {0}

Verdict == {"truthy", "falsy", "error", "hang"}

Response == [status : Nat, len : Nat, breaks : BOOLEAN, json : BOOLEAN,
             retryWhen : Verdict, successWhen : Verdict]

(* config.RetryConfig, with the backoff reduced to whether the delay is     *)
(* positive (module Backoff computes it).                                   *)
RetryConfig == [maxRetries : Int, abortOn : SUBSET Nat, retryOn : SUBSET Nat,
                retryWhen : BOOLEAN, successWhen : BOOLEAN,
                maxBuffer : 0 .. IntMax, delays : BOOLEAN]

Is2xx(status) == status >= 200 /\ status < 300

-----------------------------------------------------------------------------
(* Status rules of classify *)

HasPredicates(c) == c.retryWhen \/ c.successWhen

Aborts(c, status) == ~Is2xx(status) /\ status \in c.abortOn

OutsideRetryOn(c, status) ==
  /\ ~Is2xx(status)
  /\ c.retryOn # {}
  /\ status \notin c.retryOn

IsTerminal(c, status) == Aborts(c, status) \/ OutsideRetryOn(c, status)

-----------------------------------------------------------------------------
(* bufferBody: at most maxBuffer+1 bytes are read, in int64 arithmetic *)

Wrap(k) == IF k > IntMax THEN k - 2 * (IntMax + 1) ELSE k

FaultyUnlimited(c) == c.maxBuffer <= 0   \* forgets that MaxInt64 + 1 wraps

Unlimited(c) == c.maxBuffer <= 0 \/ c.maxBuffer = IntMax

(* io.LimitReader: a limit of zero or less is an empty stream *)
LimitedLen(len, limit) ==
  IF limit <= 0 THEN 0 ELSE IF len < limit THEN len ELSE limit

BytesRead(c, r) ==
  IF Unlimited(c) THEN r.len ELSE LimitedLen(r.len, Wrap(c.maxBuffer + 1))

(* The read meets the end of the stream unless the limit stops it first. *)
ReadsToEnd(c, r) == Unlimited(c) \/ r.len < Wrap(c.maxBuffer + 1)

Overflows(c, r) == ~Unlimited(c) /\ BytesRead(c, r) > c.maxBuffer

-----------------------------------------------------------------------------
(* decodeBody: the predicates have no input after an overflow, for an       *)
(* empty buffer and for a body that is not JSON.                            *)
Decodes(r, prefix, overflowed) == ~overflowed /\ prefix > 0 /\ r.json

(* Predicate.match with a live context: an error that is not a context      *)
(* error counts as not matched, and "hang" gives no answer at all.          *)
MatchAnswers(isSet, decoded, verdict) ==
  IF ~isSet \/ ~decoded THEN {FALSE}
  ELSE {b \in BOOLEAN : /\ verdict # "hang"
                        /\ b = (verdict = "truthy")}

-----------------------------------------------------------------------------
(***************************************************************************)
(* The reference: the table of docs/retry.md:20-29, first matching rule.   *)
(* It is written from the condition column alone, so it knows nothing of   *)
(* buffers, read lengths or the order in which the code asks.              *)
(***************************************************************************)
WithinCap(c, r) == c.maxBuffer \in {0, IntMax} \/ r.len <= c.maxBuffer

Evaluable(c, r) == WithinCap(c, r) /\ r.len > 0 /\ r.json

RuleNumber(c, failed, r) ==
  CASE failed -> 1
    [] ~failed /\ ~Is2xx(r.status) /\ r.status \in c.abortOn -> 2
    [] ~failed /\ ~Is2xx(r.status) /\ c.retryOn # {}
         /\ r.status \notin c.retryOn \cup c.abortOn -> 3
    [] OTHER ->
         LET retry   == c.retryWhen /\ Evaluable(c, r) /\ r.retryWhen = "truthy"
             success == Evaluable(c, r) /\ r.successWhen = "truthy"
         IN CASE retry                                -> 4
              [] ~retry /\ c.successWhen /\ success   -> 5
              [] ~retry /\ c.successWhen /\ ~success  -> 6
              [] ~retry /\ ~c.successWhen /\ Is2xx(r.status) -> 7
              [] OTHER                                -> 8
=============================================================================
