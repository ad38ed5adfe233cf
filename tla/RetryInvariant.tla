--------------------------- MODULE RetryInvariant ---------------------------
(***************************************************************************)
(* The inductive invariant of the retry loop: what is known of the attempt *)
(* at each point of Do.  Each part is named for what it is about, and      *)
(* together with TypeOK they are preserved by every step.                  *)
(***************************************************************************)
EXTENDS RetryRefinement

Judging == {"classify", "retryWhen", "successWhen", "decide"}

(* An attempt without an error has a response, from the transport's answer   *)
(* to the end of the call, and after an error nothing asks the predicates.   *)
HasResponse ==
  /\ pc \in {"buffer", "retryWhen", "successWhen"} => err = "none"
  /\ pc \in Judging \cup {"buffer"} /\ err = "none" => resp \in Responses
  /\ pc \in {"attempt", "inflight"} => err = "none" /\ resp = NoResp

(* The body is open exactly while the attempt has a response that is still   *)
(* being judged, waits to be drained or was handed over.  Whoever reads an    *)
(* open body gets what the server sent, from the first byte on.               *)
BodyFollowsResponse ==
  /\ pc \in {"attempt", "sleep"} => body.at # "open"
  /\ pc = "inflight" => body = NoBody
  /\ pc = "buffer" => body = FreshBody(resp)
  /\ pc \in Judging => (body.at = "open" <=> resp # NoResp)
  /\ pc = "drain" => body.at = "open" /\ resp # NoResp /\ ~result.resp
  /\ pc = "returned" => (result.resp <=> body.at = "open")
  /\ body.at = "open" => /\ resp \in Responses
                         /\ body.stream = Sent(resp) /\ body.ahead <= resp.len

(* With a predicate set, what was buffered is what bufferBody reads. *)
BufferFollowsResponse ==
  /\ pc \in Judging /\ err = "none" /\ HasPredicates(cfg) =>
       /\ body.ahead = BytesRead(cfg, resp)
       /\ body.end = IF ReadsToEnd(cfg, resp) THEN "eof" ELSE "no"
       /\ overflowed = Overflows(cfg, resp)
  /\ pc \in {"retryWhen", "successWhen"} =>
       HasPredicates(cfg) /\ ~IsTerminal(cfg, resp.status)
  /\ pc = "successWhen" => cfg.successWhen

(* Where the loop is and how much of the budget is left. *)
WithinBudget ==
  /\ cfg.maxRetries >= 0 => n <= cfg.maxRetries + 1
  /\ cfg.maxRetries >= 0 /\ ~Decided /\ pc \in {"drain", "sleep"} => n <= cfg.maxRetries
  /\ result.kind \in {"exhausted", "rejected", "cause"} => BudgetSpent
  /\ result.kind = "exhausted" => cfg.maxRetries > 0
  /\ result.kind \in {"rejected", "cause"} => cfg.maxRetries = 0

(* The outcome stands at the end, and before it only a drain is left to do. *)
NothingReturnedYet ==
  /\ pc = "returned" => Decided
  /\ Decided => pc \in {"drain", "returned"}
  /\ result.resp => Decided

(* The context, and where the loop was when it ended. *)
EndIsRecorded ==
  /\ Ended <=> endedAt # "never"
  /\ err = "ctx" => Ended
  /\ endedAt = "attempt" /\ ~Decided => pc \in {"attempt", "classify"}
  /\ endedAt = "drain" /\ ~Decided => pc \in {"drain", "sleep", "attempt", "classify"}
  /\ endedAt = "sleep" /\ ~Decided => pc \in {"sleep", "attempt", "classify"}
  /\ endedAt \in {"attempt", "drain", "sleep"} /\ pc = "classify" => err = "ctx"
  /\ endedAt = "decided" => Decided
  /\ endedAt # "returned"
  /\ endedAt \in {"attempt", "drain", "sleep"} /\ Decided => result.kind = "ctx"
  /\ result.kind \in {"exhausted", "rejected", "cause"} =>
       endedAt \in {"never", "decided"}

(* A point of the loop is reached only past the rules that would have decided *)
(* before it, and what the loop holds at "decide" names the rule that did.    *)
RuleSoFar ==
  /\ pc = "retryWhen" =>
       DecidingRule \in {4, 5, 6, 7, 8}
  /\ pc = "successWhen" =>
       DecidingRule \in {5, 6}
  /\ pc = "decide" =>
       \/ DecidingRule \in {1, 8} /\ reason = "plain"
       \/ DecidingRule = 4 /\ reason = "retryWhenMatched"
       \/ DecidingRule = 6 /\ reason = "successWhenFailed"

Inv ==
  /\ TypeOK
  /\ HasResponse
  /\ BodyFollowsResponse
  /\ BufferFollowsResponse
  /\ WithinBudget
  /\ NothingReturnedYet
  /\ EndIsRecorded
  /\ RuleSoFar
  /\ ResultNamesDecidingRule

(* What the caller of Do may rely on: a success comes with its response, and a *)
(* context error without one and with the error of the context, or with one   *)
(* that errors.Is takes for it.                                               *)
ResultIsUsable ==
  Decided =>
    /\ result.resp => resp \in Responses
    /\ result.kind = "success" => result.resp
    /\ result.kind = "ctx" => ~result.resp /\ result.err \in {"ctx", "timeout"}
    /\ result.kind = "ctx" /\ result.err = "ctx" => Ended
=============================================================================
