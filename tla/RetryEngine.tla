----------------------------- MODULE RetryEngine -----------------------------
(***************************************************************************)
(* Engine.Do (internal/retry/retry.go): one call of the retry loop, the    *)
(* context that SIGINT/SIGTERM or --timeout may end at any moment, and the *)
(* server that answers an attempt with whatever it likes.                  *)
(*                                                                         *)
(* Every step reads the context at most once, so that the context may end  *)
(* between any two of the loop's own checks.  The body of the attempt's    *)
(* response is followed from the socket to the caller, byte by byte: what  *)
(* a reader of it gets and in which order, what was read ahead, how its    *)
(* stream ended and whether it was closed.  Draining a body waits for the  *)
(* server, and is a step of its own.  Log lines (the OnRetry hook,         *)
(* warnings) are left out.                                                 *)
(*                                                                         *)
(* A definition called Faulty... is a mistake the one after it avoids; the *)
(* specification does not use it.                                          *)
(***************************************************************************)
EXTENDS Outcome, Sequences

CONSTANTS
  Configs,       \* the retry configurations a call may be made with
  Responses,     \* the responses the server may give
  Errors,        \* errors of an attempt other than the context's own
  NoResp,        \* a nil *http.Response
  MaxAttempts    \* bound: attempts made before the model stops counting

ASSUME ConfigsAssumption == Configs \subseteq RetryConfig

ASSUME ResponsesAssumption == Responses \subseteq Response /\ NoResp \notin Responses

(* "transport": a plain transport error.  "timeout": a dial or DNS timeout,  *)
(* which errors.Is takes for context.DeadlineExceeded although no context    *)
(* has ended.                                                                *)
ASSUME ErrorsAssumption == Errors \subseteq {"transport", "timeout"}

ASSUME MaxAttemptsAssumption == MaxAttempts \in Nat \ {0}

VARIABLES
  cfg,          \* Engine.cfg and which predicates are set
  ctx,          \* "live", or the cause that ended it
  pc,           \* the point the loop has reached
  n,            \* the loop counter: the number of this attempt
  err, resp,    \* what this attempt returned
  body,         \* resp.Body, see BodyState
  overflowed,   \* bufferBody met more than maxBuffer bytes
  reason,       \* the reason classify gave for a retry
  result,       \* what Do returns, once that stands
  endedAt       \* history: the point the loop was at when the context ended

vars == <<cfg, ctx, pc, n, err, resp, body, overflowed, reason, result, endedAt>>

-----------------------------------------------------------------------------
Reasons == {"plain", "retryWhenMatched", "successWhenFailed"}

AttemptErrors == {"none", "transport", "timeout", "ctx", "body"}

Points == {"attempt", "inflight", "buffer", "classify", "retryWhen",
           "successWhen", "decide", "drain", "sleep", "returned"}

(* at:     "none", "open" or "closed"                                        *)
(* stream: the bytes a reader of resp.Body gets, in order                    *)
(* ahead:  how many of them were read into memory                            *)
(* end:    whether the socket was read to its end, or failed on the way      *)
BodyState == [at : {"none", "open", "closed"}, stream : Seq(Nat), ahead : Nat,
              end : {"no", "eof", "failed"}]

(* The bytes of a response, numbered in the order the server sent them. *)
Sent(r) == [i \in 1 .. r.len |-> i]

NoBody == [at |-> "none", stream |-> <<>>, ahead |-> 0, end |-> "no"]

FreshBody(r) == [at |-> "open", stream |-> Sent(r), ahead |-> 0, end |-> "no"]

Kinds == {"none", "success", "terminal", "rejected", "cause", "exhausted", "ctx"}

Result == [kind : Kinds, reason : Reasons, err : AttemptErrors, resp : BOOLEAN]

Report(kind, why, cause, withResp) ==
  result' = [kind |-> kind, reason |-> why, err |-> cause, resp |-> withResp]

Return(kind, why, cause, withResp) ==
  /\ pc' = "returned"
  /\ Report(kind, why, cause, withResp)

Decided == result.kind # "none"

Ended == ctx # "live"

TypeOK ==
  /\ cfg \in Configs
  /\ ctx \in {"live", "canceled", "deadline"}
  /\ pc \in Points
  /\ n \in 1 .. MaxAttempts
  /\ err \in AttemptErrors
  /\ resp \in Responses \cup {NoResp}
  /\ body \in BodyState
  /\ overflowed \in BOOLEAN
  /\ reason \in Reasons
  /\ result \in Result
  /\ endedAt \in Points \cup {"never", "decided"}

Init ==
  /\ cfg \in Configs
  /\ ctx = "live"
  /\ pc = "attempt"
  /\ n = 1
  /\ err = "none" /\ resp = NoResp /\ body = NoBody
  /\ overflowed = FALSE /\ reason = "plain"
  /\ result = [kind |-> "none", reason |-> "plain", err |-> "none", resp |-> FALSE]
  /\ endedAt = "never"

-----------------------------------------------------------------------------
(* Closing a response body *)

FaultyUndrained(buffered, next) ==
  /\ pc' = next
  /\ body' = [body EXCEPT !.at = IF @ = "open" THEN "closed" ELSE @]

FaultyRelease(buffered, next) ==
  /\ pc' = IF body.at = "open" /\ ~buffered THEN "drain" ELSE next
  /\ UNCHANGED body

(* closeAttempt: a buffered body is closed as it is; any other is drained,    *)
(* which drainStatus does whether it was buffered or not.  A nil response has *)
(* no body, and one that could not be buffered is closed already.             *)
Release(buffered, next) ==
  IF body.at = "open" /\ ~buffered
    THEN pc' = "drain" /\ UNCHANGED body
    ELSE /\ pc' = next
         /\ body' = [body EXCEPT !.at = IF @ = "open" THEN "closed" ELSE @]

(* The drain reads until the server ends the body or breaks it off, or until  *)
(* the context ends, whose error io.Copy drops like any other.                *)
Drain ==
  /\ pc = "drain"
  /\ \E end \in {"eof", "failed"} :
       /\ IF end = "eof" THEN ~resp.breaks ELSE resp.breaks \/ Ended
       /\ body' = [body EXCEPT !.at = "closed", !.end = end]
  /\ pc' = IF Decided THEN "returned" ELSE "sleep"
  /\ UNCHANGED <<cfg, ctx, n, err, resp, overflowed, reason, result, endedAt>>

Buffered == err = "none" /\ HasPredicates(cfg)

-----------------------------------------------------------------------------
(* The attempt *)

(* attempt(ctx): the transport refuses a context that has already ended. *)
Begin ==
  /\ pc = "attempt"
  /\ IF Ended
       THEN err' = "ctx" /\ pc' = "classify"
       ELSE pc' = "inflight" /\ UNCHANGED err
  /\ body' = NoBody
  /\ UNCHANGED <<cfg, ctx, n, resp, overflowed, reason, result, endedAt>>

(* The transport succeeds.  The context may have ended on the way. *)
Respond(r) ==
  /\ pc = "inflight"
  /\ resp' = r /\ body' = FreshBody(r)
  /\ pc' = IF HasPredicates(cfg) THEN "buffer" ELSE "classify"
  /\ UNCHANGED <<cfg, ctx, n, err, overflowed, reason, result, endedAt>>

(* The attempt fails; Do allows for a response alongside the error. *)
Fail(e, r) ==
  /\ pc = "inflight"
  /\ e = "ctx" => Ended
  /\ err' = e /\ resp' = r
  /\ body' = IF r = NoResp THEN NoBody ELSE FreshBody(r)
  /\ pc' = "classify"
  /\ UNCHANGED <<cfg, ctx, n, overflowed, reason, result, endedAt>>

ReadAhead == SubSeq(body.stream, 1, BytesRead(cfg, resp))

Remainder == SubSeq(body.stream, BytesRead(cfg, resp) + 1, Len(body.stream))

FaultyRestitched == Remainder \o ReadAhead

(* The MultiReader: what was read, then what the socket still has. *)
Restitched == ReadAhead \o Remainder

(* bufferBody reads what it may and stitches it back on. *)
BufferBody ==
  /\ pc = "buffer"
  /\ ~(ReadsToEnd(cfg, resp) /\ resp.breaks)
  /\ body' = [body EXCEPT !.stream = Restitched, !.ahead = BytesRead(cfg, resp),
                          !.end = IF ReadsToEnd(cfg, resp) THEN "eof" ELSE "no"]
  /\ overflowed' = Overflows(cfg, resp)
  /\ pc' = "classify"
  /\ UNCHANGED <<cfg, ctx, n, err, resp, reason, result, endedAt>>

(* The stream breaks off inside what bufferBody reads, or the context ends    *)
(* while it reads: the body is closed and the response dropped.               *)
BufferFails ==
  /\ pc = "buffer"
  /\ \/ ReadsToEnd(cfg, resp) /\ resp.breaks /\ err' = "body"
     \/ Ended /\ err' = "ctx"
  /\ body' = [body EXCEPT !.at = "closed"]
  /\ resp' = NoResp
  /\ pc' = "classify"
  /\ UNCHANGED <<cfg, ctx, n, overflowed, reason, result, endedAt>>

-----------------------------------------------------------------------------
(* Classification *)

(* contextError: the context has ended, or the error is a context error.    *)
ContextError(e) == Ended \/ e \in {"ctx", "timeout"}

StopOnContextError ==
  /\ pc = "classify" /\ err # "none"
  /\ ContextError(err)
  /\ Report("ctx", "plain", IF Ended THEN "ctx" ELSE err, FALSE)
  /\ Release(FALSE, "returned")
  /\ UNCHANGED <<cfg, ctx, n, err, resp, overflowed, reason, endedAt>>

RetryOnError ==
  /\ pc = "classify" /\ err # "none"
  /\ ~ContextError(err)
  /\ pc' = "decide" /\ reason' = "plain"
  /\ UNCHANGED <<cfg, ctx, n, err, resp, body, overflowed, result, endedAt>>

StopOnTerminalStatus ==
  /\ pc = "classify" /\ err = "none"
  /\ IsTerminal(cfg, resp.status)
  /\ Return("terminal", "plain", "none", TRUE)
  /\ UNCHANGED <<cfg, ctx, n, err, resp, body, overflowed, reason, endedAt>>

AskRetryWhen ==
  /\ pc = "classify" /\ err = "none"
  /\ ~IsTerminal(cfg, resp.status)
  /\ HasPredicates(cfg)
  /\ pc' = "retryWhen"
  /\ UNCHANGED <<cfg, ctx, n, err, resp, body, overflowed, reason, result, endedAt>>

(* What is left when no predicate decides. *)
ByStatus ==
  /\ IF Is2xx(resp.status)
       THEN Return("success", "plain", "none", TRUE) /\ UNCHANGED reason
       ELSE pc' = "decide" /\ reason' = "plain" /\ UNCHANGED result
  /\ UNCHANGED body

ClassifyByStatus ==
  /\ pc = "classify" /\ err = "none"
  /\ ~IsTerminal(cfg, resp.status)
  /\ ~HasPredicates(cfg)
  /\ ByStatus
  /\ UNCHANGED <<cfg, ctx, n, err, resp, overflowed, endedAt>>

Decoded == Decodes(resp, body.ahead, overflowed)

FaultyCutShort(isSet) == FALSE

(* A context that has ended stops any evaluation there is. *)
CutShort(isSet) ==
  /\ isSet /\ Decoded /\ Ended
  /\ Report("ctx", "plain", "ctx", FALSE)
  /\ Release(Buffered, "returned")
  /\ UNCHANGED reason

Answers(isSet, verdict, matched) ==
  /\ matched \in MatchAnswers(isSet, Decoded, verdict)
  /\ isSet /\ Decoded => ~Ended

RetryNow(why) == pc' = "decide" /\ reason' = why /\ UNCHANGED <<body, result>>

EvalRetryWhen ==
  /\ pc = "retryWhen"
  /\ \/ CutShort(cfg.retryWhen)
     \/ /\ Answers(cfg.retryWhen, resp.retryWhen, TRUE)
        /\ RetryNow("retryWhenMatched")
     \/ /\ Answers(cfg.retryWhen, resp.retryWhen, FALSE)
        /\ IF cfg.successWhen
             THEN pc' = "successWhen" /\ UNCHANGED <<body, reason, result>>
             ELSE ByStatus
  /\ UNCHANGED <<cfg, ctx, n, err, resp, overflowed, endedAt>>

EvalSuccessWhen ==
  /\ pc = "successWhen"
  /\ \/ CutShort(cfg.successWhen)
     \/ /\ Answers(cfg.successWhen, resp.successWhen, TRUE)
        /\ Return("success", "plain", "none", TRUE)
        /\ UNCHANGED <<body, reason>>
     \/ /\ Answers(cfg.successWhen, resp.successWhen, FALSE)
        /\ RetryNow("successWhenFailed")
  /\ UNCHANGED <<cfg, ctx, n, err, resp, overflowed, endedAt>>

-----------------------------------------------------------------------------
(* The outcome is Retry *)

FaultyBudgetSpent == cfg.maxRetries >= 0 /\ n >= cfg.maxRetries

FaultyZeroIsNoBudget == cfg.maxRetries > 0 /\ n > cfg.maxRetries

BudgetSpent == cfg.maxRetries >= 0 /\ n > cfg.maxRetries

AbandonRetry ==
  /\ pc = "decide" /\ Ended
  /\ Report("ctx", "plain", "ctx", FALSE)
  /\ Release(Buffered, "returned")
  /\ UNCHANGED <<cfg, ctx, n, err, resp, overflowed, reason, endedAt>>

Failure(once) == IF cfg.maxRetries = 0 THEN once ELSE "exhausted"

ReportFailure ==
  /\ IF err # "none"
       THEN Report(Failure("cause"), "plain", err, FALSE) /\ Release(FALSE, "returned")
       ELSE Return(Failure("rejected"), reason, "none", TRUE) /\ UNCHANGED body
  /\ UNCHANGED <<cfg, ctx, n, err, resp, overflowed, reason, endedAt>>

FaultyGiveUp == pc = "decide" /\ BudgetSpent /\ ReportFailure

(* The context is asked before the budget. *)
GiveUp ==
  /\ pc = "decide" /\ ~Ended
  /\ BudgetSpent
  /\ ReportFailure

BackOff ==
  /\ pc = "decide" /\ ~Ended
  /\ ~BudgetSpent
  /\ Release(Buffered, "sleep")
  /\ UNCHANGED <<cfg, ctx, n, err, resp, overflowed, reason, result, endedAt>>

(* timerSleep: with a positive delay the select may take either branch when  *)
(* the context and the timer are both ready.                                 *)
TimerFires == cfg.delays \/ ~Ended

WakeUp ==
  /\ pc = "sleep"
  /\ TimerFires
  /\ n < MaxAttempts
  /\ n' = n + 1
  /\ pc' = "attempt"
  /\ err' = "none" /\ resp' = NoResp /\ overflowed' = FALSE /\ reason' = "plain"
  /\ UNCHANGED <<cfg, ctx, body, result, endedAt>>

SleepInterrupted ==
  /\ pc = "sleep" /\ Ended
  /\ Return("ctx", "plain", "ctx", FALSE)
  /\ UNCHANGED <<cfg, ctx, n, err, resp, body, overflowed, reason, endedAt>>

-----------------------------------------------------------------------------
(* SIGINT/SIGTERM cancels the context and --timeout gives it a deadline: the *)
(* first to happen is the context's error for good.                          *)
EndContext(cause) ==
  /\ ctx = "live"
  /\ ctx' = cause
  /\ endedAt' = IF Decided THEN "decided" ELSE pc
  /\ UNCHANGED <<cfg, pc, n, err, resp, body, overflowed, reason, result>>

Attempt ==
  \/ Begin
  \/ \E r \in Responses : Respond(r)
  \/ \E e \in Errors \cup {"ctx"}, r \in Responses \cup {NoResp} : Fail(e, r)
  \/ BufferBody
  \/ BufferFails

Classify ==
  \/ StopOnContextError
  \/ RetryOnError
  \/ StopOnTerminalStatus
  \/ AskRetryWhen
  \/ ClassifyByStatus
  \/ EvalRetryWhen
  \/ EvalSuccessWhen

Decide ==
  \/ AbandonRetry
  \/ GiveUp
  \/ BackOff
  \/ Drain
  \/ WakeUp
  \/ SleepInterrupted

Loop == Attempt \/ Classify \/ Decide

(* The caller has the result; nothing is left to do. *)
Finished == pc = "returned" /\ UNCHANGED vars

Next ==
  \/ Loop
  \/ \E cause \in {"canceled", "deadline"} : EndContext(cause)
  \/ Finished

(* Do is one goroutine and goes on whenever it can.  Nothing obliges the      *)
(* server to answer or to end a body, be it one that is buffered or one that  *)
(* is drained, so a wait for it is fair only once the context has ended: the  *)
(* transport honours it (client.go sets no timeout for a response).           *)
Waiting == pc \in {"inflight", "buffer", "drain"} /\ ~Ended

Fairness == WF_vars(Loop /\ ~Waiting)

Spec == Init /\ [][Next]_vars

FairSpec == Spec /\ Fairness

-----------------------------------------------------------------------------
(* Safety *)

Returned(kinds) == pc = "returned" /\ result.kind \in kinds

(* The budget is --retry N: at most 1+N attempts are made, the budget is      *)
(* reported as used up after exactly 1+N of them, and with N=0 the attempt's  *)
(* own failure is reported instead (retry.go:168-194).                        *)
BudgetIsExact ==
  /\ cfg.maxRetries >= 0 => n <= cfg.maxRetries + 1
  /\ Returned({"exhausted"}) => cfg.maxRetries > 0 /\ n = cfg.maxRetries + 1
  /\ Returned({"rejected", "cause"}) => cfg.maxRetries = 0 /\ n = 1

(* No body outlives its attempt, and the caller holds an open body exactly    *)
(* when Do handed it a response (the doc comment of Do, retry.go:113-122).    *)
BodyOwnership ==
  /\ pc = "sleep" => body.at # "open"
  /\ pc = "returned" => (result.resp <=> body.at = "open")

(* A body that was neither read to its end nor broke off on the way is closed *)
(* only when it is over the cap: it costs the connection (closeAttempt,       *)
(* retry.go:230-242).                                                         *)
AbandonedOnlyOverCap ==
  body.at = "closed" /\ resp # NoResp => body.end # "no" \/ overflowed

(* The rule of the table in docs/retry.md:20-29 for the attempt at hand. *)
DecidingRule == RuleNumber(cfg, err # "none", resp)

FailureKind == IF cfg.maxRetries = 0 THEN "rejected" ELSE "exhausted"

Reports ==
  /\ DecidingRule = 1 => /\ result.kind \in {"cause", "exhausted"}
                         /\ result.err = err
  /\ DecidingRule \in {2, 3} => result.kind = "terminal"
  /\ DecidingRule = 4 => /\ result.kind = FailureKind
                         /\ result.reason = "retryWhenMatched"
  /\ DecidingRule \in {5, 7} => result.kind = "success"
  /\ DecidingRule = 6 => /\ result.kind = FailureKind
                         /\ result.reason = "successWhenFailed"
  /\ DecidingRule = 8 => result.kind = FailureKind /\ result.reason = "plain"

(* What Do reports is decided by the first matching rule of the table in      *)
(* docs/retry.md:20-29, applied to the last attempt alone, whatever was read  *)
(* ahead, however the predicates were asked and whichever attempts came       *)
(* before.  A "timeout" is left to TimeoutIsRetried.                          *)
ResultNamesDecidingRule ==
  result.kind \notin {"none", "ctx"} => Reports

(* An interrupt is never reported as something else.  A context that ends     *)
(* before an attempt is sent, while the body of a failed one is drained or    *)
(* during a backoff is what Do returns; one that ends at any time before the  *)
(* outcome stands is never masked by a used-up budget or a failed attempt,    *)
(* which would turn exit code 124 or 130 into 1.                              *)
InterruptIsNotMasked ==
  /\ pc = "returned" /\ endedAt \in {"attempt", "drain", "sleep"} => result.kind = "ctx"
  /\ Returned({"exhausted", "rejected", "cause"}) => endedAt \in {"never", "decided"}

(* docs/retry.md:22: rule 1, "transport error (connection refused, TLS        *)
(* failure, timeout) | retry".  Do stops for a context error only if the      *)
(* context has ended.                                                         *)
TimeoutIsRetried == Returned({"ctx"}) => Ended

(* Liveness *)

(* Once the context has ended the loop returns, from wherever it is: a        *)
(* predicate that never ends, a server that never answers and a body that     *)
(* never ends included.                                                       *)
EndedContextReturns == Ended ~> pc = "returned"

Hangs == /\ pc \in {"retryWhen", "successWhen"}
         /\ resp[pc] = "hang"

(* With a finite budget and no --timeout only two things keep Do from         *)
(* returning: a server that never answers or never ends a body, and a         *)
(* predicate that never ends.                                                 *)
FiniteBudgetReturns ==
  cfg.maxRetries >= 0 => <>(pc = "returned") \/ <>[](Waiting \/ Hangs)
=============================================================================
