----------------------------- MODULE RetryProofs -----------------------------
(***************************************************************************)
(* Theorems about RetryEngine, for every set of configurations and         *)
(* responses.                                                              *)
(***************************************************************************)
EXTENDS RetryInvariant, RequestCommand, SequenceTheorems, TLAPS

(* bufferBody reads some of the bytes there are, whatever the cap.          *)
LEMMA BytesReadIsWithin ==
  ASSUME NEW c \in RetryConfig, NEW r \in Response
  PROVE  BytesRead(c, r) \in 0 .. r.len
<1>1. r.len \in Nat BY DEF Response
<1>2. c.maxBuffer \in Int /\ IntMax \in Int
  BY IntMaxAssumption DEF RetryConfig
<1>3. Wrap(c.maxBuffer + 1) \in Int BY <1>2 DEF Wrap
<1> QED BY <1>1, <1>3 DEF BytesRead, LimitedLen

(* The bytes of a response are a sequence as long as it. *)
LEMMA SentIsItsBytes ==
  ASSUME NEW r \in Response
  PROVE  Sent(r) \in Seq(Nat) /\ Len(Sent(r)) = r.len
<1>1. r.len \in Nat BY DEF Response
<1>2. Sent(r) \in [1 .. r.len -> Nat] BY <1>1 DEF Sent
<1> QED BY <1>1, <1>2, LenProperties DEF Sent

(* What was read ahead and the remainder, in this order, are the stream. *)
LEMMA RestitchedIsTheStream ==
  ASSUME body.stream \in Seq(Nat), BytesRead(cfg, resp) \in 0 .. Len(body.stream)
  PROVE  Restitched = body.stream
<1>1. Len(body.stream) \in Nat BY LenProperties
<1>2. SubSeq(body.stream, 1, BytesRead(cfg, resp))
        \o SubSeq(body.stream, BytesRead(cfg, resp) + 1, Len(body.stream))
      = SubSeq(body.stream, 1, Len(body.stream))
  <2> DEFINE t == body.stream
             k == BytesRead(cfg, resp)
  <2>1. 1 \in 1 .. Len(t) + 1 /\ k \in 1 - 1 .. Len(t) /\ Len(t) \in k .. Len(t)
    BY <1>1
  <2> HIDE DEF k, t
  <2>2. t \in Seq(Nat) BY DEF t
  <2> QED BY <2>1, <2>2, ConcatAdjacentSubSeq DEF k, t
<1> QED BY <1>2, SubSeqFull DEF Restitched, ReadAhead, Remainder

(* A body is left open to be drained, or it is closed as far as it was read. *)
LEMMA ReleaseOutcome ==
  ASSUME body \in BodyState, NEW buffered, NEW next, Release(buffered, next)
  PROVE  /\ body' \in BodyState
         /\ \/ body.at = "open" /\ ~buffered /\ pc' = "drain" /\ body' = body
            \/ /\ body.at = "open" => buffered
               /\ pc' = next /\ body'.at # "open"
               /\ body'.at = "none" <=> body.at = "none"
               /\ body'.end = body.end
BY DEF BodyState, Release

(* Buffering leaves the bytes in their order. *)
LEMMA BufferOutcome ==
  ASSUME TypeOK, resp \in Responses, body = FreshBody(resp), BufferBody
  PROVE  /\ body' \in BodyState /\ overflowed' \in BOOLEAN
         /\ body'.at = "open" /\ body'.stream = Sent(resp)
         /\ body'.ahead = BytesRead(cfg, resp) /\ body'.ahead <= resp.len
         /\ body'.end = IF ReadsToEnd(cfg, resp) THEN "eof" ELSE "no"
<1>1. cfg \in RetryConfig /\ resp \in Response
  BY ConfigsAssumption, ResponsesAssumption DEF TypeOK
<1>2. BytesRead(cfg, resp) \in 0 .. resp.len BY <1>1, BytesReadIsWithin
<1>3. body.stream = Sent(resp) /\ body.at = "open" BY DEF FreshBody
<1>4. Restitched = Sent(resp) BY <1>1, <1>2, <1>3, SentIsItsBytes, RestitchedIsTheStream
<1>5. body' = [body EXCEPT !.stream = Sent(resp), !.ahead = BytesRead(cfg, resp),
                           !.end = IF ReadsToEnd(cfg, resp) THEN "eof" ELSE "no"]
  BY <1>4 DEF BufferBody
<1>6. resp.len \in Nat BY <1>1 DEF Response
<1>7. overflowed' \in BOOLEAN BY DEF BufferBody, Overflows, Unlimited
<1>8. /\ body'.at = "open" /\ body'.stream = Sent(resp)
      /\ body'.ahead = BytesRead(cfg, resp)
      /\ body'.end = IF ReadsToEnd(cfg, resp) THEN "eof" ELSE "no"
      /\ body' = [at |-> body'.at, stream |-> body'.stream, ahead |-> body'.ahead,
                  end |-> body'.end]
  BY <1>3, <1>5 DEF TypeOK, BodyState
<1>9. Sent(resp) \in Seq(Nat) BY <1>1, SentIsItsBytes
<1>10. body' \in BodyState BY <1>2, <1>6, <1>8, <1>9 DEF BodyState
<1> QED BY <1>2, <1>6, <1>7, <1>8, <1>10

(* Draining closes the body, at its end or where it failed. *)
LEMMA DrainOutcome ==
  ASSUME body \in BodyState, Drain
  PROVE  /\ body' \in BodyState /\ body'.at = "closed" /\ body'.end # "no"
         /\ pc' = IF Decided THEN "returned" ELSE "sleep"
         /\ UNCHANGED <<cfg, ctx, n, err, resp, overflowed, reason, result, endedAt>>
BY DEF BodyState, Drain

-----------------------------------------------------------------------------
(* A call of Do starts well-typed. *)
LEMMA TypeInit == Init => TypeOK
<1> SUFFICES ASSUME Init PROVE TypeOK OBVIOUS
<1> USE DEF Init
<1>1. n \in 1 .. MaxAttempts BY MaxAttemptsAssumption DEF MaxAttemptsAssumption
<1>2. body \in BodyState BY EmptySeq DEF BodyState, NoBody
<1>3. result \in Result BY DEF Result, Kinds, Reasons, AttemptErrors
<1> QED BY <1>1, <1>2, <1>3 DEF TypeOK, Points, AttemptErrors, Reasons

(* What is reported is a result. *)
LEMMA ReportKeepsType ==
  ASSUME NEW kind \in Kinds, NEW why \in Reasons, NEW cause \in AttemptErrors,
         NEW with \in BOOLEAN, Report(kind, why, cause, with)
  PROVE  result' \in Result
BY DEF Report, Result

(* A step that changes nothing keeps the types. *)
LEMMA StutterKeepsType == TypeOK /\ UNCHANGED vars => TypeOK'
BY DEF TypeOK, vars

(* Every step of the loop keeps the types. *)
LEMMA TypeNext == Inv /\ [Next]_vars => TypeOK'
<1> SUFFICES ASSUME TypeOK, HasResponse, BodyFollowsResponse, [Next]_vars PROVE TypeOK'
  BY DEF Inv
<1> USE DEF TypeOK
<1>b. NoBody \in BodyState /\ \A r \in Responses : FreshBody(r) \in BodyState
  BY EmptySeq, SentIsItsBytes, ResponsesAssumption DEF BodyState, NoBody, FreshBody
<1> USE DEF Points, AttemptErrors, Reasons, Kinds, Return
<1>1. CASE Begin BY <1>1, <1>b DEF Begin
<1>2. ASSUME NEW r \in Responses, Respond(r) PROVE TypeOK'
  BY <1>2, <1>b DEF Respond
<1>3. ASSUME NEW e \in Errors \cup {"ctx"}, NEW r \in Responses \cup {NoResp}, Fail(e, r)
      PROVE TypeOK'
  BY <1>3, <1>b, ErrorsAssumption DEF Fail
<1>4. CASE BufferBody
  <2>1. resp \in Responses /\ body = FreshBody(resp)
    BY <1>4 DEF BufferBody, HasResponse, BodyFollowsResponse
  <2> QED BY <1>4, <2>1, BufferOutcome DEF BufferBody
<1>5. CASE BufferFails BY <1>5 DEF BufferFails, BodyState
<1>6. CASE StopOnContextError
  BY <1>6, ReleaseOutcome, ReportKeepsType DEF StopOnContextError
<1>7. CASE RetryOnError BY <1>7 DEF RetryOnError
<1>8. CASE StopOnTerminalStatus BY <1>8, ReportKeepsType DEF StopOnTerminalStatus
<1>9. CASE AskRetryWhen BY <1>9 DEF AskRetryWhen
<1>10. CASE ClassifyByStatus BY <1>10, ReportKeepsType DEF ClassifyByStatus, ByStatus
<1>11. CASE EvalRetryWhen
  <2>1. CASE CutShort(cfg.retryWhen)
    BY <1>11, <2>1, ReleaseOutcome, ReportKeepsType DEF EvalRetryWhen, CutShort
  <2>2. CASE RetryNow("retryWhenMatched")
    BY <1>11, <2>2 DEF EvalRetryWhen, RetryNow
  <2>3. CASE pc' = "successWhen" /\ UNCHANGED <<body, reason, result>>
    BY <1>11, <2>3 DEF EvalRetryWhen
  <2>4. CASE ByStatus
    BY <1>11, <2>4, ReportKeepsType DEF EvalRetryWhen, ByStatus
  <2> QED BY <1>11, <2>1, <2>2, <2>3, <2>4 DEF EvalRetryWhen
<1>12. CASE EvalSuccessWhen
  <2>1. CASE CutShort(cfg.successWhen)
    BY <1>12, <2>1, ReleaseOutcome, ReportKeepsType DEF EvalSuccessWhen, CutShort
  <2>2. CASE RetryNow("successWhenFailed")
    BY <1>12, <2>2 DEF EvalSuccessWhen, RetryNow
  <2>3. CASE Return("success", "plain", "none", TRUE) /\ UNCHANGED <<body, reason>>
    BY <1>12, <2>3, ReportKeepsType DEF EvalSuccessWhen
  <2> QED BY <1>12, <2>1, <2>2, <2>3 DEF EvalSuccessWhen
<1>13. CASE AbandonRetry BY <1>13, ReleaseOutcome, ReportKeepsType DEF AbandonRetry
<1>14. CASE GiveUp
  BY <1>14, ReleaseOutcome, ReportKeepsType DEF GiveUp, ReportFailure, Failure
<1>15. CASE BackOff BY <1>15, ReleaseOutcome DEF BackOff
<1>20. CASE Drain BY <1>20, DrainOutcome
<1>16. CASE WakeUp
  <2>1. n' \in 1 .. MaxAttempts
    <3>1. n \in 1 .. MaxAttempts /\ n' = n + 1 /\ n < MaxAttempts BY <1>16 DEF WakeUp
    <3> QED BY ONLY <3>1, MaxAttemptsAssumption
  <2> QED BY <1>16, <2>1 DEF WakeUp
<1>17. CASE SleepInterrupted BY <1>17, ReportKeepsType DEF SleepInterrupted
<1>18. ASSUME NEW cause \in {"canceled", "deadline"}, EndContext(cause) PROVE TypeOK'
  BY <1>18 DEF EndContext
<1>19. CASE UNCHANGED vars BY <1>19, StutterKeepsType
<1> QED
  BY <1>1, <1>2, <1>3, <1>4, <1>5, <1>6, <1>7, <1>8, <1>9, <1>10, <1>11, <1>12, <1>13,
     <1>14, <1>15, <1>16, <1>17, <1>18, <1>19, <1>20
  DEF Next, Loop, Attempt, Classify, Decide, Finished

-----------------------------------------------------------------------------
(* What one evaluation of a predicate does, whichever predicate it is. *)
LEMMA EvalOutcome ==
  ASSUME EvalRetryWhen \/ EvalSuccessWhen
  PROVE  /\ pc \in {"retryWhen", "successWhen"}
         /\ UNCHANGED <<cfg, ctx, n, err, resp, overflowed, endedAt>>
         /\ \/ /\ Ended /\ Release(Buffered, "returned")
               /\ Report("ctx", "plain", "ctx", FALSE)
            \/ body' = body /\ Return("success", "plain", "none", TRUE)
            \/ UNCHANGED <<body, result>> /\ pc' \in {"successWhen", "decide"}
BY DEF EvalRetryWhen, EvalSuccessWhen, CutShort, RetryNow, ByStatus

(* An attempt without an error has a response to judge. *)
LEMMA HasResponseNext == Inv /\ [Next]_vars => HasResponse'
<1> SUFFICES ASSUME TypeOK, HasResponse, [Next]_vars PROVE HasResponse' BY DEF Inv
<1> USE DEF HasResponse, Judging, Return, Release
<1>1. CASE Attempt
  BY <1>1, ResponsesAssumption, ErrorsAssumption
  DEF Attempt, Begin, Respond, Fail, BufferBody, BufferFails, TypeOK
<1>2. CASE Classify
  BY <1>2 DEF Classify, StopOnContextError, RetryOnError, StopOnTerminalStatus,
     AskRetryWhen, ClassifyByStatus, EvalRetryWhen, EvalSuccessWhen, CutShort,
     RetryNow, ByStatus
<1>3. CASE Decide
  BY <1>3 DEF Decide, AbandonRetry, GiveUp, ReportFailure, BackOff, WakeUp, SleepInterrupted, Drain
<1>4. ASSUME NEW cause \in {"canceled", "deadline"}, EndContext(cause) PROVE HasResponse'
  BY <1>4 DEF EndContext
<1>5. CASE UNCHANGED vars BY <1>5 DEF vars
<1> QED BY <1>1, <1>2, <1>3, <1>4, <1>5 DEF Next, Loop, Finished

(* A body is open exactly while its response is judged or handed over. *)
LEMMA BodyFollowsResponseNext == Inv /\ [Next]_vars => BodyFollowsResponse'
<1> SUFFICES ASSUME TypeOK, HasResponse, BodyFollowsResponse, NothingReturnedYet, [Next]_vars
             PROVE  BodyFollowsResponse'
  BY DEF Inv
<1>a. body \in BodyState /\ NoResp \notin Responses
  BY ResponsesAssumption DEF TypeOK
<1>b. ASSUME NEW r \in Responses
      PROVE  FreshBody(r).at = "open" /\ FreshBody(r).stream = Sent(r) /\ FreshBody(r).ahead <= r.len
  BY ResponsesAssumption DEF FreshBody, Response
<1> USE DEF BodyFollowsResponse, HasResponse, Judging
<1>1. CASE Attempt
  <2>1. CASE Begin BY <2>1, <1>a DEF Begin, NoBody
  <2>2. ASSUME NEW r \in Responses, Respond(r) PROVE BodyFollowsResponse'
    BY <2>2, <1>a, <1>b DEF Respond
  <2>3. ASSUME NEW e \in Errors \cup {"ctx"}, NEW r \in Responses \cup {NoResp}, Fail(e, r)
        PROVE BodyFollowsResponse'
    BY <2>3, <1>a, <1>b DEF Fail, NoBody
  <2>4. CASE BufferBody
    <3>1. resp \in Responses /\ body = FreshBody(resp) BY <2>4 DEF BufferBody
    <3>2. /\ body'.at = "open" /\ body'.stream = Sent(resp) /\ body'.ahead <= resp.len
      BY <2>4, <3>1, BufferOutcome
    <3> QED BY <2>4, <3>1, <3>2, <1>a DEF BufferBody
  <2>5. CASE BufferFails
    <3>1. body'.at = "closed" BY <2>5, <1>a DEF BufferFails, BodyState
    <3> QED BY <2>5, <3>1 DEF BufferFails
  <2> QED BY <1>1, <2>1, <2>2, <2>3, <2>4, <2>5 DEF Attempt
<1>c. ASSUME NEW buffered, NEW next \in {"returned", "sleep"}, Release(buffered, next),
             pc \in Judging, resp' = resp, ~result'.resp
      PROVE  BodyFollowsResponse'
  BY <1>a, <1>c, ReleaseOutcome
<1>d. result.resp => pc \in {"drain", "returned"}
  BY DEF NothingReturnedYet
<1>2. CASE Classify
  <2>1. CASE StopOnContextError BY <2>1, <1>c DEF StopOnContextError, Report
  <2>2. CASE RetryOnError BY <2>2 DEF RetryOnError
  <2>3. CASE StopOnTerminalStatus BY <2>3, <1>a DEF StopOnTerminalStatus, Return, Report
  <2>4. CASE AskRetryWhen BY <2>4 DEF AskRetryWhen
  <2>5. CASE ClassifyByStatus
    BY <2>5, <1>a DEF ClassifyByStatus, ByStatus, Return, Report
  <2>6. CASE EvalRetryWhen \/ EvalSuccessWhen
    BY <2>6, <1>a, <1>c, EvalOutcome DEF Return, Report
  <2> QED BY <1>2, <2>1, <2>2, <2>3, <2>4, <2>5, <2>6 DEF Classify
<1>3. CASE Decide
  <2>1. CASE AbandonRetry BY <2>1, <1>c DEF AbandonRetry, Report
  <2>2. CASE GiveUp
    <3>1. CASE err # "none"
      <4>1. ~result'.resp BY <2>2, <3>1 DEF GiveUp, ReportFailure, Report
      <4>2. Release(FALSE, "returned") /\ pc = "decide" /\ resp' = resp
        BY <2>2, <3>1 DEF GiveUp, ReportFailure
      <4> QED BY <4>1, <4>2, <1>c
    <3>2. CASE err = "none"
      <4>1. body.at = "open" BY <2>2, <3>2, <1>a DEF GiveUp
      <4>2. /\ UNCHANGED <<body, resp>> /\ result'.resp = TRUE /\ pc' = "returned"
        BY <2>2, <3>2 DEF GiveUp, ReportFailure, Return, Report
      <4> QED BY <4>1, <4>2
    <3> QED BY <3>1, <3>2
  <2>3. CASE BackOff
    <3>1. ~result.resp BY <2>3, <1>d DEF BackOff
    <3> QED BY <2>3, <3>1, <1>c DEF BackOff
  <2>4. CASE WakeUp BY <2>4 DEF WakeUp
  <2>5. CASE SleepInterrupted BY <2>5 DEF SleepInterrupted, Return, Report
  <2>6. CASE Drain
    BY <2>6, <1>a, DrainOutcome DEF Drain
  <2> QED BY <1>3, <2>1, <2>2, <2>3, <2>4, <2>5, <2>6 DEF Decide
<1>4. ASSUME NEW cause \in {"canceled", "deadline"}, EndContext(cause) PROVE BodyFollowsResponse'
  BY <1>4 DEF EndContext
<1>5. CASE UNCHANGED vars BY <1>5 DEF vars
<1> QED BY <1>1, <1>2, <1>3, <1>4, <1>5 DEF Next, Loop, Finished

(* The outcome stands at the end, and before it only a drain is left. *)
LEMMA NothingReturnedYetNext == Inv /\ [Next]_vars => NothingReturnedYet'
<1> SUFFICES ASSUME TypeOK, NothingReturnedYet, [Next]_vars PROVE NothingReturnedYet' BY DEF Inv
<1> USE DEF NothingReturnedYet, Decided
<1>a. ASSUME NEW kind, NEW why, NEW cause, NEW with, kind # "none",
             Report(kind, why, cause, with)
      PROVE  result'.kind # "none"
  BY <1>a DEF Report
<1>b. ASSUME NEW buffered, NEW next, Release(buffered, next)
      PROVE  pc' \in {"drain", next}
  BY <1>b DEF Release
<1>1. CASE Attempt
  BY <1>1
  DEF Attempt, Begin, Respond, Fail, BufferBody, BufferFails
<1>2. CASE Classify
  <2>1. CASE StopOnContextError BY <2>1, <1>a, <1>b DEF StopOnContextError
  <2>2. CASE RetryOnError BY <2>2 DEF RetryOnError
  <2>3. CASE StopOnTerminalStatus BY <2>3, <1>a DEF StopOnTerminalStatus, Return
  <2>4. CASE AskRetryWhen BY <2>4 DEF AskRetryWhen
  <2>5. CASE ClassifyByStatus BY <2>5, <1>a DEF ClassifyByStatus, ByStatus, Return
  <2>6. CASE EvalRetryWhen \/ EvalSuccessWhen BY <2>6, <1>a, <1>b, EvalOutcome DEF Return
  <2> QED BY <1>2, <2>1, <2>2, <2>3, <2>4, <2>5, <2>6 DEF Classify
<1>3. CASE Decide
  <2>1. CASE AbandonRetry BY <2>1, <1>a, <1>b DEF AbandonRetry
  <2>2. CASE GiveUp
    <3>1. Failure("cause") # "none" /\ Failure("rejected") # "none" BY DEF Failure
    <3> QED BY <2>2, <3>1, <1>a, <1>b DEF GiveUp, ReportFailure, Return
  <2>3. CASE BackOff BY <2>3, <1>b DEF BackOff
  <2>4. CASE WakeUp BY <2>4 DEF WakeUp
  <2>5. CASE SleepInterrupted BY <2>5, <1>a DEF SleepInterrupted, Return
  <2>6. CASE Drain BY <2>6 DEF Drain
  <2> QED BY <1>3, <2>1, <2>2, <2>3, <2>4, <2>5, <2>6 DEF Decide
<1>4. ASSUME NEW cause \in {"canceled", "deadline"}, EndContext(cause) PROVE NothingReturnedYet'
  BY <1>4 DEF EndContext
<1>5. CASE UNCHANGED vars BY <1>5 DEF vars
<1> QED BY <1>1, <1>2, <1>3, <1>4, <1>5 DEF Next, Loop, Finished

(* Every attempt but the last leaves a retry in the budget. *)
LEMMA WithinBudgetNext == Inv /\ [Next]_vars => WithinBudget'
<1> SUFFICES ASSUME TypeOK, WithinBudget, NothingReturnedYet, [Next]_vars PROVE WithinBudget' BY DEF Inv
<1> USE DEF WithinBudget, NothingReturnedYet, Decided, BudgetSpent
<1>a. n \in Int /\ cfg.maxRetries \in Int
  BY ConfigsAssumption, MaxAttemptsAssumption DEF TypeOK, RetryConfig
<1>b. ASSUME NEW kind, NEW why, NEW cause, NEW with, Report(kind, why, cause, with)
      PROVE  result'.kind = kind
  BY <1>b DEF Report
<1>c. ASSUME NEW buffered, NEW next, Release(buffered, next)
      PROVE  pc' \in {"drain", next}
  BY <1>c DEF Release
<1>1. CASE Attempt
  BY <1>1
  DEF Attempt, Begin, Respond, Fail, BufferBody, BufferFails
<1>2. CASE Classify
  <2>1. CASE StopOnContextError BY <2>1, <1>b DEF StopOnContextError
  <2>2. CASE RetryOnError BY <2>2 DEF RetryOnError
  <2>3. CASE StopOnTerminalStatus BY <2>3, <1>b DEF StopOnTerminalStatus, Return
  <2>4. CASE AskRetryWhen BY <2>4 DEF AskRetryWhen
  <2>5. CASE ClassifyByStatus BY <2>5, <1>b DEF ClassifyByStatus, ByStatus, Return
  <2>6. CASE EvalRetryWhen \/ EvalSuccessWhen BY <2>6, <1>b, EvalOutcome DEF Return
  <2> QED BY <1>2, <2>1, <2>2, <2>3, <2>4, <2>5, <2>6 DEF Classify
<1>3. CASE Decide
  <2>1. CASE AbandonRetry BY <2>1, <1>b DEF AbandonRetry
  <2>2. CASE GiveUp
    <3>1. UNCHANGED <<cfg, n>> /\ result'.kind \in {Failure("cause"), Failure("rejected")}
      BY <2>2, <1>b DEF GiveUp, ReportFailure, Return
    <3> QED BY <2>2, <3>1, <1>a DEF GiveUp, Failure
  <2>3. CASE BackOff BY <2>3, <1>a, <1>c DEF BackOff
  <2>4. CASE WakeUp BY <2>4, <1>a DEF WakeUp
  <2>5. CASE SleepInterrupted BY <2>5, <1>b DEF SleepInterrupted, Return
  <2>6. CASE Drain BY <2>6 DEF Drain
  <2> QED BY <1>3, <2>1, <2>2, <2>3, <2>4, <2>5, <2>6 DEF Decide
<1>4. ASSUME NEW cause \in {"canceled", "deadline"}, EndContext(cause) PROVE WithinBudget'
  BY <1>4 DEF EndContext
<1>5. CASE UNCHANGED vars BY <1>5 DEF vars
<1> QED BY <1>1, <1>2, <1>3, <1>4, <1>5 DEF Next, Loop, Finished

(* The place where the context ended and what the loop may still do. *)
LEMMA EndIsRecordedNext == Inv /\ [Next]_vars => EndIsRecorded'
<1> SUFFICES ASSUME TypeOK, EndIsRecorded, NothingReturnedYet, [Next]_vars PROVE EndIsRecorded' BY DEF Inv
<1> USE DEF EndIsRecorded, NothingReturnedYet, Decided, Ended
<1>a. ASSUME NEW kind, NEW why, NEW cause, NEW with, Report(kind, why, cause, with)
      PROVE  result'.kind = kind
  BY <1>a DEF Report
<1>b. ASSUME NEW buffered, NEW next, Release(buffered, next)
      PROVE  pc' \in {"drain", next}
  BY <1>b DEF Release
<1>1. CASE Attempt
  BY <1>1
  DEF Attempt, Begin, Respond, Fail, BufferBody, BufferFails
<1>2. CASE Classify
  <2>1. CASE StopOnContextError BY <2>1, <1>a, <1>b DEF StopOnContextError
  <2>2. CASE RetryOnError BY <2>2 DEF RetryOnError, ContextError
  <2>3. CASE StopOnTerminalStatus BY <2>3, <1>a DEF StopOnTerminalStatus, Return
  <2>4. CASE AskRetryWhen BY <2>4 DEF AskRetryWhen
  <2>5. CASE ClassifyByStatus BY <2>5, <1>a DEF ClassifyByStatus, ByStatus, Return
  <2>6. CASE EvalRetryWhen \/ EvalSuccessWhen BY <2>6, <1>a, <1>b, EvalOutcome DEF Return
  <2> QED BY <1>2, <2>1, <2>2, <2>3, <2>4, <2>5, <2>6 DEF Classify
<1>3. CASE Decide
  <2>1. CASE AbandonRetry BY <2>1, <1>a, <1>b DEF AbandonRetry
  <2>2. CASE GiveUp
    BY <2>2, <1>a, <1>b DEF GiveUp, ReportFailure, Failure, Return
  <2>3. CASE BackOff BY <2>3, <1>b DEF BackOff
  <2>4. CASE WakeUp BY <2>4 DEF WakeUp
  <2>5. CASE SleepInterrupted BY <2>5, <1>a DEF SleepInterrupted, Return
  <2>6. CASE Drain BY <2>6 DEF Drain
  <2> QED BY <1>3, <2>1, <2>2, <2>3, <2>4, <2>5, <2>6 DEF Decide
<1>4. ASSUME NEW cause \in {"canceled", "deadline"}, EndContext(cause) PROVE EndIsRecorded'
  BY <1>4 DEF EndContext, TypeOK, Points
<1>5. CASE UNCHANGED vars BY <1>5 DEF vars
<1> QED BY <1>1, <1>2, <1>3, <1>4, <1>5 DEF Next, Loop, Finished

-----------------------------------------------------------------------------
(* The predicates get an input exactly when the documentation says they do:  *)
(* the read limit, its overflow and the empty body agree with the cap.       *)
LEMMA DecodedIsEvaluable ==
  ASSUME NEW c \in RetryConfig, NEW r \in Response
  PROVE  Decodes(r, BytesRead(c, r), Overflows(c, r)) <=> Evaluable(c, r)
<1> USE IntMaxAssumption
<1>1. r.len \in Nat /\ c.maxBuffer \in 0 .. IntMax BY DEF Response, RetryConfig
<1>2. CASE Unlimited(c)
  BY <1>1, <1>2 DEF Decodes, Evaluable, WithinCap, Unlimited, BytesRead, Overflows
<1>3. CASE ~Unlimited(c)
  <2>1. c.maxBuffer > 0 /\ c.maxBuffer < IntMax BY <1>1, <1>3 DEF Unlimited
  <2>2. Wrap(c.maxBuffer + 1) = c.maxBuffer + 1 BY <1>1, <2>1 DEF Wrap
  <2>3. BytesRead(c, r) = IF r.len < c.maxBuffer + 1 THEN r.len ELSE c.maxBuffer + 1
    BY <1>1, <1>3, <2>1, <2>2 DEF BytesRead, LimitedLen
  <2> QED BY <1>1, <1>3, <2>1, <2>3 DEF Decodes, Evaluable, WithinCap, Overflows
<1> QED BY <1>2, <1>3

(* The table read from the top: an error is rule 1, ... *)
LEMMA ErrorRule == (err # "none") <=> (DecidingRule = 1)
BY DEF RuleNumber, DecidingRule

(* ... a terminal status is rule 2 or 3, ... *)
LEMMA TerminalRule ==
  ASSUME err = "none", IsTerminal(cfg, resp.status)
  PROVE  DecidingRule \in {2, 3}
BY DEF DecidingRule, RuleNumber, IsTerminal, Aborts, OutsideRetryOn

(* The rule depends on the attempt alone. *)
LEMMA SameRule == UNCHANGED <<cfg, err, resp>> => DecidingRule' = DecidingRule
BY DEF DecidingRule

(* ... and past both the predicates are asked in turn, then the status. *)
LEMMA LaterRule ==
  ASSUME cfg \in RetryConfig, resp \in Response, err = "none",
         ~IsTerminal(cfg, resp.status)
  PROVE  LET retry   == cfg.retryWhen /\ Evaluable(cfg, resp) /\ resp.retryWhen = "truthy"
             success == Evaluable(cfg, resp) /\ resp.successWhen = "truthy"
         IN  /\ retry => DecidingRule = 4
             /\ ~retry /\ cfg.successWhen /\ success => DecidingRule = 5
             /\ ~retry /\ cfg.successWhen /\ ~success => DecidingRule = 6
             /\ ~retry /\ ~cfg.successWhen /\ Is2xx(resp.status) => DecidingRule = 7
             /\ ~retry /\ ~cfg.successWhen /\ ~Is2xx(resp.status) => DecidingRule = 8
BY DEF DecidingRule, RuleNumber, IsTerminal, Aborts, OutsideRetryOn

-----------------------------------------------------------------------------
(* With a predicate set, the body at hand is what bufferBody read. *)
LEMMA BufferFollowsResponseNext == Inv /\ [Next]_vars => BufferFollowsResponse'
<1> SUFFICES ASSUME TypeOK, HasResponse, BodyFollowsResponse, BufferFollowsResponse,
                    [Next]_vars
             PROVE  BufferFollowsResponse'
  BY DEF Inv
<1> USE DEF BufferFollowsResponse, HasResponse, Judging, Return, Release
<1>1. CASE Attempt
  <2>1. CASE Begin BY <2>1 DEF Begin
  <2>2. ASSUME NEW r \in Responses, Respond(r) PROVE BufferFollowsResponse'
    BY <2>2 DEF Respond
  <2>3. ASSUME NEW e \in Errors \cup {"ctx"}, NEW r \in Responses \cup {NoResp}, Fail(e, r)
        PROVE  BufferFollowsResponse'
    BY <2>3, ErrorsAssumption DEF Fail
  <2>4. CASE BufferBody
    <3>1. /\ body'.ahead = BytesRead(cfg, resp)
          /\ body'.end = IF ReadsToEnd(cfg, resp) THEN "eof" ELSE "no"
      BY <2>4, BufferOutcome DEF BufferBody, BodyFollowsResponse
    <3> QED BY <2>4, <3>1 DEF BufferBody
  <2>5. CASE BufferFails BY <2>5 DEF BufferFails
  <2> QED BY <1>1, <2>1, <2>2, <2>3, <2>4, <2>5 DEF Attempt
<1>2. CASE Classify
  <2>1. CASE StopOnContextError BY <2>1 DEF StopOnContextError
  <2>2. CASE RetryOnError BY <2>2 DEF RetryOnError
  <2>3. CASE StopOnTerminalStatus BY <2>3 DEF StopOnTerminalStatus
  <2>4. CASE AskRetryWhen BY <2>4 DEF AskRetryWhen
  <2>5. CASE ClassifyByStatus BY <2>5 DEF ClassifyByStatus, ByStatus
  <2>6. CASE EvalRetryWhen
    <3>1. CASE pc' = "successWhen"
      BY <2>6, <3>1 DEF EvalRetryWhen, CutShort, RetryNow, ByStatus
    <3>2. CASE pc' = "decide"
      BY <2>6, <3>2, EvalOutcome
    <3>3. CASE pc' \in {"drain", "returned"} BY <3>3
    <3> QED BY <2>6, <3>1, <3>2, <3>3, EvalOutcome
  <2>7. CASE EvalSuccessWhen
    BY <2>7 DEF EvalSuccessWhen, CutShort, RetryNow
  <2> QED BY <1>2, <2>1, <2>2, <2>3, <2>4, <2>5, <2>6, <2>7 DEF Classify
<1>3. CASE Decide
  BY <1>3 DEF Decide, AbandonRetry, GiveUp, ReportFailure, BackOff, WakeUp, SleepInterrupted, Drain
<1>4. ASSUME NEW cause \in {"canceled", "deadline"}, EndContext(cause)
      PROVE  BufferFollowsResponse'
  BY <1>4 DEF EndContext
<1>5. CASE UNCHANGED vars BY <1>5 DEF vars
<1> QED BY <1>1, <1>2, <1>3, <1>4, <1>5 DEF Next, Loop, Finished

(* While a predicate is asked, it has an input exactly when the table says so. *)
LEMMA AskedOnTheTable ==
  ASSUME TypeOK, HasResponse, BufferFollowsResponse, pc \in {"retryWhen", "successWhen"}
  PROVE  /\ cfg \in RetryConfig /\ resp \in Response
         /\ err = "none" /\ HasPredicates(cfg) /\ ~IsTerminal(cfg, resp.status)
         /\ Decoded <=> Evaluable(cfg, resp)
<1>1. cfg \in RetryConfig /\ resp \in Response
  BY ConfigsAssumption, ResponsesAssumption DEF TypeOK, HasResponse, Judging
<1>2. /\ body.ahead = BytesRead(cfg, resp) /\ overflowed = Overflows(cfg, resp)
      /\ err = "none" /\ HasPredicates(cfg) /\ ~IsTerminal(cfg, resp.status)
  BY DEF BufferFollowsResponse, HasResponse, Judging
<1> QED BY <1>1, <1>2, DecodedIsEvaluable DEF Decoded

(* What an answer of a predicate means. *)
LEMMA AnswerMeans ==
  ASSUME NEW isSet \in BOOLEAN, NEW verdict \in Verdict, NEW matched \in BOOLEAN,
         Answers(isSet, verdict, matched)
  PROVE  matched <=> (isSet /\ Decoded /\ verdict = "truthy")
BY DEF Answers, MatchAnswers

(* The loop gets to a point only past the rules that come before it. *)
LEMMA RuleSoFarNext == Inv /\ [Next]_vars => RuleSoFar'
<1> SUFFICES ASSUME TypeOK, HasResponse, BufferFollowsResponse, RuleSoFar, [Next]_vars
             PROVE  RuleSoFar'
  BY DEF Inv
<1> USE SameRule DEF RuleSoFar, Return, Release
<1>1. CASE Attempt
  BY <1>1 DEF Attempt, Begin, Respond, Fail, BufferBody, BufferFails
<1>2. CASE Classify
  <2>1. CASE StopOnContextError BY <2>1 DEF StopOnContextError
  <2>2. CASE RetryOnError
    BY <2>2, ErrorRule DEF RetryOnError
  <2>3. CASE StopOnTerminalStatus BY <2>3 DEF StopOnTerminalStatus
  <2>4. CASE AskRetryWhen \/ ClassifyByStatus
    <3>1. err = "none" /\ cfg \in RetryConfig /\ resp \in Response /\ ~IsTerminal(cfg, resp.status)
      BY <2>4, ConfigsAssumption, ResponsesAssumption
      DEF TypeOK, HasResponse, Judging, AskRetryWhen, ClassifyByStatus
    <3>2. CASE AskRetryWhen
      BY <3>1, <3>2, LaterRule DEF AskRetryWhen, RetryConfig
    <3>3. CASE ClassifyByStatus
      BY <3>1, <3>3, LaterRule DEF ClassifyByStatus, ByStatus, HasPredicates
    <3> QED BY <2>4, <3>2, <3>3
  <2>5. CASE EvalRetryWhen
    <3> DEFINE truthy == cfg.retryWhen /\ Evaluable(cfg, resp) /\ resp.retryWhen = "truthy"
    <3>1. /\ cfg \in RetryConfig /\ resp \in Response /\ err = "none"
          /\ ~IsTerminal(cfg, resp.status) /\ (Decoded <=> Evaluable(cfg, resp))
      BY <2>5, AskedOnTheTable DEF EvalRetryWhen
    <3>2. cfg.retryWhen \in BOOLEAN /\ resp.retryWhen \in Verdict
      BY <3>1 DEF RetryConfig, Response
    <3>3. CASE pc' = "successWhen"
      <4>1. cfg.successWhen /\ Answers(cfg.retryWhen, resp.retryWhen, FALSE)
        BY <2>5, <3>3 DEF EvalRetryWhen, CutShort, RetryNow, ByStatus
      <4>2. ~truthy BY <3>1, <3>2, <4>1, AnswerMeans
      <4> QED BY <2>5, <3>1, <3>3, <4>1, <4>2, LaterRule DEF EvalRetryWhen
    <3>4. CASE pc' = "decide" /\ Answers(cfg.retryWhen, resp.retryWhen, TRUE)
                /\ RetryNow("retryWhenMatched")
      <4>1. truthy BY <3>1, <3>2, <3>4, AnswerMeans
      <4> QED BY <2>5, <3>1, <3>4, <4>1, LaterRule DEF EvalRetryWhen, RetryNow
    <3>5. CASE pc' = "decide" /\ Answers(cfg.retryWhen, resp.retryWhen, FALSE)
                /\ ~cfg.successWhen /\ ByStatus
      <4>1. ~truthy BY <3>1, <3>2, <3>5, AnswerMeans
      <4>2. ~Is2xx(resp.status) /\ reason' = "plain" BY <3>5 DEF ByStatus
      <4> QED BY <2>5, <3>1, <3>5, <4>1, <4>2, LaterRule DEF EvalRetryWhen
    <3>6. CASE pc' \in {"drain", "returned"} BY <3>6
    <3> QED BY <2>5, <3>3, <3>4, <3>5, <3>6
        DEF EvalRetryWhen, CutShort, RetryNow, ByStatus
  <2>6. CASE EvalSuccessWhen
    <3>1. /\ cfg \in RetryConfig /\ resp \in Response /\ err = "none"
          /\ ~IsTerminal(cfg, resp.status) /\ (Decoded <=> Evaluable(cfg, resp))
          /\ cfg.successWhen /\ DecidingRule \in {5, 6}
      BY <2>6, AskedOnTheTable DEF EvalSuccessWhen, BufferFollowsResponse
    <3>2. cfg.successWhen \in BOOLEAN /\ resp.successWhen \in Verdict
      BY <3>1 DEF RetryConfig, Response
    <3>3. CASE Answers(cfg.successWhen, resp.successWhen, FALSE)
               /\ RetryNow("successWhenFailed")
      <4>1. ~(Evaluable(cfg, resp) /\ resp.successWhen = "truthy")
        BY <3>1, <3>2, <3>3, AnswerMeans
      <4>2. DecidingRule \in {4, 6}
        <5> DEFINE retry == /\ cfg.retryWhen /\ Evaluable(cfg, resp)
                            /\ resp.retryWhen = "truthy"
        <5>1. CASE retry BY <3>1, <5>1, LaterRule
        <5>2. CASE ~retry BY <3>1, <4>1, <5>2, LaterRule
        <5> QED BY <5>1, <5>2
      <4> QED BY <2>6, <3>1, <3>3, <4>2 DEF EvalSuccessWhen, RetryNow
    <3>4. CASE pc' \in {"drain", "returned"} BY <3>4
    <3> QED BY <2>6, <3>3, <3>4 DEF EvalSuccessWhen, CutShort
  <2> QED BY <1>2, <2>1, <2>2, <2>3, <2>4, <2>5, <2>6 DEF Classify
<1>3. CASE Decide
  BY <1>3 DEF Decide, AbandonRetry, GiveUp, ReportFailure, BackOff, WakeUp, SleepInterrupted, Drain
<1>4. ASSUME NEW cause \in {"canceled", "deadline"}, EndContext(cause) PROVE RuleSoFar'
  BY <1>4 DEF EndContext
<1>5. CASE UNCHANGED vars BY <1>5 DEF vars
<1> QED BY <1>1, <1>2, <1>3, <1>4, <1>5 DEF Next, Loop, Finished

(* What Do reports is the rule that decided. *)
LEMMA ResultNamesDecidingRuleNext == Inv /\ [Next]_vars => ResultNamesDecidingRule'
<1> SUFFICES ASSUME TypeOK, HasResponse, BufferFollowsResponse, RuleSoFar, NothingReturnedYet,
                    ResultNamesDecidingRule, [Next]_vars
             PROVE  ResultNamesDecidingRule'
  BY DEF Inv
<1> USE SameRule DEF ResultNamesDecidingRule, Return, Report
<1>a. ASSUME pc \notin {"drain", "returned"}, UNCHANGED result PROVE ResultNamesDecidingRule'
  BY <1>a DEF NothingReturnedYet, Decided
<1>1. CASE Attempt
  BY <1>1, <1>a DEF Attempt, Begin, Respond, Fail, BufferBody, BufferFails
<1>2. CASE Classify
  <2>1. CASE StopOnContextError BY <2>1 DEF StopOnContextError
  <2>2. CASE RetryOnError BY <2>2, <1>a DEF RetryOnError
  <2>3. CASE StopOnTerminalStatus
    <3>1. DecidingRule \in {2, 3}
      BY <2>3, TerminalRule DEF StopOnTerminalStatus
    <3> QED BY <2>3, <3>1 DEF StopOnTerminalStatus, Reports
  <2>4. CASE AskRetryWhen BY <2>4, <1>a DEF AskRetryWhen
  <2>5. CASE ClassifyByStatus
    <3>1. CASE UNCHANGED result BY <2>5, <3>1, <1>a DEF ClassifyByStatus
    <3>2. CASE Is2xx(resp.status)
      <4>1. /\ cfg \in RetryConfig /\ resp \in Response
            /\ ~cfg.retryWhen /\ ~cfg.successWhen
        BY <2>5, ConfigsAssumption, ResponsesAssumption
        DEF TypeOK, HasResponse, Judging, ClassifyByStatus, HasPredicates
      <4>2. DecidingRule = 7
        BY <2>5, <3>2, <4>1, LaterRule DEF ClassifyByStatus
      <4> QED BY <2>5, <3>2, <4>2 DEF ClassifyByStatus, ByStatus, Reports
    <3> QED BY <2>5, <3>1, <3>2 DEF ClassifyByStatus, ByStatus
  <2>6. CASE EvalRetryWhen \/ EvalSuccessWhen
    <3>1. CASE UNCHANGED result BY <2>6, <3>1, <1>a DEF EvalRetryWhen, EvalSuccessWhen
    <3>2. CASE result'.kind = "ctx" BY <3>2
    <3>3. CASE Return("success", "plain", "none", TRUE)
      <4>1. /\ cfg \in RetryConfig /\ resp \in Response /\ err = "none"
            /\ ~IsTerminal(cfg, resp.status) /\ (Decoded <=> Evaluable(cfg, resp))
        BY <2>6, AskedOnTheTable DEF EvalRetryWhen, EvalSuccessWhen
      <4>2. /\ cfg.retryWhen \in BOOLEAN /\ resp.retryWhen \in Verdict
            /\ cfg.successWhen \in BOOLEAN /\ resp.successWhen \in Verdict
        BY <4>1 DEF RetryConfig, Response
      <4>3. DecidingRule \in {5, 7}
        <5>1. CASE EvalRetryWhen
          <6>1. /\ ~cfg.successWhen /\ Is2xx(resp.status)
                /\ Answers(cfg.retryWhen, resp.retryWhen, FALSE)
            BY <5>1, <3>3 DEF EvalRetryWhen, CutShort, RetryNow, ByStatus
          <6>2. ~(cfg.retryWhen /\ Evaluable(cfg, resp) /\ resp.retryWhen = "truthy")
            BY <4>1, <4>2, <6>1, AnswerMeans
          <6> QED BY <4>1, <6>1, <6>2, LaterRule
        <5>2. CASE EvalSuccessWhen
          <6>1. /\ Answers(cfg.successWhen, resp.successWhen, TRUE)
                /\ cfg.successWhen /\ DecidingRule \in {5, 6}
            BY <5>2, <3>3 DEF EvalSuccessWhen, CutShort, RetryNow,
               BufferFollowsResponse, RuleSoFar
          <6>2. Evaluable(cfg, resp) /\ resp.successWhen = "truthy"
            BY <4>1, <4>2, <6>1, AnswerMeans
          <6>3. DecidingRule \in {4, 5}
            <7> DEFINE retry == /\ cfg.retryWhen /\ Evaluable(cfg, resp)
                                /\ resp.retryWhen = "truthy"
            <7>1. CASE retry BY <4>1, <7>1, LaterRule
            <7>2. CASE ~retry BY <4>1, <6>1, <6>2, <7>2, LaterRule
            <7> QED BY <7>1, <7>2
          <6> QED BY <6>1, <6>3
        <5> QED BY <2>6, <5>1, <5>2
      <4>4. DecidingRule' \in {5, 7}
        BY <2>6, <4>3, EvalOutcome
      <4>5. result'.kind = "success" BY <3>3
      <4>6. Reports' BY ONLY <4>4, <4>5 DEF Reports
      <4> QED BY <4>6
    <3> QED BY <2>6, <3>1, <3>2, <3>3, EvalOutcome
  <2> QED BY <1>2, <2>1, <2>2, <2>3, <2>4, <2>5, <2>6 DEF Classify
<1>3. CASE Decide
  <2>1. CASE GiveUp
    <3>1. \/ DecidingRule \in {1, 8} /\ reason = "plain"
          \/ DecidingRule = 4 /\ reason = "retryWhenMatched"
          \/ DecidingRule = 6 /\ reason = "successWhenFailed"
      BY <2>1 DEF GiveUp, RuleSoFar
    <3>2. DecidingRule' = DecidingRule BY <2>1 DEF GiveUp, ReportFailure
    <3>3. CASE err # "none"
      <4>1. DecidingRule = 1 BY <3>3, ErrorRule
      <4> QED BY <2>1, <3>2, <3>3, <4>1 DEF GiveUp, ReportFailure, Failure, Reports
    <3>4. CASE err = "none"
      <4>1. DecidingRule # 1 BY <3>4, ErrorRule
      <4>2. result'.kind = FailureKind /\ result'.reason = reason
        BY <2>1, <3>4 DEF GiveUp, ReportFailure, Failure, FailureKind
      <4>3. FailureKind' = FailureKind
        BY <2>1 DEF GiveUp, ReportFailure, FailureKind
      <4>4. Reports'
        BY ONLY <3>1, <3>2, <4>1, <4>2, <4>3 DEF Reports
      <4> QED BY <4>4
    <3> QED BY <3>3, <3>4
  <2>2. CASE AbandonRetry \/ SleepInterrupted
    BY <2>2 DEF AbandonRetry, SleepInterrupted
  <2>3. CASE BackOff \/ WakeUp
    BY <2>3, <1>a DEF BackOff, WakeUp
  <2>4. CASE Drain
    BY <2>4 DEF Drain, Reports, FailureKind
  <2> QED BY <1>3, <2>1, <2>2, <2>3, <2>4 DEF Decide
<1>4. ASSUME NEW cause \in {"canceled", "deadline"}, EndContext(cause)
      PROVE  ResultNamesDecidingRule'
  BY <1>4 DEF EndContext, Reports, FailureKind
<1>5. CASE UNCHANGED vars BY <1>5 DEF vars, Reports, FailureKind
<1> QED BY <1>1, <1>2, <1>3, <1>4, <1>5 DEF Next, Loop, Finished

-----------------------------------------------------------------------------
(* A call of Do starts in the invariant. *)
LEMMA InvInit == Init => Inv
<1> SUFFICES ASSUME Init PROVE Inv OBVIOUS
<1>1. TypeOK BY TypeInit
<1>2. cfg.maxRetries \in Int BY ConfigsAssumption DEF Init, RetryConfig
<1>3. WithinBudget BY <1>2 DEF Init, WithinBudget
<1>4. /\ HasResponse /\ BodyFollowsResponse /\ BufferFollowsResponse /\ NothingReturnedYet
      /\ EndIsRecorded /\ RuleSoFar /\ ResultNamesDecidingRule
  BY DEF Init, HasResponse, BodyFollowsResponse, BufferFollowsResponse, NothingReturnedYet,
     EndIsRecorded, RuleSoFar, ResultNamesDecidingRule, Judging, Ended, Decided, NoBody
<1> QED BY <1>1, <1>3, <1>4 DEF Inv

(* Every step of the loop keeps every part of the invariant. *)
LEMMA InvNext == Inv /\ [Next]_vars => Inv'
<1> SUFFICES ASSUME Inv, [Next]_vars PROVE Inv' OBVIOUS
<1>1. TypeOK' BY TypeNext DEF Inv
<1> QED
  BY <1>1, HasResponseNext, BodyFollowsResponseNext, BufferFollowsResponseNext,
     WithinBudgetNext, NothingReturnedYetNext, EndIsRecordedNext, RuleSoFarNext,
     ResultNamesDecidingRuleNext
  DEF Inv

(* The invariant the other theorems rest on holds in every reachable state. *)
THEOREM Invariant == Spec => []Inv
BY InvInit, InvNext, PTL DEF Spec

(* Every variable of the loop keeps its type. *)
THEOREM TypeCorrect == Spec => []TypeOK
<1>1. Inv => TypeOK BY DEF Inv
<1> QED BY <1>1, Invariant, PTL

(* At most 1+N attempts are made for --retry N, the budget is reported as used *)
(* up after exactly 1+N, and never for N=0.                                    *)
THEOREM BudgetCorrect == Spec => []BudgetIsExact
<1>1. Inv => BudgetIsExact
  <2> SUFFICES ASSUME Inv PROVE BudgetIsExact OBVIOUS
  <2>1. cfg.maxRetries \in Int /\ n \in Int
    BY ConfigsAssumption, MaxAttemptsAssumption DEF Inv, TypeOK, RetryConfig
  <2>2. WithinBudget /\ n >= 1 BY MaxAttemptsAssumption DEF Inv, TypeOK
  <2> QED BY <2>1, <2>2 DEF BudgetIsExact, WithinBudget, Returned, BudgetSpent
<1> QED BY <1>1, Invariant, PTL

(* No response body outlives its attempt, and the caller gets an open one      *)
(* exactly with a response.                                                    *)
THEOREM BodyCorrect == Spec => []BodyOwnership
<1>1. Inv => BodyOwnership BY DEF Inv, BodyFollowsResponse, BodyOwnership
<1> QED BY <1>1, Invariant, PTL

(* What Do reports is what the table of docs/retry.md says of the last attempt. *)
THEOREM ResultCorrect == Spec => []ResultNamesDecidingRule
<1>1. Inv => ResultNamesDecidingRule BY DEF Inv
<1> QED BY <1>1, Invariant, PTL

(* An interrupt is never reported as a failed or used-up attempt. *)
THEOREM InterruptCorrect == Spec => []InterruptIsNotMasked
<1>1. Inv => InterruptIsNotMasked
  BY DEF Inv, EndIsRecorded, InterruptIsNotMasked, Returned
<1> QED BY <1>1, Invariant, PTL

-----------------------------------------------------------------------------
(* What bufferBody leaves is at its end or over the cap. *)
LEMMA EndOrOverflow ==
  ASSUME NEW c \in RetryConfig, NEW r \in Response
  PROVE  ReadsToEnd(c, r) \/ Overflows(c, r)
<1>1. r.len \in Nat /\ c.maxBuffer \in 0 .. IntMax BY DEF Response, RetryConfig
<1>2. CASE Unlimited(c) BY <1>2 DEF ReadsToEnd
<1>3. CASE ~Unlimited(c)
  <2>1. c.maxBuffer > 0 /\ c.maxBuffer < IntMax
    BY <1>1, <1>3, IntMaxAssumption DEF Unlimited
  <2>2. Wrap(c.maxBuffer + 1) = c.maxBuffer + 1
    BY <1>1, <2>1, IntMaxAssumption DEF Wrap
  <2> QED
    BY <1>1, <1>3, <2>1, <2>2 DEF ReadsToEnd, Overflows, BytesRead, LimitedLen
<1> QED BY <1>2, <1>3

(* However a judged body is let go, it is left to be drained, at its end or    *)
(* over the cap.                                                              *)
LEMMA ReleaseIsEarned ==
  ASSUME Inv, pc \in Judging, NEW buffered \in {FALSE, Buffered}, NEW next,
         Release(buffered, next), AbandonedOnlyOverCap
  PROVE  body'.at = "closed" /\ resp # NoResp => body'.end # "no" \/ overflowed
<1>1. body \in BodyState BY DEF Inv, TypeOK
<1> SUFFICES ASSUME body'.at = "closed", resp # NoResp
             PROVE  body'.end # "no" \/ overflowed
  OBVIOUS
<1>2. body.at = "open" BY DEF Inv, BodyFollowsResponse
<1>3. buffered /\ body'.end = body.end BY <1>1, <1>2, ReleaseOutcome
<1>4. cfg \in RetryConfig /\ resp \in Response /\ Buffered
  BY <1>2, <1>3, ConfigsAssumption, ResponsesAssumption
  DEF Inv, TypeOK, BodyFollowsResponse
<1>5. /\ body.end = IF ReadsToEnd(cfg, resp) THEN "eof" ELSE "no"
      /\ overflowed = Overflows(cfg, resp)
  BY <1>4 DEF Inv, BufferFollowsResponse, Buffered
<1> QED BY <1>3, <1>4, <1>5, EndOrOverflow

(* No step closes a body short of its end unless it is over the cap. *)
LEMMA AbandonedNext ==
  Inv /\ AbandonedOnlyOverCap /\ [Next]_vars => AbandonedOnlyOverCap'
<1> SUFFICES ASSUME Inv, AbandonedOnlyOverCap, [Next]_vars PROVE AbandonedOnlyOverCap'
  OBVIOUS
<1>a. body \in BodyState BY DEF Inv, TypeOK
<1>b. ASSUME NEW buffered \in {FALSE, Buffered}, NEW next, Release(buffered, next),
             pc \in Judging, UNCHANGED <<resp, overflowed>>
      PROVE  AbandonedOnlyOverCap'
  BY <1>b, ReleaseIsEarned DEF AbandonedOnlyOverCap
<1>1. CASE Attempt
  <2>1. CASE Begin BY <2>1 DEF Begin, NoBody, AbandonedOnlyOverCap
  <2>2. ASSUME NEW r \in Responses, Respond(r) PROVE AbandonedOnlyOverCap'
    BY <2>2 DEF Respond, FreshBody, AbandonedOnlyOverCap
  <2>3. ASSUME NEW e \in Errors \cup {"ctx"}, NEW r \in Responses \cup {NoResp}, Fail(e, r)
        PROVE  AbandonedOnlyOverCap'
    BY <2>3 DEF Fail, FreshBody, NoBody, AbandonedOnlyOverCap
  <2>4. CASE BufferBody
    <3>1. body = FreshBody(resp) BY <2>4 DEF BufferBody, Inv, BodyFollowsResponse
    <3>2. body'.at = "open" BY <2>4, <3>1 DEF BufferBody, FreshBody
    <3> QED BY <3>2 DEF AbandonedOnlyOverCap
  <2>5. CASE BufferFails BY <2>5 DEF BufferFails, AbandonedOnlyOverCap
  <2> QED BY <1>1, <2>1, <2>2, <2>3, <2>4, <2>5 DEF Attempt
<1>2. CASE Classify
  <2>1. CASE StopOnContextError
    BY <2>1, <1>b DEF StopOnContextError, Judging
  <2>2. CASE RetryOnError \/ StopOnTerminalStatus \/ AskRetryWhen
    BY <2>2 DEF RetryOnError, StopOnTerminalStatus, AskRetryWhen, AbandonedOnlyOverCap
  <2>3. CASE ClassifyByStatus BY <2>3 DEF ClassifyByStatus, ByStatus, AbandonedOnlyOverCap
  <2>4. CASE EvalRetryWhen \/ EvalSuccessWhen
    <3>1. CASE Release(Buffered, "returned") BY <2>4, <3>1, <1>b, EvalOutcome DEF Judging
    <3>2. CASE body' = body BY <2>4, <3>2, EvalOutcome DEF AbandonedOnlyOverCap
    <3> QED BY <2>4, <3>1, <3>2, EvalOutcome
  <2> QED BY <1>2, <2>1, <2>2, <2>3, <2>4 DEF Classify
<1>3. CASE Decide
  <2>1. CASE AbandonRetry BY <2>1, <1>b DEF AbandonRetry, Judging
  <2>2. CASE GiveUp
    <3>1. CASE UNCHANGED body
      BY <2>2, <3>1 DEF GiveUp, ReportFailure, AbandonedOnlyOverCap
    <3>2. CASE Release(FALSE, "returned")
      BY <2>2, <3>2, <1>b DEF GiveUp, ReportFailure, Judging
    <3> QED BY <2>2, <3>1, <3>2 DEF GiveUp, ReportFailure
  <2>3. CASE BackOff BY <2>3, <1>b DEF BackOff, Judging
  <2>4. CASE WakeUp BY <2>4 DEF WakeUp, AbandonedOnlyOverCap
  <2>5. CASE SleepInterrupted BY <2>5 DEF SleepInterrupted, AbandonedOnlyOverCap
  <2>6. CASE Drain BY <2>6, <1>a, DrainOutcome DEF AbandonedOnlyOverCap
  <2> QED BY <1>3, <2>1, <2>2, <2>3, <2>4, <2>5, <2>6 DEF Decide
<1>4. ASSUME NEW cause \in {"canceled", "deadline"}, EndContext(cause)
      PROVE  AbandonedOnlyOverCap'
  BY <1>4 DEF EndContext, AbandonedOnlyOverCap
<1>5. CASE UNCHANGED vars BY <1>5 DEF vars, AbandonedOnlyOverCap
<1> QED BY <1>1, <1>2, <1>3, <1>4, <1>5 DEF Next, Loop, Finished

(* A connection is given up for its body only when that is over the cap or has *)
(* failed.                                                                     *)
THEOREM AbandonedCorrect == Spec => []AbandonedOnlyOverCap
<1>1. Init => AbandonedOnlyOverCap BY DEF Init, AbandonedOnlyOverCap, NoBody
<1> QED BY <1>1, AbandonedNext, Invariant, PTL DEF Spec

-----------------------------------------------------------------------------
(* The refinement: a step of the loop is a step of the contract or none. *)
LEMMA ContractInit == Init => Contract!Init
<1> SUFFICES ASSUME Init PROVE Contract!Init OBVIOUS
<1>1. cfg.maxRetries \in Int BY ConfigsAssumption DEF Init, RetryConfig
<1> QED BY <1>1 DEF Init, Contract!Init, Ended, Decided

(* A step that decides the call maps to the contract's step of that outcome. *)
LEMMA FinishIsReported ==
  ASSUME NEW kind, NEW why, NEW cause, NEW with, Report(kind, why, cause, with),
         kind # "none", UNCHANGED <<cfg, ctx, n>>
  PROVE  /\ kind = "ctx" /\ cause # "timeout" => Contract!Finish("ctx", with)
         /\ kind = "ctx" /\ cause = "timeout" => Contract!Finish("timeout", with)
         /\ kind # "ctx" => Contract!Finish(kind, with)
BY DEF Report, Contract!Finish, Decided, Ended

(* A step of the loop maps to a step of the contract or to a stutter. *)
LEMMA ContractNext == Inv /\ [Next]_vars => [Contract!Next]_Contract!vars
<1> SUFFICES ASSUME Inv, [Next]_vars PROVE [Contract!Next]_Contract!vars OBVIOUS
<1>0. /\ TypeOK /\ NothingReturnedYet /\ EndIsRecorded
  BY DEF Inv
<1>a. pc \notin {"drain", "returned"} => ~Decided
  BY <1>0 DEF NothingReturnedYet
<1>b. ASSUME Ended, pc \notin {"drain", "returned"}, UNCHANGED <<cfg, ctx, n>>,
             Report("ctx", "plain", "ctx", FALSE)
      PROVE  Contract!Next
  BY <1>a, <1>b, FinishIsReported DEF Contract!Next, Contract!Stop
<1>1. CASE Attempt
  BY <1>1, <1>a DEF Attempt, Begin, Respond, Fail, BufferBody, BufferFails, Contract!vars,
     Ended, Decided
<1>2. CASE Classify
  <2>1. CASE StopOnContextError
    <3>1. CASE Ended
      BY <2>1, <3>1, <1>b DEF StopOnContextError
    <3>2. CASE ~Ended
      <4>1. err = "timeout"
        BY <1>0, <2>1, <3>2 DEF StopOnContextError, ContextError, EndIsRecorded
      <4>2. Contract!Finish("timeout", FALSE)
        BY <2>1, <3>2, <4>1, FinishIsReported DEF StopOnContextError
      <4> QED BY <2>1, <1>a, <4>2 DEF StopOnContextError, Contract!Next, Contract!StopOnTimeout
    <3> QED BY <3>1, <3>2
  <2>2. CASE StopOnTerminalStatus
    <3>1. Contract!Finish("terminal", TRUE)
      BY <2>2, FinishIsReported DEF StopOnTerminalStatus, Return
    <3> QED BY <2>2, <1>a, <3>1 DEF StopOnTerminalStatus, Contract!Next, Contract!Settle
  <2>3. CASE RetryOnError \/ AskRetryWhen
    BY <2>3, <1>a DEF RetryOnError, AskRetryWhen, Contract!vars, Ended, Decided
  <2>4. CASE ClassifyByStatus
    <3>1. CASE Return("success", "plain", "none", TRUE)
      <4>1. Contract!Finish("success", TRUE)
        BY <2>4, <3>1, FinishIsReported DEF ClassifyByStatus, Return
      <4> QED BY <2>4, <1>a, <4>1 DEF ClassifyByStatus, Contract!Next, Contract!Settle
    <3>2. CASE pc' = "decide" /\ UNCHANGED result
      BY <2>4, <3>2, <1>a DEF ClassifyByStatus, Contract!vars, Ended, Decided
    <3> QED BY <2>4, <3>1, <3>2 DEF ClassifyByStatus, ByStatus
  <2>5. CASE EvalRetryWhen \/ EvalSuccessWhen
    <3>0. pc \in {"retryWhen", "successWhen"} /\ cfg' = cfg /\ ctx' = ctx /\ n' = n
      BY <2>5, EvalOutcome
    <3>1. CASE Report("ctx", "plain", "ctx", FALSE) /\ Ended
      BY <3>0, <3>1, <1>b
    <3>2. CASE Return("success", "plain", "none", TRUE)
      <4>0. Report("success", "plain", "none", TRUE) BY <3>2 DEF Return
      <4>1. Contract!Finish("success", TRUE)
        BY ONLY <3>0, <4>0 DEF Report, Contract!Finish, Decided, Ended
      <4> QED BY <3>0, <1>a, <4>1 DEF Contract!Next, Contract!Settle
    <3>3. CASE UNCHANGED <<body, result>> /\ pc' \in {"successWhen", "decide"}
      BY <3>0, <3>3, <1>a DEF Contract!vars, Ended, Decided
    <3> QED BY <2>5, <3>1, <3>2, <3>3, EvalOutcome
  <2> QED BY <1>2, <2>1, <2>2, <2>3, <2>4, <2>5 DEF Classify
<1>3. CASE Decide
  <2>1. CASE AbandonRetry BY <2>1, <1>b DEF AbandonRetry
  <2>2. CASE GiveUp
    <3>0. /\ pc = "decide" /\ ~Ended /\ UNCHANGED <<cfg, ctx, n>> /\ Contract!UsedUp
          /\ ~Decided
      BY <2>2, <1>a DEF GiveUp, ReportFailure, BudgetSpent, Contract!UsedUp
    <3>1. CASE cfg.maxRetries = 0
      <4>0. \/ Report("rejected", reason, "none", TRUE)
            \/ Report("cause", "plain", err, FALSE)
        BY <2>2, <3>1 DEF GiveUp, ReportFailure, Failure, Return
      <4>1. \/ Contract!Finish("rejected", TRUE)
            \/ Contract!Finish("cause", FALSE)
        BY <3>0, <4>0, FinishIsReported
      <4> QED BY <3>0, <3>1, <4>1 DEF Contract!Next, Contract!FailOnce
    <3>2. CASE cfg.maxRetries # 0
      <4>1. cfg.maxRetries \in Int BY <1>0, ConfigsAssumption DEF TypeOK, RetryConfig
      <4>2. cfg.maxRetries > 0
        BY <2>2, <3>2, <4>1 DEF GiveUp, BudgetSpent
      <4>0. \/ Report("exhausted", reason, "none", TRUE)
            \/ Report("exhausted", "plain", err, FALSE)
        BY <2>2, <3>2 DEF GiveUp, ReportFailure, Failure, Return
      <4>3. \/ Contract!Finish("exhausted", TRUE)
            \/ Contract!Finish("exhausted", FALSE)
        BY <3>0, <4>0, FinishIsReported
      <4> QED BY <3>0, <4>2, <4>3 DEF Contract!Next, Contract!Exhaust
    <3> QED BY <3>1, <3>2
  <2>3. CASE BackOff
    <3>1. pc' \in {"drain", "sleep"} BY <2>3 DEF BackOff, Release
    <3>2. ~Decided /\ ~Contract!UsedUp
      BY <2>3, <1>a DEF BackOff, BudgetSpent, Contract!UsedUp
    <3>3. Contract!Wait
      BY <2>3, <3>1, <3>2 DEF BackOff, Decided, Ended, Contract!Wait
    <3> QED BY <3>3 DEF Contract!Next
  <2>4. CASE WakeUp
    BY <2>4, <1>a DEF WakeUp, Decided, Ended, Contract!Next, Contract!TryAgain
  <2>5. CASE SleepInterrupted BY <2>5, <1>b DEF SleepInterrupted, Return
  <2>6. CASE Drain BY <2>6 DEF Drain, Decided, Ended, Contract!vars
  <2> QED BY <1>3, <2>1, <2>2, <2>3, <2>4, <2>5, <2>6 DEF Decide
<1>4. ASSUME NEW cause \in {"canceled", "deadline"}, EndContext(cause)
      PROVE  [Contract!Next]_Contract!vars
  BY <1>4 DEF EndContext, Decided, Ended, Contract!Next, Contract!End
<1>5. CASE UNCHANGED vars BY <1>5 DEF vars, Decided, Ended, Contract!vars
<1> QED BY <1>1, <1>2, <1>3, <1>4, <1>5 DEF Next, Loop, Finished

(* Every run of the retry loop is a run of the contract of Do: it retries only *)
(* within the budget and for a caller who still wants it.                      *)
THEOREM Refinement == Spec => ImplementsContract
BY ContractInit, ContractNext, Invariant, PTL DEF Spec, ImplementsContract, Contract!Spec

-----------------------------------------------------------------------------
(* The root command *)

(* Do returns what its caller may rely on. *)
LEMMA ResultNext == Inv /\ ResultIsUsable /\ [Next]_vars => ResultIsUsable'
<1> SUFFICES ASSUME Inv, ResultIsUsable, [Next]_vars PROVE ResultIsUsable'
  OBVIOUS
<1>0. TypeOK /\ HasResponse /\ EndIsRecorded /\ NothingReturnedYet BY DEF Inv
<1>1. ASSUME NEW kind, NEW why, NEW cause, NEW with, Report(kind, why, cause, with),
             UNCHANGED <<ctx, resp>>, with \in BOOLEAN,
             with => resp \in Responses, kind = "success" => with,
             kind = "ctx" => ~with /\ cause \in {"ctx", "timeout"},
             kind = "ctx" /\ cause = "ctx" => Ended
      PROVE  ResultIsUsable'
  BY <1>1 DEF Report, Ended, ResultIsUsable
<1>2. ASSUME UNCHANGED <<resp, result>>, Ended => Ended' PROVE ResultIsUsable'
  BY <1>2 DEF ResultIsUsable, Decided
<1>a. ASSUME UNCHANGED result, pc \notin {"drain", "returned"} PROVE ResultIsUsable'
  BY <1>0, <1>a DEF ResultIsUsable, Decided, NothingReturnedYet
<1>3. CASE StopOnContextError
  BY <1>0, <1>1, <1>3 DEF StopOnContextError, ContextError, EndIsRecorded
<1>4. CASE StopOnTerminalStatus
  BY <1>0, <1>1, <1>4 DEF StopOnTerminalStatus, Return, HasResponse, Judging
<1>5. CASE ClassifyByStatus
  <2>1. CASE UNCHANGED result BY <1>5, <2>1, <1>a DEF ClassifyByStatus
  <2>2. CASE Return("success", "plain", "none", TRUE)
    BY <1>0, <1>1, <1>5, <2>2 DEF ClassifyByStatus, Return, HasResponse, Judging
  <2> QED BY <1>5, <2>1, <2>2 DEF ClassifyByStatus, ByStatus
<1>6. CASE EvalRetryWhen \/ EvalSuccessWhen
  <2>1. /\ pc \in {"retryWhen", "successWhen"} /\ UNCHANGED <<ctx, resp>>
        /\ resp \in Responses
    BY <1>0, <1>6, EvalOutcome DEF HasResponse, Judging
  <2>2. CASE UNCHANGED result BY <2>1, <2>2, <1>a
  <2>3. CASE Return("success", "plain", "none", TRUE) BY <1>1, <2>1, <2>3 DEF Return
  <2>4. CASE Ended /\ Report("ctx", "plain", "ctx", FALSE) BY <1>1, <2>1, <2>4
  <2> QED BY <1>6, <2>2, <2>3, <2>4, EvalOutcome
<1>7. CASE AbandonRetry \/ SleepInterrupted
  BY <1>1, <1>7 DEF AbandonRetry, SleepInterrupted, Return
<1>8. CASE GiveUp
  BY <1>0, <1>1, <1>8 DEF GiveUp, ReportFailure, Failure, Return, HasResponse, Judging
<1>9. CASE Attempt \/ RetryOnError \/ AskRetryWhen \/ BackOff \/ WakeUp
  BY <1>9, <1>a DEF Attempt, Begin, Respond, Fail, BufferBody, BufferFails, RetryOnError,
     AskRetryWhen, BackOff, WakeUp
<1>10. CASE Drain BY <1>10, <1>2 DEF Drain, Ended
<1>11. ASSUME NEW cause \in {"canceled", "deadline"}, EndContext(cause) PROVE ResultIsUsable'
  BY <1>2, <1>11 DEF EndContext, Ended
<1>12. CASE UNCHANGED vars BY <1>2, <1>12 DEF vars, Ended
<1> QED
  BY <1>3, <1>4, <1>5, <1>6, <1>7, <1>8, <1>9, <1>10, <1>11, <1>12
     DEF Next, Loop, Classify, Decide, Finished

(* A success comes with its response, a context error without one and with the *)
(* error of the context or a net timeout: what the callers of Do, the root    *)
(* command and Runner, go by.                                                 *)
THEOREM ResultUsable == Spec => []ResultIsUsable
<1>1. Init => ResultIsUsable BY DEF Init, ResultIsUsable, Decided
<1> QED BY <1>1, ResultNext, Invariant, PTL DEF Spec

(* The engine is in its invariant as long as the command runs, ahead of its   *)
(* first attempt until the command starts it, and at its end when the body of *)
(* a response is copied.                                                      *)
CommandInv ==
  /\ step \in {"prepare", "do", "copy", "exited"}
  /\ skeleton => step \in {"prepare", "exited"}
  /\ step # "exited" => Inv /\ ResultIsUsable /\ copyErr = "none"
  /\ step = "prepare" => pc = "attempt" /\ ~result.resp
  /\ step = "copy" => pc = "returned" /\ result.resp

(* The command starts in the invariant. *)
LEMMA CommandInvInit == CommandInit => CommandInv
BY InvInit DEF CommandInit, CommandInv, ResultIsUsable, Decided, Init

(* Every step of the command keeps it. *)
LEMMA CommandInvNext == CommandInv /\ [CommandNext]_commandVars => CommandInv'
<1> SUFFICES ASSUME CommandInv, [CommandNext]_commandVars PROVE CommandInv' OBVIOUS
<1>1. CASE PrintSkeleton \/ PrepareFails \/ ReturnNothing \/ CopyEnds
  BY <1>1 DEF PrintSkeleton, PrepareFails, ReturnNothing, CopyEnds, Exit, CommandInv
<1>2. ASSUME [Next]_vars, step # "exited" PROVE Inv' /\ ResultIsUsable'
  BY <1>2, InvNext, ResultNext DEF CommandInv
<1>3. CASE Start \/ CopyStarts
  <2>1. UNCHANGED vars /\ step # "exited"
    BY <1>3 DEF Start, CopyStarts
  <2>2. Inv' /\ ResultIsUsable'
    BY <1>2, <2>1
  <2> QED BY <1>3, <2>1, <2>2 DEF Start, CopyStarts, CommandInv, vars
<1>4. CASE EngineStep
  <2>1. Inv' /\ ResultIsUsable'
    BY <1>2, <1>4 DEF EngineStep, Next
  <2> QED BY <1>4, <2>1 DEF EngineStep, CommandInv
<1>5. CASE Signal \/ Deadline
  <2>1. Inv' /\ ResultIsUsable'
    BY <1>2, <1>5 DEF Signal, Deadline, EndsWith, Next
  <2> QED BY <1>5, <2>1 DEF Signal, Deadline, EndsWith, EndContext, CommandInv
<1>6. CASE Exited \/ UNCHANGED commandVars
  <2>1. UNCHANGED vars
    BY <1>6 DEF Exited, commandVars
  <2>2. step # "exited" => Inv' /\ ResultIsUsable'
    BY <1>2, <2>1
  <2> QED BY <1>6, <2>1, <2>2 DEF Exited, commandVars, CommandInv, vars
<1> QED BY <1>1, <1>3, <1>4, <1>5, <1>6 DEF CommandNext, Command

(* At every point of the root command the engine is where the command left it. *)
THEOREM CommandInvariant == CommandSpec => []CommandInv
BY CommandInvInit, CommandInvNext, PTL DEF CommandSpec

(* What io.Copy has to write is what the server sent, in order, although some  *)
(* of it was read ahead.                                                      *)
LEMMA WholeBody ==
  ASSUME CommandInv, step = "copy"
  PROVE  /\ resp \in Response /\ resp.len \in Nat
         /\ body.stream = Sent(resp) /\ Len(body.stream) = resp.len
         /\ SubSeq(body.stream, 1, Len(body.stream)) = Sent(resp)
<1>1. Inv /\ ResultIsUsable /\ pc = "returned" /\ result.resp BY DEF CommandInv
<1>2. body.stream = Sent(resp) /\ resp \in Responses
  BY <1>1 DEF Inv, BodyFollowsResponse
<1>3. resp \in Response /\ resp.len \in Nat BY <1>2, ResponsesAssumption DEF Response
<1>4. Sent(resp) \in Seq(Nat) /\ Len(Sent(resp)) = resp.len BY <1>3, SentIsItsBytes
<1> QED BY <1>2, <1>3, <1>4, SubSeqFull

(* Only the copy writes to stdout, and only when the command exits. *)
LEMMA StdoutNext ==
  CommandInv /\ StdoutIsTheBody /\ [CommandNext]_commandVars => StdoutIsTheBody'
<1> SUFFICES ASSUME CommandInv, StdoutIsTheBody, [CommandNext]_commandVars,
                    step' = "exited", result'.resp
             PROVE  StdoutIsTheBody'
  BY DEF StdoutIsTheBody
<1>1. CASE CopyEnds
  <2>1. step = "copy" /\ resp' = resp BY <1>1 DEF CopyEnds
  <2>2. PICK e \in {"none", "body", "ctx", "write"}, k \in 0 .. Len(body.stream) :
          CopyOutcome(e, k) /\ copyErr' = e /\ stdout' = SubSeq(body.stream, 1, k)
    BY <1>1 DEF CopyEnds
  <2>3. \E j \in 0 .. resp.len : stdout' = SubSeq(Sent(resp), 1, j)
    BY <2>1, <2>2, WholeBody
  <2>4. copyErr' = "none" => stdout' = Sent(resp)
    BY <2>1, <2>2, WholeBody DEF CopyOutcome
  <2>5. Sent(resp)' = Sent(resp) BY <2>1 DEF Sent
  <2> QED BY <2>1, <2>3, <2>4, <2>5 DEF StdoutIsTheBody
<1>2. CASE PrintSkeleton \/ PrepareFails
  BY <1>2 DEF PrintSkeleton, PrepareFails, CommandInv, vars
<1>3. CASE ReturnNothing
  BY <1>3 DEF ReturnNothing, vars
<1>4. CASE UNCHANGED commandVars
  BY <1>4 DEF commandVars, vars, StdoutIsTheBody, Sent
<1> QED
  BY <1>1, <1>2, <1>3, <1>4 DEF CommandNext, Command, Start, EngineStep, CopyStarts, Signal,
     Deadline, EndsWith, Exited

(* What is on stdout is what the server sent up to some byte, in order, and    *)
(* all of it when the copy found no error: for every cap, every body and every*)
(* failed response.                                                           *)
THEOREM StdoutCorrect == CommandSpec => []StdoutIsTheBody
<1>1. CommandInit => StdoutIsTheBody BY DEF CommandInit, StdoutIsTheBody
<1> QED BY <1>1, StdoutNext, CommandInvariant, PTL DEF CommandSpec

(* The exit code is fixed once, from what Do returned and what the copy of a   *)
(* success came to.                                                           *)
LEMMA ExitCodeNext ==
  CommandInv /\ ExitCodeTellsHow /\ [CommandNext]_commandVars => ExitCodeTellsHow'
<1> SUFFICES ASSUME CommandInv, ExitCodeTellsHow, [CommandNext]_commandVars,
                    step' = "exited", ~skeleton'
             PROVE  ExitCodeTellsHow'
  BY DEF ExitCodeTellsHow
<1> USE DEF ExitCodeTellsHow, Exit, vars, Ended
<1>1. CASE PrintSkeleton BY <1>1 DEF PrintSkeleton
<1>2. CASE PrepareFails
  <2>1. result.kind = "none"
    BY <1>2 DEF PrepareFails, CommandInv, Inv, NothingReturnedYet, Decided
  <2> QED BY <1>2, <2>1 DEF PrepareFails
<1>3. CASE ReturnNothing
  <2>1. ResultIsUsable /\ TypeOK /\ NothingReturnedYet /\ pc = "returned" /\ ~result.resp
    BY <1>3 DEF ReturnNothing, CommandInv, Inv
  <2>2. result.kind \in {"terminal", "rejected", "cause", "exhausted", "ctx"}
    BY <2>1 DEF ResultIsUsable, NothingReturnedYet, Decided, TypeOK, Result, Kinds
  <2>3. exit' = ExitCode(DoErr) /\ UNCHANGED <<result, ctx, copyErr, stdout, resp>>
    BY <1>3 DEF ReturnNothing
  <2>4. ctx \in {"live", "canceled", "deadline"} BY <2>1 DEF TypeOK
  <2> QED BY <2>1, <2>2, <2>3, <2>4 DEF DoErr, ExitCode, TimedOut, ResultIsUsable, Decided,
     NothingReturnedYet, Sent
<1>4. CASE CopyEnds
  <2>1. ResultIsUsable /\ TypeOK /\ NothingReturnedYet /\ pc = "returned" /\ result.resp
    BY <1>4 DEF CopyEnds, CommandInv, Inv
  <2>2. result.kind \in {"terminal", "rejected", "cause", "exhausted", "success"}
    BY <2>1 DEF ResultIsUsable, NothingReturnedYet, Decided, TypeOK, Result, Kinds
  <2>3. PICK e \in {"none", "body", "ctx", "write"}, k \in 0 .. Len(body.stream) :
          /\ CopyOutcome(e, k) /\ copyErr' = e /\ stdout' = SubSeq(body.stream, 1, k)
          /\ exit' = ExitCode(FinalErr(e)) /\ UNCHANGED <<result, ctx, resp>>
    BY <1>4 DEF CopyEnds
  <2>4. e = "none" => stdout' = Sent(resp)
    BY <1>4, <2>3, WholeBody DEF CopyEnds, CopyOutcome
  <2>5. e = "ctx" => Ended
    BY <2>3 DEF CopyOutcome
  <2>6. ctx \in {"live", "canceled", "deadline"} BY <2>1 DEF TypeOK
  <2>7. Sent(resp)' = Sent(resp) BY <2>3 DEF Sent
  <2> QED BY <2>2, <2>3, <2>4, <2>5, <2>6, <2>7 DEF DoErr, FinalErr, ExitCode, TimedOut
<1>5. CASE UNCHANGED commandVars
  BY <1>5 DEF commandVars
<1> QED
  BY <1>1, <1>2, <1>3, <1>4, <1>5 DEF CommandNext, Command, Start, EngineStep, CopyStarts,
     Signal, Deadline, EndsWith, Exited

(* The exit code tells how the call ended: 0 for a success that is on stdout   *)
(* to its end, 1 for any failure that was not an interrupt, 130 and 124 for   *)
(* an interrupt, and for that alone.                                          *)
THEOREM ExitCodeCorrect == CommandSpec => []ExitCodeTellsHow
<1>1. CommandInit => ExitCodeTellsHow BY DEF CommandInit, ExitCodeTellsHow
<1> QED BY <1>1, ExitCodeNext, CommandInvariant, PTL DEF CommandSpec
=============================================================================
