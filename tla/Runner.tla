-------------------------------- MODULE Runner --------------------------------
(***************************************************************************)
(* Runner.Run (internal/runbook/run.go, capture.go): the calls of a loaded *)
(* runbook one after the other, with the context that a signal or the      *)
(* timeout may end between any two of its steps, and the server.           *)
(*                                                                         *)
(* The retry engine is here what RetryContract promises: Do returns with   *)
(* one of a few outcomes, and for the context only once that has ended.    *)
(* Every step reads the context at most once.  Of the output only the      *)
(* outcome line of a call and the summary are kept.                        *)
(***************************************************************************)
EXTENDS Template, FiniteSets

CONSTANTS
  Runbooks,   \* runbooks that Load accepts
  Values,     \* rendered scalars a capture may give
  NoPath      \* no request was built

(* Load's promise. *)
ASSUME RunbooksAssumption ==
  \A r \in Runbooks : r \in Seq(Plan) /\ Closed(r)

ASSUME ValuesAssumption == Values \subseteq Value

ASSUME NoPathAssumption == NoPath \notin Value

VARIABLES
  rb,         \* the runbook
  ctx,        \* "live", or the cause that ended it
  pc,         \* the point Run has reached
  idx,        \* the call Run is at
  store,      \* the captured values
  path,       \* the path of the request that was sent
  body,       \* the body of the response Do returned
  read,       \* what readBounded made of it
  next,       \* the capture extractCaptures is at
  err,        \* the error runCall returns
  succeeded, tolerated,
  lines,      \* history: the outcome line of every call
  summary     \* the summary line

vars == <<rb, ctx, pc, idx, store, path, body, read, next, err, succeeded, tolerated,
          lines, summary>>

request == <<path, body, read, next>>

-----------------------------------------------------------------------------
Ended == ctx # "live"

(* "timeout": a net timeout, which errors.Is takes for DeadlineExceeded. *)
CallErrors == {"none", "failure", "timeout", "ctx"}

(* isContextErr asks the context and the error. *)
IsContextErr(e) == Ended /\ e \in {"timeout", "ctx"}

FaultyNotRun == Len(rb) - idx - 1

NotRun == Len(rb) - idx

NoSummary == [how |-> "none", succeeded |-> 0, tolerated |-> 0, notRun |-> 0]

Summaries == [how : {"none", "completed", "halted", "interrupted", "timed_out"},
              succeeded : Nat, tolerated : Nat, notRun : Nat]

Points == {"call", "do", "report", "drain", "capture", "extract", "echo", "settle", "returned"}

Stored == UNION {[N -> Values] : N \in SUBSET Names}

TypeOK ==
  /\ rb \in Runbooks
  /\ ctx \in {"live", "canceled", "deadline"}
  /\ pc \in Points
  /\ idx \in 1 .. Len(rb) + 1
  /\ store \in Stored
  /\ path \in Value \cup {NoPath}
  /\ body \in {"none", "open", "closed"}
  /\ read \in {"none", "whole", "unusable"}
  /\ next \in Nat \ {0}
  /\ err \in CallErrors
  /\ succeeded \in Nat /\ tolerated \in Nat
  /\ lines \in [DOMAIN rb -> {"none", "ok", "failed"}]
  /\ summary \in Summaries

Init ==
  /\ rb \in Runbooks
  /\ ctx = "live"
  /\ pc = "call" /\ idx = 1
  /\ store = [n \in {} |-> <<>>]
  /\ path = NoPath /\ body = "none" /\ read = "none" /\ next = 1
  /\ err = "none"
  /\ succeeded = 0 /\ tolerated = 0
  /\ lines = [i \in DOMAIN rb |-> "none"]
  /\ summary = NoSummary

This == rb[idx]

Line(outcome) == lines' = [lines EXCEPT ![idx] = outcome]

(* runCall returns e. *)
Settle(e) == pc' = "settle" /\ err' = e

-----------------------------------------------------------------------------
(* runCall *)

(* substituteCall and BuildRequest succeed.  The engine does not send a       *)
(* request for a context that has already ended.                              *)
Send ==
  /\ pc = "call" /\ idx <= Len(rb)
  /\ PathFills(This.path, store)
  /\ path' = Fill(This.path, store)
  /\ IF Ended THEN pc' = "report" /\ err' = "ctx" ELSE pc' = "do" /\ UNCHANGED err
  /\ UNCHANGED <<rb, ctx, idx, store, body, read, next, succeeded, tolerated, lines, summary>>

(* The path is refused, or no URL can be made of it: nothing is sent. *)
Refuse ==
  /\ pc = "call" /\ idx <= Len(rb)
  /\ Line("failed")
  /\ Settle("failure")
  /\ UNCHANGED <<rb, ctx, idx, store, request, succeeded, tolerated, summary>>

(* Engine.Do returns a success. *)
DoSucceeds ==
  /\ pc = "do"
  /\ body' = "open"
  /\ pc' = IF This.capture = <<>> THEN "drain" ELSE "capture"
  /\ UNCHANGED <<rb, ctx, idx, store, path, read, next, err, succeeded, tolerated, lines,
                 summary>>

(* A terminal, rejected or used-up attempt comes with its response, one that  *)
(* failed in transport without, and so does a context error.                  *)
DoFails(e) ==
  /\ pc = "do"
  /\ e = "ctx" => Ended
  /\ body' \in IF e = "failure" THEN {"open", "none"} ELSE {"none"}
  /\ err' = e
  /\ pc' = "report"
  /\ UNCHANGED <<rb, ctx, idx, store, path, read, next, succeeded, tolerated, lines, summary>>

-----------------------------------------------------------------------------
(* reportOutcome *)

(* A context error leaves no outcome line. *)
ReportNothing ==
  /\ pc = "report" /\ IsContextErr(err)
  /\ body' = IF body = "open" THEN "closed" ELSE body
  /\ pc' = "settle"
  /\ UNCHANGED <<rb, ctx, idx, store, path, read, next, err, succeeded, tolerated, lines,
                 summary>>

ReportFailure ==
  /\ pc = "report" /\ ~IsContextErr(err)
  /\ Line("failed")
  /\ pc' = IF body = "open" THEN "echo" ELSE "settle"
  /\ UNCHANGED <<rb, ctx, idx, store, request, err, succeeded, tolerated, summary>>

(* A read of the body ends with it, breaks off, stops at the bound, or is     *)
(* ended by the context.  The body is closed after it.                        *)
EchoBody ==
  /\ pc = "echo"
  /\ body' = "closed"
  /\ pc' = "settle"
  /\ UNCHANGED <<rb, ctx, idx, store, path, read, next, err, succeeded, tolerated, lines,
                 summary>>

(* drainDiscard drops the error of the read, be it the context's: the call    *)
(* succeeded.                                                                 *)
Drain ==
  /\ pc = "drain"
  /\ body' = "closed"
  /\ Line("ok")
  /\ Settle("none")
  /\ UNCHANGED <<rb, ctx, idx, store, path, read, next, succeeded, tolerated, summary>>

FaultyFailCapture(e) == Line("ok") /\ Settle("none")

(* reportSuccess after a failed capture: a context error leaves no line. *)
FailCapture(e) ==
  /\ IF IsContextErr(e) THEN UNCHANGED lines ELSE Line("failed")
  /\ Settle(e)

(* captureFromResponse reads the body and closes it.  A body that is over the *)
(* bound, empty or not JSON cannot be used.                                   *)
ReadBody ==
  /\ pc = "capture"
  /\ body' = "closed"
  /\ read' \in {"whole", "unusable"}
  /\ next' = 1
  /\ pc' = "extract"
  /\ UNCHANGED <<rb, ctx, idx, store, path, err, succeeded, tolerated, lines, summary>>

FaultyReadBreaks ==
  /\ pc = "capture"
  /\ FailCapture("failure")
  /\ UNCHANGED <<rb, ctx, idx, store, request, succeeded, tolerated, summary>>

ReadBreaks ==
  /\ pc = "capture"
  /\ body' = "closed"
  /\ \/ FailCapture("failure")
     \/ Ended /\ FailCapture("ctx")
  /\ UNCHANGED <<rb, ctx, idx, store, path, read, next, succeeded, tolerated, summary>>

Extracting == pc = "extract" /\ read = "whole" /\ next <= Len(This.capture)

(* extractCaptures stores each value before it evaluates the next capture. *)
Extract(v) ==
  /\ Extracting /\ ~Ended
  /\ store' = [n \in DOMAIN store \cup {This.capture[next]} |->
                 IF n = This.capture[next] THEN v ELSE store[n]]
  /\ next' = next + 1
  /\ UNCHANGED <<rb, ctx, pc, idx, path, body, read, err, succeeded, tolerated, lines, summary>>

(* The expression matches nothing, gives no scalar, or is cut short. *)
ExtractFails ==
  /\ pc = "extract"
  /\ \/ Extracting /\ Ended /\ FailCapture("ctx")
     \/ Extracting /\ ~Ended /\ FailCapture("failure")
     \/ read = "unusable" /\ FailCapture("failure")
  /\ UNCHANGED <<rb, ctx, idx, store, request, succeeded, tolerated, summary>>

ReportSuccess ==
  /\ pc = "extract" /\ read = "whole" /\ next > Len(This.capture)
  /\ Line("ok")
  /\ Settle("none")
  /\ UNCHANGED <<rb, ctx, idx, store, request, succeeded, tolerated, summary>>

-----------------------------------------------------------------------------
(* Run *)

NextCall ==
  /\ idx' = idx + 1
  /\ pc' = "call"
  /\ path' = NoPath /\ body' = "none" /\ read' = "none" /\ next' = 1 /\ err' = "none"
  /\ UNCHANGED <<rb, ctx, store, lines, summary>>

Conclude(how, notRun) ==
  /\ summary' = [how |-> how, succeeded |-> succeeded, tolerated |-> tolerated,
                 notRun |-> notRun]
  /\ pc' = "returned"
  /\ UNCHANGED <<rb, ctx, idx, store, request, err, succeeded, tolerated, lines>>

CountSuccess ==
  /\ pc = "settle" /\ err = "none"
  /\ succeeded' = succeeded + 1
  /\ UNCHANGED tolerated
  /\ NextCall

FaultyInterrupted == err \in {"timeout", "ctx"} /\ Ended /\ ~This.tolerate

Interrupted == err # "none" /\ IsContextErr(err)

(* An interrupt ends the run even in a call whose failure is tolerated. *)
Interrupt ==
  /\ pc = "settle" /\ Interrupted
  /\ Conclude(IF ctx = "deadline" THEN "timed_out" ELSE "interrupted", NotRun)

Tolerate ==
  /\ pc = "settle" /\ err # "none" /\ ~Interrupted
  /\ This.tolerate
  /\ tolerated' = tolerated + 1
  /\ UNCHANGED succeeded
  /\ NextCall

Halt ==
  /\ pc = "settle" /\ err # "none" /\ ~Interrupted
  /\ ~This.tolerate
  /\ Conclude("halted", NotRun)

Complete ==
  /\ pc = "call" /\ idx > Len(rb)
  /\ Conclude("completed", 0)

-----------------------------------------------------------------------------
EndContext(cause) ==
  /\ ctx = "live"
  /\ ctx' = cause
  /\ UNCHANGED <<rb, pc, idx, store, request, err, succeeded, tolerated, lines, summary>>

Run ==
  \/ Send \/ Refuse
  \/ DoSucceeds \/ \E e \in CallErrors \ {"none"} : DoFails(e)
  \/ ReportNothing \/ ReportFailure \/ EchoBody \/ Drain
  \/ ReadBody \/ ReadBreaks
  \/ \E v \in Values : Extract(v)
  \/ ExtractFails \/ ReportSuccess
  \/ CountSuccess \/ Interrupt \/ Tolerate \/ Halt \/ Complete

Finished == pc = "returned" /\ UNCHANGED vars

Next ==
  \/ Run
  \/ \E cause \in {"canceled", "deadline"} : EndContext(cause)
  \/ Finished

Spec == Init /\ [][Next]_vars

FaultyWaiting == pc \in {"do", "drain", "capture", "extract", "echo"}

(* The runner is one goroutine.  A server may keep it waiting, and so may a jq *)
(* expression, until the context ends.                                        *)
Waiting == pc \in {"do", "drain", "capture", "extract", "echo"} /\ ~Ended

-----------------------------------------------------------------------------
(* No request is sent with a reference unset: every name a call needs was     *)
(* captured by an earlier call of this run that reported success, whatever    *)
(* was tolerated, half captured or cut short before (docs/runbooks.md:180-185). *)
SentReferencesAreSet ==
  path # NoPath =>
    \A n \in Needs(This) :
      /\ n \in DOMAIN store
      /\ \E j \in 1 .. idx - 1 : n \in Captured(rb[j]) /\ lines[j] = "ok"

Count(p, c) == Cardinality({i \in DOMAIN p : p[i] = c})

(* A captured value never changes which endpoint a call asks for: the path    *)
(* that is sent has the separators of its template and no segment that a      *)
(* proxy would collapse, however the values join up (docs/runbooks.md:211-216). *)
SentPathKeepsItsShape ==
  path # NoPath /\ References(This.path) # {} =>
    /\ ~HasDotSegment(path)
    /\ \A c \in Unsafe : Count(path, c) = Count(This.path, Char(c))

(* The body of a response is closed when its call is over, on every path.     *)
BodiesAreClosed == pc \in {"call", "settle", "returned"} => body # "open"

Lines(outcome) == Cardinality({j \in 1 .. idx - 1 : lines[j] = outcome})

(* The summary, the only record of an interrupted run, accounts for every     *)
(* call: it agrees with the outcome lines, and the calls it leaves out are    *)
(* those that were never begun (run.go:385-413).                              *)
SummaryAccounts ==
  pc = "returned" =>
    /\ summary.succeeded = Lines("ok")
    /\ summary.tolerated = Lines("failed")
    /\ \A j \in idx + 1 .. Len(rb) : lines[j] = "none"
    /\ summary.succeeded + summary.tolerated + summary.notRun
         + (IF summary.how = "completed" THEN 0 ELSE 1) = Len(rb)
    /\ summary.how = "halted" => lines[idx] = "failed" /\ ~This.tolerate
    /\ summary.how \in {"interrupted", "timed_out"} => lines[idx] # "ok"
=============================================================================
