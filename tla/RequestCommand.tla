---------------------------- MODULE RequestCommand ----------------------------
(***************************************************************************)
(* The root command (internal/cli/request.go, cmd/osapi/main.go): settings *)
(* and request, Engine.Do, the response body on stdout, the exit code.     *)
(* The command is a RetryEngine with more around it: the body that the     *)
(* engine hands over is followed to stdout.                                *)
(*                                                                         *)
(* What precedes the first request is one step here, which succeeds or is  *)
(* refused; Connection has its detail.  A signal may come at any time, the *)
(* deadline of --timeout only once the request is built.                   *)
(***************************************************************************)
EXTENDS RetryEngine

CONSTANT NoExit   \* the process is running

ASSUME NoExitAssumption == NoExit \notin 0 .. 130

VARIABLES
  skeleton,   \* --body-skeleton
  step,       \* where runRequest is
  copyErr,    \* what io.Copy returned
  stdout,     \* the bytes of the response body on stdout, in order
  exit        \* the exit code

commandVars == <<vars, skeleton, step, copyErr, stdout, exit>>

CommandInit ==
  /\ Init
  /\ skeleton \in BOOLEAN
  /\ step = "prepare"
  /\ copyErr = "none" /\ stdout = <<>> /\ exit = NoExit

Exit(code) == step' = "exited" /\ exit' = code

(* --body-skeleton sends nothing, whatever else is set. *)
PrintSkeleton ==
  /\ step = "prepare" /\ skeleton
  /\ \E code \in {0, 1} : Exit(code)
  /\ UNCHANGED <<vars, skeleton, copyErr, stdout>>

(* Settings, password, client, body, parameters, headers or URL are refused. *)
PrepareFails ==
  /\ step = "prepare" /\ ~skeleton
  /\ Exit(1)
  /\ UNCHANGED <<vars, skeleton, copyErr, stdout>>

Start ==
  /\ step = "prepare" /\ ~skeleton
  /\ step' = "do"
  /\ UNCHANGED <<vars, skeleton, copyErr, stdout, exit>>

EngineStep ==
  /\ step = "do"
  /\ Loop
  /\ UNCHANGED <<skeleton, step, copyErr, stdout, exit>>

-----------------------------------------------------------------------------
(* The error that Do reports, as far as errors.Is tells it apart. *)
DoErr ==
  IF result.kind = "success" THEN "none"
  ELSE IF result.kind = "ctx" THEN result.err
  ELSE "failure"

(* timeoutError asks the context and the error. *)
TimedOut(e) == ctx = "deadline" /\ e \in {"ctx", "timeout"}

ExitCode(e) ==
  CASE e = "none" -> 0
    [] e # "none" /\ TimedOut(e) -> 124
    [] e = "ctx" /\ ctx = "canceled" -> 130
    [] OTHER -> 1

(* Do returned no response. *)
ReturnNothing ==
  /\ step = "do" /\ pc = "returned" /\ ~result.resp
  /\ Exit(ExitCode(DoErr))
  /\ UNCHANGED <<vars, skeleton, copyErr, stdout>>

CopyStarts ==
  /\ step = "do" /\ pc = "returned" /\ result.resp
  /\ step' = "copy"
  /\ UNCHANGED <<vars, skeleton, copyErr, stdout, exit>>

(* What io.Copy may come to and how many bytes of the body it wrote before:   *)
(* what was read ahead needs no server, and stdout may refuse any byte.       *)
CopyOutcome(e, written) ==
  CASE e = "none"  -> (body.end = "eof" \/ ~resp.breaks) /\ written = Len(body.stream)
    [] e = "body"  -> resp.breaks /\ body.end # "eof" /\ written = Len(body.stream)
    [] e = "ctx"   -> Ended /\ body.end # "eof" /\ written >= body.ahead
    [] e = "write" -> TRUE

FaultyFinalErr(e) == IF e # "none" THEN e ELSE DoErr

(* A copy error counts only if the engine reported none. *)
FinalErr(e) == IF DoErr = "none" THEN e ELSE DoErr

CopyEnds ==
  /\ step = "copy"
  /\ \E e \in {"none", "body", "ctx", "write"}, written \in 0 .. Len(body.stream) :
       /\ CopyOutcome(e, written)
       /\ copyErr' = e
       /\ stdout' = SubSeq(body.stream, 1, written)
       /\ body' = [body EXCEPT !.at = "closed"]
       /\ Exit(ExitCode(FinalErr(e)))
  /\ UNCHANGED <<cfg, ctx, pc, n, err, resp, overflowed, reason, result, endedAt, skeleton>>

-----------------------------------------------------------------------------
EndsWith(cause) ==
  /\ EndContext(cause)
  /\ UNCHANGED <<skeleton, step, copyErr, stdout, exit>>

Signal == step # "exited" /\ EndsWith("canceled")

Deadline == step \in {"do", "copy"} /\ EndsWith("deadline")

Command ==
  \/ PrintSkeleton \/ PrepareFails \/ Start
  \/ EngineStep
  \/ ReturnNothing \/ CopyStarts \/ CopyEnds

Exited == step = "exited" /\ UNCHANGED commandVars

CommandNext == Command \/ Signal \/ Deadline \/ Exited

FaultyCommandWaiting == step = "prepare" \/ (step = "do" /\ Waiting) \/ step = "copy"

(* A server may keep the command waiting for an answer, for the rest of a     *)
(* body or for what stdout is still to get, until the context ends.  Whoever  *)
(* is asked for the password or writes the request body to stdin may keep it  *)
(* for ever: neither io.ReadAll(stdin) nor the prompt asks the context        *)
(* (request.go:149-159).                                                      *)
CommandWaiting ==
  \/ step = "prepare"
  \/ step = "do" /\ Waiting
  \/ step = "copy" /\ ~Ended

CommandSpec == CommandInit /\ [][CommandNext]_commandVars

FairCommandSpec == CommandSpec /\ WF_commandVars(Command /\ ~CommandWaiting)

-----------------------------------------------------------------------------
(* What the server sent is what stdout gets, for a failed response as well:   *)
(* every byte once and in order when the copy meets no error, and else the    *)
(* bytes up to some point without a gap, in spite of those that were read     *)
(* ahead for the predicates (retry.go:244-263, docs/cli.md:207-208,           *)
(* docs/architecture.md:103-107).                                             *)
StdoutIsTheBody ==
  step = "exited" /\ result.resp =>
    /\ \E k \in 0 .. resp.len : stdout = SubSeq(Sent(resp), 1, k)
    /\ copyErr = "none" => stdout = Sent(resp)

(* The exit code tells how the call ended.  A response that was not a success *)
(* is 1 even when the context ended while its body was copied; 0 is a success *)
(* whose body is on stdout to its end; and an interrupt that Do or the copy   *)
(* of a success was stopped by is 130, a timeout 124 (docs/cli.md:198-205,    *)
(* run.go:114-122).                                                           *)
ExitCodeTellsHow ==
  step = "exited" /\ ~skeleton =>
    /\ exit = 0 <=> result.kind = "success" /\ copyErr = "none" /\ stdout = Sent(resp)
    /\ result.kind \in {"terminal", "rejected", "cause", "exhausted"} => exit = 1
    /\ result.kind = "ctx" /\ result.err = "ctx" => exit = IF ctx = "deadline" THEN 124 ELSE 130
    /\ result.kind = "success" /\ copyErr = "ctx" => exit \in {124, 130}
    /\ exit \in {124, 130} => Ended

(* A signal or the deadline ends the command wherever it is once the request  *)
(* is built: no silent server, no body without an end and no predicate holds  *)
(* it.  Before that a signal ends nothing while the command waits for the     *)
(* password or for stdin (request.go:149-159).                                *)
InterruptEndsTheCommand == ctx # "live" /\ step # "prepare" ~> step = "exited"
=============================================================================
