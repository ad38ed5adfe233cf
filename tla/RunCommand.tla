------------------------------ MODULE RunCommand ------------------------------
(***************************************************************************)
(* osapi run <file> (internal/cli/run.go, cmd/osapi/main.go): Load, the    *)
(* settings, Runner.Run and the exit code.  The command is a Runner whose  *)
(* runbook comes from a Loader; which runbooks there are is up to the      *)
(* documents, and Runbooks is not used.  A signal may come at any time,    *)
(* the deadline of --timeout only once the runbook runs.                   *)
(***************************************************************************)
EXTENDS Runner, RunbookDocument

CONSTANTS
  Executed,     \* a bound: the other documents are only given with --dry-run
  NoExit        \* the process is running

VARIABLES
  doc, phase, declared, inherited, calls, error,    \* Loader
  dryRun,     \* --dry-run
  step,       \* where runRun is
  exit,       \* the exit code
  said        \* who told the user of the failure

Loading == INSTANCE Loader

ASSUME NoExitAssumption == NoExit \notin 0 .. 130

loader == <<doc, phase, declared, inherited, calls, error>>
commandVars == <<loader, vars, dryRun, step, exit, said>>

CommandInit ==
  /\ Loading!Init
  /\ rb = <<>> /\ ctx = "live" /\ pc = "call" /\ idx = 1 /\ store = [n \in {} |-> <<>>]
  /\ path = NoPath /\ body = "none" /\ read = "none" /\ next = 1 /\ err = "none"
  /\ succeeded = 0 /\ tolerated = 0 /\ lines = <<>> /\ summary = NoSummary
  /\ dryRun \in BOOLEAN /\ (dryRun \/ doc \in Executed)
  /\ step = "load" /\ exit = NoExit /\ said = "nobody"

Exit(code, by) == /\ step' = "exited"
                  /\ exit' = code
                  /\ said' = by
                  /\ UNCHANGED <<loader, vars, dryRun>>

LoadStep ==
  /\ step = "load"
  /\ Loading!Load
  /\ UNCHANGED <<vars, dryRun, step, exit, said>>

LoadFails == step = "load" /\ phase = "rejected" /\ Exit(1, "main")

(* The env file, the settings, the password or the client cannot be had.  A   *)
(* dry run needs the env file alone.                                          *)
Loaded ==
  /\ step = "load" /\ phase = "loaded"
  /\ step' = "settings"
  /\ UNCHANGED <<loader, vars, dryRun, exit, said>>

SettingsFail == step = "settings" /\ Exit(1, "main")

DryRun == step = "settings" /\ dryRun /\ Exit(0, "nobody")

StartRun ==
  /\ step = "settings" /\ ~dryRun
  /\ step' = "run"
  /\ rb' = [i \in DOMAIN calls |-> Loading!Resolved(calls[i])]
  /\ lines' = [i \in DOMAIN calls |-> "none"]
  /\ UNCHANGED <<loader, ctx, pc, idx, store, path, body, read, next, err, succeeded,
                 tolerated, summary, dryRun, exit, said>>

RunStep ==
  /\ step = "run"
  /\ Run
  /\ UNCHANGED <<loader, dryRun, step, exit, said>>

FaultyTimedOut == ctx = "deadline"

(* timeoutError asks the context and the error. *)
TimedOut == ctx = "deadline" /\ err \in {"timeout", "ctx"}

(* exitCode: the cause of a wrapped error decides. *)
ExitCode ==
  CASE err = "none" -> 0
    [] err # "none" /\ TimedOut -> 124
    [] err = "ctx" /\ ctx = "canceled" -> 130
    [] OTHER -> 1

(* main prints an error that the Runner has not reported. *)
Return ==
  /\ step = "run" /\ pc = "returned"
  /\ Exit(ExitCode, IF err = "none" THEN "nobody" ELSE "runner")

Signal ==
  /\ step # "exited"
  /\ EndContext("canceled")
  /\ UNCHANGED <<loader, dryRun, step, exit, said>>

Deadline ==
  /\ step = "run"
  /\ EndContext("deadline")
  /\ UNCHANGED <<loader, dryRun, step, exit, said>>

Command ==
  \/ LoadStep \/ LoadFails \/ Loaded
  \/ SettingsFail \/ DryRun \/ StartRun
  \/ RunStep \/ Return

Exited == step = "exited" /\ UNCHANGED commandVars

CommandNext == Command \/ Signal \/ Deadline \/ Exited

(* ResolvePassword may prompt, and term.ReadPassword does not see the context; *)
(* a dry run returns before it.                                               *)
AsksTheUser == step = "settings" /\ ~dryRun

(* The process goes on unless it waits for the user, or for a server or a jq   *)
(* expression, and for the latter only until the context ends.                *)
CommandWaiting == AsksTheUser \/ (step = "run" /\ Waiting)

CommandSpec == CommandInit /\ [][CommandNext]_commandVars

FairCommandSpec == CommandSpec /\ WF_commandVars(Command /\ ~CommandWaiting)

-----------------------------------------------------------------------------
(* Load and Runner together: a request is sent only when the whole document   *)
(* was accepted, and with every reference set, for whatever document.         *)
OnlyLoadedCallsAreSent ==
  path # NoPath =>
    /\ phase = "loaded" /\ Len(calls) = Len(doc.calls) /\ ~dryRun
    /\ SentReferencesAreSet

(* The exit code says what the summary says: 0 for a completed run, 130 for   *)
(* an interrupted one, 124 for one that timed out, 1 for a halted one.  Only  *)
(* a net timeout that races the end of the context may blur it.  main prints  *)
(* an error that no summary has told (docs/runbooks.md:156-170,               *)
(* run.go:124-140, main.go:36-38).                                            *)
ExitCodeTellsHow ==
  step = "exited" =>
    /\ exit = 0 <=> summary.how = "completed" \/ (dryRun /\ said = "nobody")
    /\ exit = 130 => summary.how = "interrupted"
    /\ summary.how = "timed_out" => exit = 124
    /\ exit = 124 => ctx = "deadline"
    /\ err # "timeout" =>
         /\ summary.how = "interrupted" => exit = 130
         /\ summary.how = "halted" => exit = 1
    /\ said = "main" <=> exit # 0 /\ summary.how = "none"

(* A signal or the deadline ends the command, the drain of a body and an      *)
(* endless capture included, unless the user is being asked for the password: *)
(* the command answers a signal only after that (password.go:40-53).          *)
InterruptEndsTheCommand == ctx # "live" ~> step = "exited" \/ AsksTheUser

-----------------------------------------------------------------------------
(* What Load promises, of every document the command is given: no loaded call  *)
(* has a reference that can be unset, ...                                     *)
LoadedIsClosed == Loading!LoadedIsClosed

(* ... a call that is refused has the fault it is refused for, ...             *)
RejectedForAReason == Loading!RejectedForAReason

(* ... and no call has a parameter of another one.                             *)
ParametersDoNotLeak == Loading!ParametersDoNotLeak
=============================================================================
