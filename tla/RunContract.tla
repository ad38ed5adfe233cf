----------------------------- MODULE RunContract -----------------------------
(***************************************************************************)
(* What docs/runbooks.md:154-171 promises of a run: the calls in document  *)
(* order, a halt at the first failure that is not tolerated, and an end by *)
(* a signal or the timeout that no call can tolerate.  It says nothing of  *)
(* requests, captures, bodies and counters: those decide which of the      *)
(* allowed steps is taken.                                                 *)
(***************************************************************************)
EXTENDS Naturals, Sequences

VARIABLES
  allows,    \* for every call of the runbook, whether it may fail
  over,      \* what became of the calls that are over
  sent,      \* of the call at hand: "no", "sent", or "cut" short by the end
  cause,     \* "live", or the cause that ended the run from outside
  verdict    \* how the run ended; "none" before that

vars == <<allows, over, sent, cause, verdict>>

Init ==
  /\ allows \in Seq(BOOLEAN)
  /\ over = <<>>
  /\ sent = "no"
  /\ cause = "live"
  /\ verdict = "none"

Running == verdict = "none" /\ Len(over) < Len(allows)

MayFail == allows[Len(over) + 1]

(* A call is sent only while the run is wanted.                              *)
Send ==
  /\ Running /\ sent = "no"
  /\ sent' = IF cause = "live" THEN "sent" ELSE "cut"
  /\ UNCHANGED <<allows, over, cause, verdict>>

CutShort ==
  /\ Running /\ sent = "sent" /\ cause # "live"
  /\ sent' = "cut"
  /\ UNCHANGED <<allows, over, cause, verdict>>

GoOn(outcome) ==
  /\ over' = Append(over, outcome)
  /\ sent' = "no"
  /\ UNCHANGED <<allows, cause, verdict>>

(* An answer that was on its way counts, whatever has ended meanwhile.       *)
Succeed == Running /\ sent = "sent" /\ GoOn("ok")

(* A call may fail without having been sent.                                 *)
Tolerate == Running /\ sent # "cut" /\ MayFail /\ GoOn("failed")

Finish(how) ==
  /\ verdict' = how
  /\ UNCHANGED <<allows, over, sent, cause>>

Halt == Running /\ sent # "cut" /\ ~MayFail /\ Finish("halted")

(* A call that was never sent is not what an interrupt is reported of.       *)
Interrupt ==
  /\ Running /\ sent # "no"
  /\ \/ cause = "canceled" /\ Finish("interrupted")
     \/ cause = "deadline" /\ Finish("timed_out")

Complete == verdict = "none" /\ Len(over) = Len(allows) /\ Finish("completed")

End ==
  /\ cause = "live" /\ cause' \in {"canceled", "deadline"}
  /\ UNCHANGED <<allows, over, sent, verdict>>

Next ==
  \/ Send \/ CutShort \/ Succeed \/ Tolerate
  \/ Halt \/ Interrupt \/ Complete \/ End

Spec == Init /\ [][Next]_vars

-----------------------------------------------------------------------------
(* No call runs after a failure that is not tolerated, and none after an      *)
(* interrupt: what is over succeeded or was allowed to fail.                  *)
StopsAtTheFirstFailure ==
  \A j \in 1 .. Len(over) : over[j] = "ok" \/ (over[j] = "failed" /\ allows[j])
=============================================================================
