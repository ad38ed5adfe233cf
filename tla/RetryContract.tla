---------------------------- MODULE RetryContract ----------------------------
(***************************************************************************)
(* What Engine.Do promises its callers (its doc comment, retry.go:113-122, *)
(* and docs/retry.md): attempts one after another, a wait between two of   *)
(* them, a budget, an end of the caller's own choosing, and one response   *)
(* at most handed over.  It says nothing of bodies, predicates or          *)
(* statuses: those decide which of the allowed steps is taken.             *)
(***************************************************************************)
EXTENDS Integers

VARIABLES
  budget,    \* the retries allowed, or a negative number for no limit
  tries,     \* attempts begun
  phase,     \* "trying", "waiting" or "done"
  ended,     \* the caller has ended the call
  outcome,   \* what the call came to; "none" before it is done
  handed     \* a response was handed to the caller

vars == <<budget, tries, phase, ended, outcome, handed>>

Init ==
  /\ budget \in Int
  /\ tries = 1
  /\ phase = "trying"
  /\ ended = FALSE
  /\ outcome = "none"
  /\ handed = FALSE

UsedUp == budget >= 0 /\ tries > budget

Finish(kind, with) ==
  /\ phase' = "done" /\ outcome' = kind /\ handed' = with
  /\ UNCHANGED <<budget, tries, ended>>

(* A retry is announced only to a caller who still wants it. *)
Wait ==
  /\ phase = "trying" /\ ~UsedUp /\ ~ended
  /\ phase' = "waiting"
  /\ UNCHANGED <<budget, tries, ended, outcome, handed>>

TryAgain ==
  /\ phase = "waiting"
  /\ phase' = "trying" /\ tries' = tries + 1
  /\ UNCHANGED <<budget, ended, outcome, handed>>

(* An attempt decides the call on its own, whatever the budget. *)
Settle ==
  /\ phase = "trying"
  /\ \E kind \in {"success", "terminal"} : Finish(kind, TRUE)

(* A failure with retries configured: only when they are used up. *)
Exhaust ==
  /\ phase = "trying" /\ UsedUp /\ ~ended /\ budget > 0
  /\ \E with \in BOOLEAN : Finish("exhausted", with)

(* With no retries configured the failure is the attempt's own. *)
FailOnce ==
  /\ phase = "trying" /\ UsedUp /\ ~ended /\ budget = 0
  /\ \/ Finish("rejected", TRUE)
     \/ Finish("cause", FALSE)

Stop == phase # "done" /\ ended /\ Finish("ctx", FALSE)

(* An error that errors.Is takes for a deadline stops a live call as well. *)
StopOnTimeout == phase = "trying" /\ Finish("timeout", FALSE)

End ==
  /\ ended' = TRUE
  /\ UNCHANGED <<budget, tries, phase, outcome, handed>>

Next ==
  \/ Wait \/ TryAgain
  \/ Settle \/ Exhaust \/ FailOnce
  \/ Stop \/ StopOnTimeout \/ End

Spec == Init /\ [][Next]_vars
=============================================================================
