--------------------------- MODULE RunnerInvariant ---------------------------
(* What Run knows at each of its points, strong enough to be inductive.  Of    *)
(* the runbook only what Load promises of it is used.                         *)
EXTENDS Runner

Shape ==
  /\ rb \in Seq(Plan) /\ Closed(rb)
  /\ ctx \in {"live", "canceled", "deadline"}
  /\ pc \in Points
  /\ idx \in 1 .. Len(rb) + 1
  /\ pc # "call" => \/ idx <= Len(rb)
                    \/ pc = "returned" /\ path = NoPath
  /\ body \in {"none", "open", "closed"}
  /\ next \in Nat \ {0}
  /\ err \in CallErrors
  /\ lines \in [DOMAIN rb -> {"none", "ok", "failed"}]

(* The calls that are over went as far as the run allows. *)
Passed ==
  \A j \in 1 .. idx - 1 :
    /\ \/ lines[j] = "ok"
       \/ lines[j] = "failed" /\ rb[j].tolerate
    /\ lines[j] = "ok" => Captured(rb[j]) \subseteq DOMAIN store

(* The call at hand. *)
AtHand ==
  /\ pc = "call" => path = NoPath
  /\ pc = "drain" => This.capture = <<>>
  /\ pc = "extract" => \A k \in 1 .. Len(This.capture) :
                         k < next => This.capture[k] \in DOMAIN store
  /\ pc \in {"report", "echo"} => err # "none"
  /\ pc = "echo" => lines[idx] = "failed"
  /\ pc = "settle" =>
       IF err = "none"
         THEN lines[idx] = "ok" /\ Captured(This) \subseteq DOMAIN store
         ELSE lines[idx] = "failed" \/ IsContextErr(err)

(* The counters agree with the outcome lines of the calls that are over, and   *)
(* the call at hand gets its line last.                                       *)
Counted ==
  /\ succeeded \in Nat /\ tolerated \in Nat
  /\ succeeded + tolerated = idx - 1
  /\ succeeded = Lines("ok") /\ tolerated = Lines("failed")
  /\ \A j \in idx + 1 .. Len(rb) : lines[j] = "none"
  /\ pc \in {"call", "do", "report", "drain", "capture", "extract"} /\ idx <= Len(rb) =>
       lines[idx] = "none"
  /\ pc = "settle" /\ err # "none" => lines[idx] # "ok"

Inv ==
  /\ Shape
  /\ Passed
  /\ AtHand
  /\ BodiesAreClosed
  /\ pc \in {"do", "extract"} => body # "open"

(* What is stored is a rendered value. *)
StoreTyped == \A n \in DOMAIN store : store[n] \in Value

(* Only a call that was refused has no path when it ends, and no error is known *)
(* before Do or a capture has given one.                                      *)
Begun ==
  /\ path \in Value \cup {NoPath}
  /\ path = NoPath => /\ pc \in {"call", "settle", "returned"}
                      /\ err \in {"none", "failure"}
                      /\ pc = "settle" => err = "failure"
  /\ pc \in {"call", "do", "drain", "capture", "extract"} => err = "none"

(* The summary of a run that has returned tells how it ended, and so do the    *)
(* error and the context it returns with.                                     *)
HowItEnded ==
  /\ err = "ctx" => Ended
  /\ pc = "call" => err = "none"
  /\ IF pc # "returned"
       THEN summary = NoSummary
       ELSE /\ summary.how \in {"completed", "halted", "interrupted", "timed_out"}
            /\ err = "none" <=> summary.how = "completed"
            /\ summary.how = "interrupted" => ctx = "canceled" /\ err \in {"timeout", "ctx"}
            /\ summary.how = "timed_out" => ctx = "deadline" /\ err \in {"timeout", "ctx"}
            /\ summary.how = "halted" => err \in {"failure", "timeout"}
=============================================================================
