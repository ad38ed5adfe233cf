----------------------------- MODULE RunnerProofs -----------------------------
(* Proofs about Runner, for every set of runbooks that Load accepts and all    *)
(* captured values, and about RunCommand, for every set of documents.         *)
EXTENDS RunnerInvariant, RunnerRefinement, RunCommand, FiniteSetTheorems, TLAPS

(* The loader, with what is proved of it. *)
LP == INSTANCE LoaderProofs

(* The runbook at hand is a sequence of calls with their captures. *)
LEMMA RunbookFacts ==
  ASSUME rb \in Seq(Plan)
  PROVE  /\ Len(rb) \in Nat
         /\ DOMAIN rb = 1 .. Len(rb)
         /\ \A i \in 1 .. Len(rb) :
              /\ rb[i].capture \in Seq(Names)
              /\ Len(rb[i].capture) \in Nat
              /\ DOMAIN rb[i].capture = 1 .. Len(rb[i].capture)
  <1>1. \A i \in 1 .. Len(rb) : rb[i] \in Plan
    OBVIOUS
  <1>2. \A c \in Plan : c.capture \in Seq(Names)
    BY DEF Plan
  <1> QED
    BY <1>1, <1>2

(* Run starts in the invariant. *)
LEMMA InvInit == Init => Inv
  <1> SUFFICES ASSUME Init PROVE Inv
    OBVIOUS
  <1>1. rb \in Seq(Plan) /\ Closed(rb)
    BY RunbooksAssumption DEF Init
  <1>2. Len(rb) \in Nat /\ DOMAIN rb = 1 .. Len(rb)
    BY <1>1, RunbookFacts
  <1>3. Shape
    BY <1>1, <1>2 DEF Init, Shape, Points, CallErrors
  <1> QED
    BY <1>2, <1>3 DEF Init, Inv, Passed, AtHand, BodiesAreClosed

(* A step that keeps the runbook, the call, what was captured and reported,    *)
(* and the calls before it, keeps what is known of them.                      *)
LEMMA PassedKept ==
  ASSUME Inv, UNCHANGED <<rb, idx>>, DOMAIN store \subseteq DOMAIN store',
         \A j \in 1 .. idx - 1 : lines'[j] = lines[j]
  PROVE  Passed'
  BY DEF Inv, Passed, Captured

(* What holds of the state when the call at hand is being run. *)
LEMMA AtCall ==
  ASSUME Inv, pc # "returned", pc # "call"
  PROVE  /\ idx \in 1 .. Len(rb) /\ idx \in Nat
         /\ Len(rb) \in Nat /\ DOMAIN rb = 1 .. Len(rb)
         /\ Len(This.capture) \in Nat
         /\ DOMAIN This.capture = 1 .. Len(This.capture)
  BY RunbookFacts DEF Inv, Shape, This

(* Writing the outcome line of the call at hand leaves the others alone. *)
LEMMA LineKept ==
  ASSUME Inv, idx \in 1 .. Len(rb), NEW o \in {"ok", "failed"}, Line(o)
  PROVE  /\ lines' \in [DOMAIN rb -> {"none", "ok", "failed"}]
         /\ lines'[idx] = o
         /\ \A j \in 1 .. idx - 1 : lines'[j] = lines[j]
  <1>1. lines \in [DOMAIN rb -> {"none", "ok", "failed"}] /\ rb \in Seq(Plan)
    BY DEF Inv, Shape
  <1>2. Len(rb) \in Nat /\ DOMAIN rb = 1 .. Len(rb)
    BY <1>1, RunbookFacts
  <1>3. lines' = [lines EXCEPT ![idx] = o]
    BY DEF Line
  <1>4. idx \in DOMAIN rb
    BY <1>2
  <1>5. lines' \in [DOMAIN rb -> {"none", "ok", "failed"}] /\ lines'[idx] = o
    BY ONLY <1>1, <1>3, <1>4, o \in {"ok", "failed"}
  <1>6. ASSUME NEW j \in 1 .. idx - 1 PROVE lines'[j] = lines[j]
    BY <1>1, <1>2, <1>3, <1>4
  <1> QED
    BY <1>5, <1>6

(* The steps that run the call at hand keep the invariant. *)
LEMMA SendKeeps == ASSUME Inv, Send PROVE Inv'
  <1> USE DEF Send
  <1>1. Passed'
    BY PassedKept
  <1>2. Shape'
    BY DEF Inv, Shape, Points, CallErrors
  <1>3. AtHand'
    BY DEF Inv, Shape, AtHand
  <1> QED
    BY <1>1, <1>2, <1>3 DEF Inv, BodiesAreClosed

(* A call whose path is refused has failed without a request. *)
LEMMA RefuseKeeps == ASSUME Inv, Refuse PROVE Inv'
  <1> USE DEF Refuse, request
  <1>1. idx \in 1 .. Len(rb)
    BY RunbookFacts DEF Inv, Shape
  <1>2. /\ lines' \in [DOMAIN rb -> {"none", "ok", "failed"}]
        /\ lines'[idx] = "failed"
        /\ \A j \in 1 .. idx - 1 : lines'[j] = lines[j]
    BY <1>1, LineKept
  <1>3. Passed'
    BY <1>2, PassedKept
  <1>4. Shape'
    BY <1>2 DEF Inv, Shape, Points, CallErrors, Settle
  <1>5. AtHand'
    BY <1>2 DEF AtHand, Settle
  <1> QED
    BY <1>3, <1>4, <1>5 DEF Inv, BodiesAreClosed, Settle

(* After a success of Do the body is open and the captures are still to come. *)
LEMMA DoSucceedsKeeps == ASSUME Inv, DoSucceeds PROVE Inv'
  <1> USE DEF DoSucceeds
  <1>1. Passed'
    BY PassedKept
  <1>2. Shape'
    BY DEF Inv, Shape, Points, CallErrors
  <1>3. AtHand'
    BY DEF Inv, Shape, AtHand, This
  <1> QED
    BY <1>1, <1>2, <1>3 DEF Inv, BodiesAreClosed

(* After a failure of Do there is an error to report. *)
LEMMA DoFailsKeeps ==
  ASSUME Inv, NEW e \in CallErrors \ {"none"}, DoFails(e) PROVE Inv'
  <1> USE DEF DoFails
  <1>1. Passed'
    BY PassedKept
  <1>2. Shape'
    BY DEF Inv, Shape, Points, CallErrors
  <1>3. AtHand'
    BY DEF AtHand
  <1> QED
    BY <1>1, <1>2, <1>3 DEF Inv, BodiesAreClosed

(* A context error is left without an outcome line. *)
LEMMA ReportNothingKeeps == ASSUME Inv, ReportNothing PROVE Inv'
  <1> USE DEF ReportNothing
  <1>1. Passed'
    BY PassedKept
  <1>2. Shape'
    BY DEF Inv, Shape, Points, CallErrors
  <1>3. AtHand'
    BY DEF Inv, AtHand, IsContextErr, Ended
  <1> QED
    BY <1>1, <1>2, <1>3 DEF Inv, Shape, BodiesAreClosed

(* A failure gets its outcome line. *)
LEMMA ReportFailureKeeps == ASSUME Inv, ReportFailure PROVE Inv'
  <1> USE DEF ReportFailure, request
  <1>1. /\ lines' \in [DOMAIN rb -> {"none", "ok", "failed"}]
        /\ lines'[idx] = "failed"
        /\ \A j \in 1 .. idx - 1 : lines'[j] = lines[j]
    BY AtCall, LineKept
  <1>2. Passed'
    BY <1>1, PassedKept
  <1>3. Shape'
    BY <1>1 DEF Inv, Shape, Points, CallErrors
  <1>4. AtHand'
    BY <1>1 DEF Inv, AtHand
  <1> QED
    BY <1>2, <1>3, <1>4 DEF Inv, Shape, BodiesAreClosed

(* The echo of a failed response closes its body. *)
LEMMA EchoBodyKeeps == ASSUME Inv, EchoBody PROVE Inv'
  <1> USE DEF EchoBody
  <1>1. Passed'
    BY PassedKept
  <1>2. Shape'
    BY DEF Inv, Shape, Points, CallErrors
  <1>3. AtHand'
    BY DEF Inv, AtHand
  <1> QED
    BY <1>1, <1>2, <1>3 DEF Inv, BodiesAreClosed

(* The drain of a successful response closes its body and reports the call ok. *)
LEMMA DrainKeeps == ASSUME Inv, Drain PROVE Inv'
  <1> USE DEF Drain
  <1>1. /\ lines' \in [DOMAIN rb -> {"none", "ok", "failed"}]
        /\ lines'[idx] = "ok"
        /\ \A j \in 1 .. idx - 1 : lines'[j] = lines[j]
    BY AtCall, LineKept
  <1>2. Passed'
    BY <1>1, PassedKept
  <1>3. Shape'
    BY <1>1 DEF Inv, Shape, Points, CallErrors, Settle
  <1>4. Captured(This) = {}
    BY DEF Inv, AtHand, Captured
  <1>5. AtHand'
    BY <1>1, <1>4 DEF AtHand, Settle, This
  <1> QED
    BY <1>2, <1>3, <1>5 DEF Inv, BodiesAreClosed

(* The body is closed once it was read for the captures. *)
LEMMA ReadBodyKeeps == ASSUME Inv, ReadBody PROVE Inv'
  <1> USE DEF ReadBody
  <1>1. Passed'
    BY PassedKept
  <1>2. Shape'
    BY DEF Inv, Shape, Points, CallErrors
  <1>3. AtHand'
    BY AtCall DEF AtHand, This
  <1> QED
    BY <1>1, <1>2, <1>3 DEF Inv, BodiesAreClosed

(* A failed capture settles the call, with an outcome line unless the context *)
(* has ended.                                                                 *)
LEMMA FailCaptureKeeps ==
  ASSUME Inv, NEW e \in {"failure", "ctx"}, e = "ctx" => Ended, FailCapture(e),
         pc \in {"capture", "extract"}, body' # "open", body' \in {"none", "open", "closed"},
         UNCHANGED <<rb, ctx, idx, store, path, next>>
  PROVE  Inv'
  <1>1. CASE IsContextErr(e)
    <2>1. lines' = lines /\ pc' = "settle" /\ err' = e
      BY <1>1 DEF FailCapture, Settle
    <2>2. Passed'
      BY <2>1, PassedKept
    <2>3. Shape'
      BY <2>1 DEF Inv, Shape, Points, CallErrors
    <2>4. AtHand'
      BY <1>1, <2>1 DEF AtHand, IsContextErr, Ended
    <2> QED
      BY <2>1, <2>2, <2>3, <2>4 DEF Inv, BodiesAreClosed
  <1>2. CASE ~IsContextErr(e)
    <2>1. Line("failed") /\ pc' = "settle" /\ err' = e
      BY <1>2 DEF FailCapture, Settle
    <2>2. /\ lines' \in [DOMAIN rb -> {"none", "ok", "failed"}]
          /\ lines'[idx] = "failed"
          /\ \A j \in 1 .. idx - 1 : lines'[j] = lines[j]
      BY <2>1, AtCall, LineKept
    <2>3. Passed'
      BY <2>2, PassedKept
    <2>4. Shape'
      BY <2>1, <2>2 DEF Inv, Shape, Points, CallErrors
    <2>5. AtHand'
      BY <2>1, <2>2 DEF AtHand
    <2> QED
      BY <2>1, <2>3, <2>4, <2>5 DEF Inv, BodiesAreClosed
  <1> QED
    BY <1>1, <1>2

(* A body that breaks off fails the capture. *)
LEMMA ReadBreaksKeeps == ASSUME Inv, ReadBreaks PROVE Inv'
  BY FailCaptureKeeps DEF ReadBreaks

(* So does an expression that gives no value. *)
LEMMA ExtractFailsKeeps == ASSUME Inv, ExtractFails PROVE Inv'
  <1>1. body # "open" /\ body \in {"none", "open", "closed"}
    BY DEF Inv, Shape, ExtractFails
  <1> QED
    BY <1>1, FailCaptureKeeps DEF ExtractFails, Extracting, request

(* Each extracted value extends the store. *)
LEMMA ExtractKeeps == ASSUME Inv, NEW v \in Values, Extract(v) PROVE Inv'
  <1> USE DEF Extract, Extracting
  <1>1. DOMAIN store' = DOMAIN store \cup {This.capture[next]}
    OBVIOUS
  <1>2. Passed'
    BY <1>1, PassedKept
  <1>3. Shape'
    BY DEF Inv, Shape
  <1>4. AtHand'
    BY <1>1, AtCall DEF Inv, Shape, AtHand, This
  <1> QED
    BY <1>2, <1>3, <1>4 DEF Inv, BodiesAreClosed

(* A call is reported ok once all of its captures are in the store. *)
LEMMA ReportSuccessKeeps == ASSUME Inv, ReportSuccess PROVE Inv'
  <1> USE DEF ReportSuccess, request
  <1>1. /\ lines' \in [DOMAIN rb -> {"none", "ok", "failed"}]
        /\ lines'[idx] = "ok"
        /\ \A j \in 1 .. idx - 1 : lines'[j] = lines[j]
    BY AtCall, LineKept
  <1>2. Passed'
    BY <1>1, PassedKept
  <1>3. Shape'
    BY <1>1 DEF Inv, Shape, Points, CallErrors, Settle
  <1>4. Captured(This) \subseteq DOMAIN store
    BY AtCall DEF Inv, Shape, AtHand, Captured
  <1>5. AtHand'
    BY <1>1, <1>4 DEF AtHand, Settle, This
  <1> QED
    BY <1>2, <1>3, <1>5 DEF Inv, BodiesAreClosed, Settle
(* The steps of Run itself.  A call that is over has passed. *)
LEMMA CountSuccessKeeps == ASSUME Inv, CountSuccess PROVE Inv'
  <1> USE DEF CountSuccess, NextCall
  <1>1. lines[idx] = "ok" /\ Captured(rb[idx]) \subseteq DOMAIN store
    BY DEF Inv, AtHand, This
  <1>2. Passed'
    BY <1>1, AtCall DEF Inv, Passed
  <1>3. Shape'
    BY AtCall DEF Inv, Shape, Points, CallErrors
  <1>4. AtHand'
    BY DEF AtHand
  <1> QED
    BY <1>2, <1>3, <1>4 DEF Inv, BodiesAreClosed

(* A tolerated failure has passed. *)
LEMMA TolerateKeeps == ASSUME Inv, Tolerate PROVE Inv'
  <1> USE DEF Tolerate, NextCall
  <1>1. lines[idx] = "failed" /\ rb[idx].tolerate
    BY DEF Inv, AtHand, This, Interrupted
  <1>2. Passed'
    BY <1>1, AtCall DEF Inv, Passed
  <1>3. Shape'
    BY AtCall DEF Inv, Shape, Points, CallErrors
  <1>4. AtHand'
    BY DEF AtHand
  <1> QED
    BY <1>2, <1>3, <1>4 DEF Inv, BodiesAreClosed

(* Run returns: the state of the calls stays as it is. *)
LEMMA ConcludeKeeps ==
  ASSUME Inv, NEW how, NEW left, Conclude(how, left), pc \in {"settle", "call"},
         pc = "call" => path = NoPath
  PROVE  Inv'
  <1> USE DEF Conclude, request
  <1>1. Passed'
    BY PassedKept
  <1>2. Shape'
    BY DEF Inv, Shape, Points
  <1>3. AtHand'
    BY DEF AtHand
  <1> QED
    BY <1>1, <1>2, <1>3 DEF Inv, BodiesAreClosed

(* An interrupt ends the run. *)
LEMMA InterruptKeeps == ASSUME Inv, Interrupt PROVE Inv'
  BY ConcludeKeeps DEF Interrupt

(* A failure that is not tolerated ends the run. *)
LEMMA HaltKeeps == ASSUME Inv, Halt PROVE Inv'
  BY ConcludeKeeps DEF Halt

(* The end of the last call ends the run. *)
LEMMA CompleteKeeps == ASSUME Inv, Complete PROVE Inv'
  BY ConcludeKeeps DEF Complete, Inv, AtHand

(* The context ends: what was a context error stays one. *)
LEMMA EndContextKeeps ==
  ASSUME Inv, NEW cause \in {"canceled", "deadline"}, EndContext(cause) PROVE Inv'
  <1> USE DEF EndContext, request
  <1>1. Passed'
    BY PassedKept
  <1>2. Shape'
    BY DEF Inv, Shape
  <1>3. AtHand'
    BY DEF Inv, AtHand, This, IsContextErr, Ended
  <1> QED
    BY <1>1, <1>2, <1>3 DEF Inv, BodiesAreClosed

(* A step that changes nothing keeps the invariant. *)
LEMMA StutterKeeps == ASSUME Inv, UNCHANGED vars PROVE Inv'
  <1> USE DEF vars
  <1>1. Passed'
    BY PassedKept
  <1> QED
    BY <1>1 DEF Inv, Shape, AtHand, This, IsContextErr, Ended, BodiesAreClosed

(* Every step of the specification keeps the invariant. *)
LEMMA InvNext == Inv /\ [Next]_vars => Inv'
  <1> SUFFICES ASSUME Inv, [Next]_vars PROVE Inv'
    OBVIOUS
  <1>1. CASE Run
    BY <1>1, SendKeeps, RefuseKeeps, DoSucceedsKeeps, DoFailsKeeps, ReportNothingKeeps,
       ReportFailureKeeps, EchoBodyKeeps, DrainKeeps, ReadBodyKeeps, ReadBreaksKeeps,
       ExtractKeeps, ExtractFailsKeeps, ReportSuccessKeeps, CountSuccessKeeps,
       InterruptKeeps, TolerateKeeps, HaltKeeps, CompleteKeeps
       DEF Run
  <1>2. CASE \E cause \in {"canceled", "deadline"} : EndContext(cause)
    BY <1>2, EndContextKeeps
  <1>3. CASE Finished \/ UNCHANGED vars
    BY <1>3, StutterKeeps DEF Finished
  <1> QED
    BY <1>1, <1>2, <1>3 DEF Next

(* At every point of Run: the calls before idx passed, the one at hand got as *)
(* far as the point says, and no body is open between calls.                  *)
THEOREM Invariant == Spec => []Inv
  BY InvInit, InvNext, PTL DEF Spec

(* The body of every response is closed when its call is over. *)
THEOREM BodiesCorrect == Spec => []BodiesAreClosed
  <1>1. Inv => BodiesAreClosed
    BY DEF Inv
  <1> QED
    BY <1>1, Invariant, PTL

(* A name a call needs was captured by an earlier call that did not tolerate   *)
(* its failure, so that call reported success, and success comes after all    *)
(* the captures of a call were stored.                                        *)
LEMMA InvIsReferenced == Inv => SentReferencesAreSet
  <1> SUFFICES ASSUME Inv, path # NoPath, NEW name \in Needs(This)
               PROVE  /\ name \in DOMAIN store
                      /\ \E j \in 1 .. idx - 1 : name \in Captured(rb[j]) /\ lines[j] = "ok"
    BY DEF SentReferencesAreSet
  <1>1. idx \in DOMAIN rb /\ Closed(rb)
    BY RunbookFacts DEF Inv, Shape, AtHand
  <1>2. PICK j \in 1 .. idx - 1 : name \in Captured(rb[j]) /\ ~rb[j].tolerate
    BY <1>1 DEF Closed, This
  <1>3. lines[j] = "ok" /\ Captured(rb[j]) \subseteq DOMAIN store
    BY <1>2 DEF Inv, Passed
  <1> QED
    BY <1>2, <1>3

(* No request is sent with a reference unset, for every runbook that Load      *)
(* accepts.                                                                   *)
THEOREM ReferencesCorrect == Spec => []SentReferencesAreSet
  BY InvIsReferenced, Invariant, PTL

-----------------------------------------------------------------------------
(* The summary *)

Rest == <<rb, idx, succeeded, tolerated>>

(* A step that leaves the calls behind alone leaves what is counted of them. *)
LEMMA LinesKept ==
  ASSUME idx' = idx, \A j \in 1 .. idx - 1 : lines'[j] = lines[j], NEW o
  PROVE  Lines(o)' = Lines(o)
  <1>1. {j \in 1 .. idx' - 1 : lines'[j] = o} = {j \in 1 .. idx - 1 : lines[j] = o}
    OBVIOUS
  <1> QED
    BY <1>1 DEF Lines

(* A call that is over counts for its outcome line. *)
LEMMA LinesGrow ==
  ASSUME idx \in Nat, idx >= 1, idx' = idx + 1, lines' = lines, NEW o
  PROVE  Lines(o)' = IF lines[idx] = o THEN Lines(o) + 1 ELSE Lines(o)
  <1> DEFINE S == {j \in 1 .. idx - 1 : lines[j] = o}
             T == {j \in 1 .. idx' - 1 : lines'[j] = o}
  <1>1. IsFiniteSet(S)
    <2>1. IsFiniteSet(1 .. idx - 1)
      BY FS_Interval
    <2>2. S \in SUBSET (1 .. idx - 1)
      OBVIOUS
    <2> QED
      BY <2>1, <2>2, FS_Subset
  <1>2. CASE lines[idx] = o
    <2>1. T = S \cup {idx} /\ idx \notin S
      BY <1>2
    <2>2. Cardinality(S \cup {idx}) = Cardinality(S) + 1
      BY <1>1, <2>1, FS_AddElement
    <2> QED
      BY <1>2, <2>1, <2>2 DEF Lines
  <1>3. CASE lines[idx] # o
    <2>1. T = S
      BY <1>3
    <2> QED
      BY <1>3, <2>1 DEF Lines
  <1> QED
    BY <1>2, <1>3

(* Nothing is counted before the first call is over. *)
LEMMA CountedInit == Init => Counted
  <1> SUFFICES ASSUME Init PROVE Counted
    OBVIOUS
  <1>1. Len(rb) \in Nat /\ DOMAIN rb = 1 .. Len(rb)
    BY RunbooksAssumption, RunbookFacts DEF Init
  <1>2. \A o : {j \in 1 .. idx - 1 : lines[j] = o} = {}
    BY DEF Init
  <1>3. \A o : Lines(o) = 0
    BY <1>2, FS_EmptySet DEF Lines
  <1> QED
    BY <1>1, <1>3 DEF Init, Counted

(* The steps of one call leave the counters, and write no line but their own. *)
LEMMA CountedWithin ==
  ASSUME Inv, Counted, UNCHANGED Rest,
         \A j \in DOMAIN rb : j # idx => lines'[j] = lines[j],
         pc' \in {"call", "do", "report", "drain", "capture", "extract"} /\ idx <= Len(rb) =>
           lines'[idx] = "none",
         pc' = "settle" /\ err' # "none" => lines'[idx] # "ok"
  PROVE  Counted'
  <1>1. /\ Len(rb) \in Nat /\ DOMAIN rb = 1 .. Len(rb)
        /\ idx \in 1 .. Len(rb) + 1
    BY RunbookFacts DEF Inv, Shape
  <1>2. \A j \in 1 .. idx - 1 : lines'[j] = lines[j]
    BY <1>1
  <1>3. Lines("ok")' = Lines("ok") /\ Lines("failed")' = Lines("failed")
    BY <1>2, LinesKept DEF Rest
  <1>4. \A j \in idx + 1 .. Len(rb) : lines'[j] = "none"
    BY <1>1 DEF Counted
  <1> QED
    BY <1>3, <1>4 DEF Counted, Rest

(* A step that writes no line. *)
LEMMA CountedQuiet ==
  ASSUME Inv, Counted, UNCHANGED <<rb, idx, succeeded, tolerated, lines>>,
         pc' \in {"call", "do", "report", "drain", "capture", "extract"} /\ idx <= Len(rb) =>
           lines[idx] = "none",
         pc' = "settle" /\ err' # "none" => lines[idx] # "ok"
  PROVE  Counted'
  BY CountedWithin DEF Rest

(* A step that writes the line of the call at hand and settles it, or echoes. *)
LEMMA CountedLine ==
  ASSUME Inv, Counted, UNCHANGED Rest, NEW o \in {"ok", "failed"}, Line(o),
         idx \in 1 .. Len(rb), pc' \in {"settle", "echo"}, o = "ok" => err' = "none"
  PROVE  Counted'
  <1>1. lines \in [DOMAIN rb -> {"none", "ok", "failed"}] /\ rb \in Seq(Plan)
    BY DEF Inv, Shape
  <1>2. \A j \in DOMAIN rb : j # idx => lines'[j] = lines[j]
    BY <1>1 DEF Line
  <1>3. lines'[idx] = o
    BY LineKept
  <1> QED
    BY <1>2, <1>3, CountedWithin

(* A failed capture writes the line of its call, or none. *)
LEMMA CountedFailCapture ==
  ASSUME Inv, Counted, UNCHANGED Rest, NEW e \in {"failure", "ctx"}, FailCapture(e),
         pc \in {"capture", "extract"}
  PROVE  Counted'
  <1>1. idx \in 1 .. Len(rb)
    BY AtCall
  <1>2. pc' = "settle" /\ err' = e
    BY DEF FailCapture, Settle
  <1>3. CASE IsContextErr(e)
    <2>1. lines' = lines /\ lines[idx] = "none"
      BY <1>1, <1>3 DEF FailCapture, Counted
    <2> QED
      BY <1>2, <2>1, CountedQuiet DEF Rest
  <1>4. CASE ~IsContextErr(e)
    BY <1>1, <1>2, <1>4, CountedLine DEF FailCapture
  <1> QED
    BY <1>3, <1>4

(* The end of a call moves it from the call at hand to those that are counted. *)
LEMMA CountedNextCall ==
  ASSUME Inv, Counted, NextCall, idx \in 1 .. Len(rb), NEW o \in {"ok", "failed"},
         lines[idx] = o,
         succeeded' = IF o = "ok" THEN succeeded + 1 ELSE succeeded,
         tolerated' = IF o = "failed" THEN tolerated + 1 ELSE tolerated
  PROVE  Counted'
  <1>1. Len(rb) \in Nat /\ idx \in Nat /\ idx >= 1
    BY RunbookFacts DEF Inv, Shape
  <1>2. rb' = rb /\ idx' = idx + 1 /\ lines' = lines /\ pc' = "call" /\ err' = "none"
    BY DEF NextCall
  <1>3. /\ Lines("ok")' = IF lines[idx] = "ok" THEN Lines("ok") + 1 ELSE Lines("ok")
        /\ Lines("failed")' = IF lines[idx] = "failed" THEN Lines("failed") + 1
                                                        ELSE Lines("failed")
    BY <1>1, <1>2, LinesGrow
  <1>4. \A j \in idx' + 1 .. Len(rb') : lines'[j] = "none"
    BY <1>1, <1>2 DEF Counted
  <1>5. idx' <= Len(rb') => lines'[idx'] = "none"
    BY <1>1, <1>2 DEF Counted
  <1>6. /\ succeeded' \in Nat /\ tolerated' \in Nat
        /\ succeeded' + tolerated' = idx' - 1
    BY <1>1, <1>2 DEF Counted
  <1>7. succeeded' = Lines("ok")' /\ tolerated' = Lines("failed")'
    BY <1>3 DEF Counted
  <1> QED
    BY <1>2, <1>4, <1>5, <1>6, <1>7 DEF Counted

(* Every step keeps the count. *)
LEMMA CountedNext == Inv /\ Counted /\ [Next]_vars => Counted'
  <1> SUFFICES ASSUME Inv, Counted, [Next]_vars PROVE Counted'
    OBVIOUS
  <1> USE DEF Rest
  <1>1. CASE Send
    BY <1>1, CountedQuiet DEF Send, Counted
  <1>2. CASE Refuse
    <2>1. idx \in 1 .. Len(rb)
      BY <1>2, RunbookFacts DEF Inv, Shape, Refuse
    <2> QED
      BY <1>2, <2>1, CountedLine DEF Refuse, Settle
  <1>3. CASE DoSucceeds
    BY <1>3, CountedQuiet DEF DoSucceeds, Counted
  <1>4. ASSUME NEW e \in CallErrors \ {"none"}, DoFails(e) PROVE Counted'
    BY <1>4, CountedQuiet DEF DoFails, Counted
  <1>5. CASE ReportNothing
    BY <1>5, CountedQuiet, AtCall DEF ReportNothing, Counted
  <1>6. CASE ReportFailure
    BY <1>6, CountedLine, AtCall DEF ReportFailure
  <1>7. CASE EchoBody
    BY <1>7, CountedQuiet DEF EchoBody, Inv, AtHand
  <1>8. CASE Drain
    BY <1>8, CountedLine, AtCall DEF Drain, Settle
  <1>9. CASE ReadBody
    BY <1>9, CountedQuiet DEF ReadBody, Counted
  <1>10. CASE ReadBreaks
    BY <1>10, CountedFailCapture DEF ReadBreaks
  <1>11. ASSUME NEW v \in Values, Extract(v) PROVE Counted'
    BY <1>11, CountedQuiet DEF Extract, Extracting, Counted
  <1>12. CASE ExtractFails
    BY <1>12, CountedFailCapture DEF ExtractFails
  <1>13. CASE ReportSuccess
    BY <1>13, CountedLine, AtCall DEF ReportSuccess, Settle
  <1>14. CASE CountSuccess
    <2>1. lines[idx] = "ok"
      BY <1>14 DEF CountSuccess, Inv, AtHand
    <2> QED
      BY <1>14, <2>1, AtCall, CountedNextCall DEF CountSuccess
  <1>15. CASE Tolerate
    <2>1. lines[idx] = "failed"
      BY <1>15 DEF Tolerate, Interrupted, Inv, AtHand
    <2> QED
      BY <1>15, <2>1, AtCall, CountedNextCall DEF Tolerate
  <1>16. CASE Interrupt \/ Halt \/ Complete
    BY <1>16, CountedQuiet DEF Interrupt, Halt, Complete, Conclude
  <1>17. ASSUME NEW cause \in {"canceled", "deadline"}, EndContext(cause) PROVE Counted'
    BY <1>17, CountedQuiet DEF EndContext, Counted
  <1>18. CASE Finished \/ UNCHANGED vars
    BY <1>18, CountedQuiet DEF Finished, vars, Counted
  <1> QED
    BY <1>1, <1>2, <1>3, <1>4, <1>5, <1>6, <1>7, <1>8, <1>9, <1>10, <1>11, <1>12, <1>13,
       <1>14, <1>15, <1>16, <1>17, <1>18 DEF Next, Run

(* The summary is written last, from counters that agree with the lines. *)
LEMMA SummaryNext ==
  Inv /\ Counted /\ SummaryAccounts /\ [Next]_vars => SummaryAccounts'
  <1> SUFFICES ASSUME Inv, Counted, SummaryAccounts, [Next]_vars, pc' = "returned"
               PROVE  SummaryAccounts'
    BY DEF SummaryAccounts
  <1>0. /\ Len(rb) \in Nat /\ idx \in 1 .. Len(rb) + 1
    BY RunbookFacts DEF Inv, Shape
  <1>1. ASSUME NEW how \in {"completed", "halted", "interrupted", "timed_out"}, NEW left,
               Conclude(how, left),
               left = IF how = "completed" THEN 0 ELSE Len(rb) - idx,
               how = "completed" => idx = Len(rb) + 1,
               how = "halted" => lines[idx] = "failed" /\ ~This.tolerate,
               how \in {"interrupted", "timed_out"} => lines[idx] # "ok"
        PROVE  SummaryAccounts'
    <2>1. UNCHANGED <<rb, idx, lines, succeeded, tolerated>>
      BY <1>1 DEF Conclude
    <2>2. Lines("ok")' = Lines("ok") /\ Lines("failed")' = Lines("failed")
      BY <2>1, LinesKept
    <2>3. summary' = [how |-> how, succeeded |-> succeeded, tolerated |-> tolerated,
                      notRun |-> left]
      BY <1>1 DEF Conclude
    <2>4. /\ summary'.succeeded = succeeded /\ summary'.tolerated = tolerated
          /\ summary'.how = how /\ summary'.notRun = left
      BY <2>3
    <2>5. succeeded + tolerated + left + (IF how = "completed" THEN 0 ELSE 1) = Len(rb)
      BY <1>0, <1>1 DEF Counted
    <2>6. This' = This
      BY <2>1 DEF This
    <2> QED
      BY <1>1, <2>1, <2>2, <2>4, <2>5, <2>6 DEF SummaryAccounts, Counted
  <1>2. CASE Interrupt
    <2>1. lines[idx] # "ok"
      BY <1>2 DEF Interrupt, Interrupted, Counted
    <2> QED
      BY <1>1, <1>2, <2>1 DEF Interrupt, NotRun
  <1>3. CASE Halt
    <2>1. lines[idx] = "failed"
      BY <1>3 DEF Halt, Interrupted, Inv, AtHand
    <2> QED
      BY <1>1, <1>3, <2>1 DEF Halt, NotRun
  <1>4. CASE Complete
    <2>1. idx = Len(rb) + 1
      BY <1>0, <1>4 DEF Complete
    <2> QED
      BY <1>1, <1>4, <2>1 DEF Complete
  <1>5. CASE UNCHANGED <<rb, idx, lines, summary, pc>>
    <2>1. Lines("ok")' = Lines("ok") /\ Lines("failed")' = Lines("failed")
      BY <1>5, LinesKept
    <2>2. This' = This
      BY <1>5 DEF This
    <2> QED
      BY <1>5, <2>1, <2>2 DEF SummaryAccounts
  <1>6. CASE Run
    <2>1. CASE Send \/ Refuse \/ DoSucceeds \/ ReportNothing \/ ReportFailure \/ EchoBody \/ Drain
      BY <2>1 DEF Send, Refuse, DoSucceeds, ReportNothing, ReportFailure, EchoBody, Drain,
         Settle
    <2>2. ASSUME NEW e \in CallErrors \ {"none"}, DoFails(e) PROVE FALSE
      BY <2>2 DEF DoFails
    <2>3. CASE ReadBody \/ ReadBreaks \/ ExtractFails \/ ReportSuccess
      BY <2>3 DEF ReadBody, ReadBreaks, ExtractFails, ReportSuccess, FailCapture, Settle
    <2>4. ASSUME NEW v \in Values, Extract(v) PROVE FALSE
      BY <2>4 DEF Extract, Extracting
    <2>5. CASE CountSuccess \/ Tolerate
      BY <2>5 DEF CountSuccess, Tolerate, NextCall
    <2> QED
      BY <1>2, <1>3, <1>4, <1>6, <2>1, <2>2, <2>3, <2>4, <2>5 DEF Run
  <1> QED
    BY <1>5, <1>6 DEF Next, EndContext, Finished, vars

(* The summary accounts for every call of the runbook, whatever it was that    *)
(* ended the run.                                                             *)
THEOREM SummaryCorrect == Spec => []SummaryAccounts
  <1>1. Init => SummaryAccounts
    BY DEF Init, SummaryAccounts
  <1> QED
    BY <1>1, CountedInit, CountedNext, SummaryNext, Invariant, PTL DEF Spec

-----------------------------------------------------------------------------
(* The path that is sent *)

(* A set of natural numbers that is not empty has a least element. *)
LEMMA LeastExists ==
  ASSUME NEW S, S \subseteq Nat, S # {}
  PROVE  \E m \in S : \A j \in S : m <= j
  <1> DEFINE Less == {ss \in Nat \X Nat : ss[1] < ss[2]}
  <1>1. IsWellFoundedOn(Less, Nat)
    BY NatLessThanWellFounded, Zenon DEF OpToRel
  <1>2. PICK x \in S : \A y \in S : ~ (<<y, x>> \in Less)
    <2> HIDE DEF Less
    <2> QED
      BY <1>1, WFMin, Zenon
  <1>3. \A y \in S : x <= y
    <2> SUFFICES ASSUME NEW y \in S PROVE x <= y
      OBVIOUS
    <2>1. x \in Nat /\ y \in Nat
      OBVIOUS
    <2>2. y < x => <<y, x>> \in Less
      BY <2>1
    <2> QED
      BY <1>2, <2>1, <2>2
  <1> QED
    BY <1>3

(* Induction over the natural numbers, of a property given as a set. *)
LEMMA Induction ==
  ASSUME NEW P, 0 \in P, \A n \in Nat : n \in P => n + 1 \in P
  PROVE  Nat \subseteq P
  <1> SUFFICES ASSUME Nat \ P # {} PROVE FALSE
    OBVIOUS
  <1>1. PICK m \in Nat \ P : \A j \in Nat \ P : m <= j
    BY LeastExists
  <1>2. m # 0 /\ m - 1 \in Nat
    BY <1>1
  <1>3. m - 1 \in P
    BY <1>1, <1>2
  <1>4. (m - 1) + 1 = m
    BY <1>1
  <1> QED
    BY <1>1, <1>2, <1>3, <1>4

(* FlattenSeq is defined by recursion over the prefixes of a sequence: there   *)
(* is a function that satisfies its equation.                                 *)
LEMMA FlattenExists ==
  ASSUME NEW s, NEW n \in Nat
  PROVE  \E f : f = [i \in 1 .. n |-> IF i = 1 THEN s[i] ELSE f[i - 1] \o s[i]]
  <1> DEFINE P == {m \in Nat : \E f : f = [i \in 1 .. m |->
                                  IF i = 1 THEN s[i] ELSE f[i - 1] \o s[i]]}
  <1>1. 0 \in P
    <2> DEFINE f == [i \in 1 .. 0 |-> 0]
    <2>1. f = [i \in 1 .. 0 |-> IF i = 1 THEN s[i] ELSE f[i - 1] \o s[i]]
      OBVIOUS
    <2> QED
      BY <2>1
  <1>2. ASSUME NEW m \in Nat, m \in P PROVE m + 1 \in P
    <2>1. PICK f : f = [i \in 1 .. m |-> IF i = 1 THEN s[i] ELSE f[i - 1] \o s[i]]
      BY <1>2
    <2> DEFINE g == [i \in 1 .. m + 1 |->
                       IF i <= m THEN f[i] ELSE IF i = 1 THEN s[i] ELSE f[i - 1] \o s[i]]
               h == [i \in 1 .. m + 1 |-> IF i = 1 THEN s[i] ELSE g[i - 1] \o s[i]]
    <2>2. ASSUME NEW i \in 1 .. m + 1 PROVE g[i] = h[i]
      <3>1. CASE i <= m
        <4>1. g[i] = IF i = 1 THEN s[i] ELSE f[i - 1] \o s[i]
          <5>1. g[i] = f[i] /\ i \in 1 .. m
            BY <3>1
          <5>2. f[i] = IF i = 1 THEN s[i] ELSE f[i - 1] \o s[i]
            BY ONLY <2>1, <5>1, Zenon
          <5> QED
            BY <5>1, <5>2
        <4>2. i # 1 => g[i - 1] = f[i - 1]
          BY <3>1
        <4> QED
          BY <4>1, <4>2
      <3>2. CASE i = m + 1
        <4>1. g[i] = IF i = 1 THEN s[i] ELSE f[i - 1] \o s[i]
          BY <3>2
        <4>2. i # 1 => g[i - 1] = f[i - 1]
          BY <3>2
        <4> QED
          BY <4>1, <4>2
      <3> QED
        BY <3>1, <3>2
    <2>3. g = h
      BY <2>2
    <2> HIDE DEF g
    <2>4. \E e : e = [i \in 1 .. m + 1 |-> IF i = 1 THEN s[i] ELSE e[i - 1] \o s[i]]
      BY <2>3
    <2>5. m + 1 \in Nat
      OBVIOUS
    <2> QED
      BY <2>4, <2>5, Zenon
  <1> HIDE DEF P
  <1>3. n \in P
    BY <1>1, <1>2, Induction
  <1> QED
    BY <1>3 DEF P

(* FlattenSeq joins the sequences up one after the other. *)
LEMMA FlattenFacts ==
  ASSUME NEW S, NEW n \in Nat, n > 0, NEW s \in [1 .. n -> Seq(S)]
  PROVE  \E f \in [1 .. n -> Seq(S)] :
           /\ FlattenSeq(s) = f[n]
           /\ f[1] = s[1]
           /\ \A i \in 2 .. n : f[i] = f[i - 1] \o s[i]
  <1>1. Len(s) = n /\ s \in Seq(Seq(S))
    OBVIOUS
  <1> DEFINE F == CHOOSE f : f = [i \in 1 .. Len(s) |->
                                    IF i = 1 THEN s[i] ELSE f[i - 1] \o s[i]]
  <1>2. F = [i \in 1 .. n |-> IF i = 1 THEN s[i] ELSE F[i - 1] \o s[i]]
    BY <1>1, FlattenExists
  <1>3. FlattenSeq(s) = F[n]
    BY <1>1 DEF FlattenSeq
  <1> HIDE DEF F
  <1>4. \A i \in 1 .. n : F[i] \in Seq(S)
    <2> DEFINE P == {m \in Nat : m \in 1 .. n => F[m] \in Seq(S)}
    <2>1. 0 \in P
      OBVIOUS
    <2>2. ASSUME NEW m \in Nat, m \in P PROVE m + 1 \in P
      <3> SUFFICES ASSUME m + 1 \in 1 .. n PROVE F[m + 1] \in Seq(S)
        OBVIOUS
      <3>1. F[m + 1] = IF m + 1 = 1 THEN s[m + 1] ELSE F[(m + 1) - 1] \o s[m + 1]
        BY <1>2
      <3>2. s[m + 1] \in Seq(S)
        OBVIOUS
      <3>3. CASE m = 0
        BY <3>1, <3>2, <3>3
      <3>4. CASE m # 0
        <4>1. F[m] \in Seq(S) /\ (m + 1) - 1 = m /\ m + 1 # 1
          BY <2>2, <3>4
        <4>2. F[m + 1] = F[m] \o s[m + 1]
          BY <3>1, <4>1, Zenon
        <4>3. F[m] \o s[m + 1] \in Seq(S)
          BY <3>2, <4>1
        <4> QED
          BY ONLY <4>2, <4>3, Zenon
      <3> QED
        BY <3>3, <3>4
    <2> HIDE DEF P
    <2>3. Nat \subseteq P
      BY <2>1, <2>2, Induction
    <2> QED
      BY <2>3 DEF P
  <1>5. F \in [1 .. n -> Seq(S)]
    BY <1>2, <1>4
  <1>6. F[1] = s[1] /\ \A i \in 2 .. n : F[i] = F[i - 1] \o s[i]
    <2>1. 1 \in 1 .. n /\ \A i \in 2 .. n : i \in 1 .. n /\ i # 1
      OBVIOUS
    <2> QED
      BY <1>2, <2>1, Zenon
  <1> QED
    BY <1>3, <1>5, <1>6

(* A joined sequence has what its parts have. *)
LEMMA CountOfConcat ==
  ASSUME NEW S, NEW p \in Seq(S), NEW q \in Seq(S), NEW c
  PROVE  /\ Count(p, c) \in Nat
         /\ Count(p \o q, c) = Count(p, c) + Count(q, c)
  <1> DEFINE In(r) == {i \in DOMAIN r : r[i] = c}
             Moved == {i \in Len(p) + 1 .. Len(p) + Len(q) : (p \o q)[i] = c}
             Move == [i \in In(q) |-> Len(p) + i]
  <1>1. /\ Len(p) \in Nat /\ Len(q) \in Nat
        /\ DOMAIN p = 1 .. Len(p) /\ DOMAIN q = 1 .. Len(q)
        /\ DOMAIN (p \o q) = 1 .. Len(p) + Len(q)
        /\ \A i \in 1 .. Len(p) : (p \o q)[i] = p[i]
        /\ \A i \in Len(p) + 1 .. Len(p) + Len(q) : (p \o q)[i] = q[i - Len(p)]
    OBVIOUS
  <1>2. IsFiniteSet(In(p)) /\ IsFiniteSet(In(q))
    <2>1. IsFiniteSet(1 .. Len(p)) /\ IsFiniteSet(1 .. Len(q))
      BY <1>1, FS_Interval
    <2>2. In(p) \in SUBSET (1 .. Len(p)) /\ In(q) \in SUBSET (1 .. Len(q))
      BY <1>1
    <2> QED
      BY <2>1, <2>2, FS_Subset
  <1>3. Move \in Bijection(In(q), Moved)
    <2>1. \A i \in In(q) : Len(p) + i \in Moved
      <3> SUFFICES ASSUME NEW i \in In(q) PROVE Len(p) + i \in Moved
        OBVIOUS
      <3>1. i \in 1 .. Len(q) /\ q[i] = c
        BY <1>1
      <3>2. Len(p) + i \in Len(p) + 1 .. Len(p) + Len(q) /\ (Len(p) + i) - Len(p) = i
        BY <1>1, <3>1
      <3>3. (p \o q)[Len(p) + i] = q[i]
        BY <1>1, <3>2, Zenon
      <3> QED
        BY <3>1, <3>2, <3>3
    <2>2. \A i, j \in In(q) : Len(p) + i = Len(p) + j => i = j
      BY <1>1
    <2>3. ASSUME NEW k \in Moved PROVE \E i \in In(q) : Len(p) + i = k
      <3>1. k - Len(p) \in 1 .. Len(q) /\ Len(p) + (k - Len(p)) = k
        BY <1>1
      <3>2. q[k - Len(p)] = c
        BY <1>1, <2>3
      <3>3. k - Len(p) \in In(q)
        BY <1>1, <3>1, <3>2
      <3> QED
        BY <3>1, <3>3
    <2> HIDE DEF In, Moved
    <2> QED
      BY <2>1, <2>2, <2>3 DEF Bijection, Injection, Surjection, IsInjective
  <1>4. IsFiniteSet(Moved) /\ Cardinality(Moved) = Cardinality(In(q))
    BY <1>2, <1>3, FS_Bijection DEF ExistsBijection
  <1>5. In(p \o q) = In(p) \cup Moved /\ In(p) \cap Moved = {}
    BY <1>1
  <1> HIDE DEF In, Moved
  <1>6. /\ Cardinality(In(p)) \in Nat /\ Cardinality(In(q)) \in Nat
        /\ Cardinality(In(p \o q)) = Cardinality(In(p)) + Cardinality(In(q))
    <2>1. Cardinality(In(p)) \in Nat /\ Cardinality(In(q)) \in Nat
      BY <1>2, FS_CardinalityType
    <2>2. Cardinality(In(p \o q)) = Cardinality(In(p)) + Cardinality(Moved) - Cardinality({})
      BY <1>2, <1>4, <1>5, FS_Union
    <2> QED
      BY <1>4, <2>1, <2>2, FS_EmptySet
  <1> QED
    BY <1>6 DEF In, Count

(* A piece renders an unsafe character only as the one it is, when what its    *)
(* reference stands for is safe.                                               *)
LEMMA RenderedCount ==
  ASSUME NEW piece \in Piece, NEW st, NEW c \in Unsafe,
         piece.kind = "ref" => /\ Lookup(st, piece.is) \in Value
                               /\ Safe(Lookup(st, piece.is))
  PROVE  /\ Rendered(piece, st) \in Value
         /\ Count(Rendered(piece, st), c) = IF piece = Char(c) THEN 1 ELSE 0
  <1>1. CASE piece.kind = "ref"
    <2> DEFINE v == Lookup(st, piece.is)
    <2>1. Rendered(piece, st) = v /\ v \in Value /\ Safe(v) /\ piece # Char(c)
      BY <1>1 DEF Rendered, Char
    <2>2. {i \in DOMAIN v : v[i] = c} = {}
      BY <2>1 DEF Safe
    <2> HIDE DEF v
    <2> QED
      BY <2>1, <2>2, FS_EmptySet DEF Count
  <1>2. CASE piece.kind # "ref"
    <2>1. piece.is \in Chars /\ Rendered(piece, st) = <<piece.is>>
      BY <1>2 DEF Piece, Escape, Open, Chars, Rendered
    <2>2. piece = Char(c) <=> piece.is = c
      BY <1>2 DEF Piece, Escape, Open, Char, Unsafe
    <2> DEFINE v == <<piece.is>>
               In == {i \in DOMAIN v : v[i] = c}
    <2>3. v \in Value
      BY <2>1 DEF Value
    <2>4. CASE piece.is = c
      <3>1. In = {1}
        BY <2>4
      <3>2. Cardinality(In) = 1
        BY <3>1, FS_Singleton
      <3>3. Count(v, c) = 1
        BY <3>2 DEF Count
      <3> QED
        BY <2>1, <2>2, <2>3, <2>4, <3>3
    <2>5. CASE piece.is # c
      <3>1. In = {}
        BY <2>5
      <3> QED
        BY <2>1, <2>2, <2>3, <2>5, <3>1, FS_EmptySet DEF Count
    <2> QED
      BY <2>4, <2>5
  <1> QED
    BY <1>1, <1>2

(* Substituting safe values adds no unsafe character to a text and takes none  *)
(* away, whatever the values are and however many references there are.       *)
LEMMA FillCounts ==
  ASSUME NEW t \in Text, NEW st, NEW c \in Unsafe,
         \A n \in References(t) : Lookup(st, n) \in Value /\ Safe(Lookup(st, n))
  PROVE  Count(Fill(t, st), c) = Count(t, Char(c))
  <1>1. Len(t) \in Nat /\ DOMAIN t = 1 .. Len(t) /\ \A i \in 1 .. Len(t) : t[i] \in Piece
    BY DEF Text
  <1>2. CASE t = <<>>
    <2>1. Fill(t, st) = <<>>
      BY <1>2 DEF Fill
    <2>2. /\ {i \in DOMAIN t : t[i] = Char(c)} = {}
          /\ {i \in DOMAIN Fill(t, st) : Fill(t, st)[i] = c} = {}
      BY <1>2, <2>1
    <2> QED
      BY <2>2 DEF Count
  <1>3. CASE t # <<>>
    <2> DEFINE n == Len(t)
               s == [i \in 1 .. n |-> Rendered(t[i], st)]
               W(m) == {j \in 1 .. m : t[j] = Char(c)}
    <2>1. n \in Nat /\ n > 0
      BY <1>1, <1>3 DEF Text
    <2>2. \A i \in 1 .. n : /\ s[i] \in Seq(Chars)
                            /\ Count(s[i], c) = IF t[i] = Char(c) THEN 1 ELSE 0
      <3> SUFFICES ASSUME NEW i \in 1 .. n
                   PROVE  /\ s[i] \in Seq(Chars)
                          /\ Count(s[i], c) = IF t[i] = Char(c) THEN 1 ELSE 0
        OBVIOUS
      <3>1. t[i] \in Piece /\ s[i] = Rendered(t[i], st)
        BY <1>1
      <3>2. t[i].kind = "ref" => t[i].is \in References(t)
        BY <1>1 DEF References
      <3> HIDE DEF s
      <3> QED
        BY <3>1, <3>2, RenderedCount DEF Value
    <2>3. s \in [1 .. n -> Seq(Chars)]
      <3>1. \A i \in 1 .. n : Rendered(t[i], st) \in Seq(Chars)
        BY <2>2
      <3> QED
        BY <3>1
    <2>4. Fill(t, st) = FlattenSeq(s)
      BY <1>1, <1>3 DEF Fill
    <2> HIDE DEF s
    <2>5. PICK f \in [1 .. n -> Seq(Chars)] :
            /\ FlattenSeq(s) = f[n]
            /\ f[1] = s[1]
            /\ \A i \in 2 .. n : f[i] = f[i - 1] \o s[i]
      <3>1. \A k \in Nat : k > 0 => \A q \in [1 .. k -> Seq(Chars)] :
              \E f \in [1 .. k -> Seq(Chars)] :
                /\ FlattenSeq(q) = f[k]
                /\ f[1] = q[1]
                /\ \A i \in 2 .. k : f[i] = f[i - 1] \o q[i]
        BY FlattenFacts, Zenon
      <3> HIDE DEF n
      <3> QED
        BY <2>1, <2>3, <3>1, Zenon
    <2>6. \A m \in Nat : IsFiniteSet(W(m)) /\ Cardinality(W(m)) \in Nat
      <3> SUFFICES ASSUME NEW m \in Nat PROVE IsFiniteSet(W(m)) /\ Cardinality(W(m)) \in Nat
        OBVIOUS
      <3>1. W(m) \in SUBSET (1 .. m) /\ IsFiniteSet(1 .. m)
        BY FS_Interval
      <3> HIDE DEF W
      <3> QED
        BY <3>1, FS_Subset, FS_CardinalityType
    <2>7. \A m \in Nat : Cardinality(W(m + 1)) =
                           Cardinality(W(m)) + (IF t[m + 1] = Char(c) THEN 1 ELSE 0)
      <3> SUFFICES ASSUME NEW m \in Nat
                   PROVE  Cardinality(W(m + 1)) =
                            Cardinality(W(m)) + (IF t[m + 1] = Char(c) THEN 1 ELSE 0)
        OBVIOUS
      <3>1. CASE t[m + 1] = Char(c)
        <4>1. W(m + 1) = W(m) \cup {m + 1} /\ m + 1 \notin W(m)
          BY <3>1
        <4> HIDE DEF W
        <4> QED
          BY <2>6, <3>1, <4>1, FS_AddElement
      <3>2. CASE t[m + 1] # Char(c)
        <4>1. W(m + 1) = W(m)
          BY <3>2
        <4> HIDE DEF W
        <4> QED
          BY <2>6, <3>2, <4>1
      <3> QED
        BY <3>1, <3>2
    <2>8. Cardinality(W(0)) = 0
      <3>1. W(0) = {}
        OBVIOUS
      <3> HIDE DEF W
      <3> QED
        BY <3>1, FS_EmptySet
    <2> DEFINE P == {m \in Nat : m \in 1 .. n => Count(f[m], c) = Cardinality(W(m))}
    <2>9. 0 \in P
      OBVIOUS
    <2>10. ASSUME NEW m \in Nat, m \in P PROVE m + 1 \in P
      <3> SUFFICES ASSUME m + 1 \in 1 .. n PROVE Count(f[m + 1], c) = Cardinality(W(m + 1))
        OBVIOUS
      <3> HIDE DEF W, n
      <3>1. Count(s[m + 1], c) = IF t[m + 1] = Char(c) THEN 1 ELSE 0
        BY <2>2
      <3>2. CASE m = 0
        <4>1. f[m + 1] = s[m + 1]
          BY <2>5, <3>2
        <4> QED
          BY <2>7, <2>8, <3>1, <3>2, <4>1
      <3>3. CASE m # 0
        <4>1. m \in 1 .. n /\ m + 1 \in 2 .. n /\ (m + 1) - 1 = m
          BY <2>1, <3>3
        <4>2. f[m + 1] = f[m] \o s[m + 1]
          BY <2>5, <4>1, Zenon
        <4>3. Count(f[m], c) = Cardinality(W(m))
          BY <2>10, <4>1
        <4>4. f[m] \in Seq(Chars) /\ s[m + 1] \in Seq(Chars)
          BY <2>2, <2>5, <4>1
        <4>5. Count(f[m] \o s[m + 1], c) = Count(f[m], c) + Count(s[m + 1], c)
          BY <4>4, CountOfConcat
        <4> QED
          BY <2>7, <3>1, <4>2, <4>3, <4>5
      <3> QED
        BY <3>2, <3>3
    <2> HIDE DEF P
    <2>11. Nat \subseteq P
      BY <2>9, <2>10, Induction
    <2>12. n \in P /\ n \in 1 .. n
      BY <2>1, <2>11
    <2>13. Count(f[n], c) = Cardinality(W(n))
      <3> HIDE DEF n, W
      <3> QED
        BY <2>12 DEF P
    <2>14. Count(t, Char(c)) = Cardinality(W(n))
      BY <1>1 DEF Count
    <2> QED
      <3> HIDE DEF n, W
      <3> QED
        BY <2>4, <2>5, <2>13, <2>14
  <1> QED
    BY <1>2, <1>3

(* A path that is filled in keeps the shape of its template. *)
LEMMA SendKeepsShape ==
  ASSUME rb \in Seq(Plan), idx \in Nat \ {0}, StoreTyped, Send
  PROVE  SentPathKeepsItsShape'
  <1>1. This.path \in Text
    <2>1. idx \in 1 .. Len(rb)
      BY DEF Send
    <2>2. rb[idx] \in Plan
      BY <2>1
    <2> QED
      BY <2>2 DEF This, Plan
  <1>2. ASSUME NEW n \in References(This.path)
        PROVE  Lookup(store, n) \in Value /\ Safe(Lookup(store, n))
    <2>1. <<>> \in Value
      BY DEF Value
    <2> QED
      BY <2>1 DEF Lookup, StoreTyped, Send, PathFills
  <1>3. \A c \in Unsafe : Count(Fill(This.path, store), c) = Count(This.path, Char(c))
    BY <1>1, <1>2, FillCounts
  <1>4. path' = Fill(This.path, store) /\ This' = This
    BY DEF Send, This
  <1>5. References(This.path) = {} \/ ~HasDotSegment(Fill(This.path, store))
    BY DEF Send, PathFills
  <1> QED
    BY <1>3, <1>4, <1>5, Zenon DEF SentPathKeepsItsShape, Count, HasDotSegment, DotSegment

(* Only Send makes a path, only Extract stores. *)
LEMMA PathNext ==
  Inv /\ StoreTyped /\ SentPathKeepsItsShape /\ [Next]_vars
    => StoreTyped' /\ SentPathKeepsItsShape'
  <1> SUFFICES ASSUME Inv, StoreTyped, SentPathKeepsItsShape, [Next]_vars
               PROVE  StoreTyped' /\ SentPathKeepsItsShape'
    OBVIOUS
  <1>1. ASSUME UNCHANGED <<rb, idx, path, store>> PROVE StoreTyped' /\ SentPathKeepsItsShape'
    <2>1. This' = This
      BY <1>1 DEF This
    <2> QED
      BY <1>1, <2>1, Zenon DEF StoreTyped, SentPathKeepsItsShape, Count, HasDotSegment,
                               DotSegment
  <1>2. CASE Send
    <2>1. rb \in Seq(Plan) /\ idx \in Nat \ {0}
      BY DEF Inv, Shape
    <2>2. StoreTyped'
      BY <1>2 DEF Send, StoreTyped
    <2> QED
      BY <1>2, <2>1, <2>2, SendKeepsShape
  <1>3. CASE NextCall
    BY <1>3 DEF NextCall, StoreTyped, SentPathKeepsItsShape
  <1>4. ASSUME NEW v \in Values, Extract(v) PROVE StoreTyped' /\ SentPathKeepsItsShape'
    <2>1. v \in Value
      BY ValuesAssumption
    <2>2. StoreTyped'
      BY <1>4, <2>1 DEF Extract, StoreTyped
    <2>3. path' = path /\ This' = This
      BY <1>4 DEF Extract, This
    <2>4. SentPathKeepsItsShape'
      BY <2>3, Zenon DEF SentPathKeepsItsShape, Count, HasDotSegment, DotSegment
    <2> QED
      BY <2>2, <2>4
  <1>5. ASSUME NEW e \in CallErrors \ {"none"}, DoFails(e)
        PROVE  StoreTyped' /\ SentPathKeepsItsShape'
    BY <1>1, <1>5 DEF DoFails
  <1>6. CASE Run
    <2>1. CASE Refuse \/ DoSucceeds \/ ReportNothing \/ ReportFailure \/ EchoBody \/ Drain
      BY <1>1, <2>1 DEF Refuse, DoSucceeds, ReportNothing, ReportFailure, EchoBody, Drain,
                        request
    <2>2. CASE ReadBody \/ ReadBreaks \/ ExtractFails \/ ReportSuccess
      BY <1>1, <2>2 DEF ReadBody, ReadBreaks, ExtractFails, ReportSuccess, request
    <2>3. CASE Interrupt \/ Halt \/ Complete
      BY <1>1, <2>3 DEF Interrupt, Halt, Complete, Conclude, request
    <2>4. CASE CountSuccess \/ Tolerate
      BY <1>3, <2>4 DEF CountSuccess, Tolerate
    <2> QED
      BY <1>2, <1>4, <1>5, <1>6, <2>1, <2>2, <2>3, <2>4 DEF Run
  <1>7. CASE \E cause \in {"canceled", "deadline"} : EndContext(cause)
    BY <1>1, <1>7 DEF EndContext, request
  <1>8. CASE Finished \/ UNCHANGED vars
    BY <1>1, <1>8 DEF Finished, vars
  <1> QED
    BY <1>6, <1>7, <1>8 DEF Next

(* A captured value never changes which endpoint a call asks for: the path     *)
(* that is sent has as many separators of each kind as its template, and no   *)
(* dot segment, for all values, however they join up.                         *)
THEOREM PathCorrect == Spec => []SentPathKeepsItsShape
  <1>1. Init => StoreTyped /\ SentPathKeepsItsShape
    BY DEF Init, StoreTyped, SentPathKeepsItsShape
  <1> QED
    BY <1>1, PathNext, Invariant, PTL DEF Spec

-----------------------------------------------------------------------------
(* How a run ends *)

(* Nothing is ended before Run returns, and the summary is written as it does. *)
LEMMA EndedNext == Inv /\ HowItEnded /\ [Next]_vars => HowItEnded'
  <1> SUFFICES ASSUME Inv, HowItEnded, [Next]_vars PROVE HowItEnded'
    OBVIOUS
  <1> USE DEF HowItEnded, Ended, Settle
  <1>1. CASE Send \/ Refuse \/ DoSucceeds
    BY <1>1 DEF Send, Refuse, DoSucceeds
  <1>2. ASSUME NEW e \in CallErrors \ {"none"}, DoFails(e) PROVE HowItEnded'
    BY <1>2 DEF DoFails
  <1>3. CASE ReportNothing \/ ReportFailure \/ EchoBody \/ Drain
    BY <1>3 DEF ReportNothing, ReportFailure, EchoBody, Drain
  <1>4. CASE ReadBody \/ ReadBreaks \/ ExtractFails \/ ReportSuccess
    BY <1>4 DEF ReadBody, ReadBreaks, ExtractFails, Extracting, ReportSuccess, FailCapture
  <1>5. ASSUME NEW v \in Values, Extract(v) PROVE HowItEnded'
    BY <1>5 DEF Extract, Extracting
  <1>6. CASE CountSuccess \/ Tolerate
    BY <1>6 DEF CountSuccess, Tolerate, NextCall
  <1>7. CASE Interrupt
    <2>1. ctx \in {"canceled", "deadline"} /\ err \in {"timeout", "ctx"}
      BY <1>7 DEF Interrupt, Interrupted, IsContextErr, Inv, Shape
    <2>2. summary'.how = IF ctx = "deadline" THEN "timed_out" ELSE "interrupted"
      BY <1>7 DEF Interrupt, Conclude
    <2> QED
      BY <1>7, <2>1, <2>2 DEF Interrupt, Conclude
  <1>8. CASE Halt
    <2>1. err \in {"failure", "timeout"}
      BY <1>8 DEF Halt, Interrupted, IsContextErr, Inv, Shape, CallErrors
    <2>2. summary'.how = "halted"
      BY <1>8 DEF Halt, Conclude
    <2> QED
      BY <1>8, <2>1, <2>2 DEF Halt, Conclude
  <1>9. CASE Complete
    <2>1. err = "none"
      BY <1>9 DEF Complete
    <2>2. summary'.how = "completed"
      BY <1>9 DEF Complete, Conclude
    <2> QED
      BY <1>9, <2>1, <2>2 DEF Complete, Conclude
  <1>10. ASSUME NEW cause \in {"canceled", "deadline"}, EndContext(cause) PROVE HowItEnded'
    BY <1>10 DEF EndContext
  <1>11. CASE Finished \/ UNCHANGED vars
    BY <1>11 DEF Finished, vars
  <1> QED
    BY <1>1, <1>2, <1>3, <1>4, <1>5, <1>6, <1>7, <1>8, <1>9, <1>10, <1>11 DEF Next, Run

-----------------------------------------------------------------------------
(* The contract *)

(* Filling in values gives a value. *)
LEMMA FillTyped ==
  ASSUME NEW t \in Text, NEW st, \A n \in References(t) : Lookup(st, n) \in Value
  PROVE  Fill(t, st) \in Value
  <1>1. CASE t = <<>>
    BY <1>1 DEF Fill, Value
  <1>2. CASE t # <<>>
    <2> DEFINE k == Len(t)
               s == [i \in 1 .. k |-> Rendered(t[i], st)]
    <2>1. k \in Nat /\ k > 0 /\ DOMAIN t = 1 .. k /\ \A i \in 1 .. k : t[i] \in Piece
      BY <1>2 DEF Text
    <2>2. \A i \in 1 .. k : Rendered(t[i], st) \in Seq(Chars)
      <3> SUFFICES ASSUME NEW i \in 1 .. k PROVE Rendered(t[i], st) \in Seq(Chars)
        OBVIOUS
      <3>1. CASE t[i].kind = "ref"
        BY <2>1, <3>1 DEF References, Rendered, Value
      <3>2. CASE t[i].kind # "ref"
        <4>1. t[i].is \in Chars
          BY <2>1, <3>2 DEF Piece, Escape, Open, Chars
        <4> QED
          BY <3>2, <4>1 DEF Rendered
      <3> QED
        BY <3>1, <3>2
    <2>3. s \in [1 .. k -> Seq(Chars)]
      BY <2>2
    <2>4. Fill(t, st) = FlattenSeq(s)
      BY <1>2, <2>1 DEF Fill
    <2> HIDE DEF s, k
    <2>5. PICK f \in [1 .. k -> Seq(Chars)] : FlattenSeq(s) = f[k]
      <3>1. \A m \in Nat : m > 0 => \A q \in [1 .. m -> Seq(Chars)] :
              \E f \in [1 .. m -> Seq(Chars)] :
                /\ FlattenSeq(q) = f[m]
                /\ f[1] = q[1]
                /\ \A i \in 2 .. m : f[i] = f[i - 1] \o q[i]
        BY FlattenFacts, Zenon
      <3> QED
        BY <2>1, <2>3, <3>1
    <2>6. k \in 1 .. k
      BY <2>1
    <2> QED
      BY <2>4, <2>5, <2>6 DEF Value
  <1> QED
    BY <1>1, <1>2

(* A request that is built has a path. *)
LEMMA SendHasPath ==
  ASSUME Inv, StoreTyped, Send
  PROVE  path' \in Value /\ path' # NoPath
  <1>1. idx \in 1 .. Len(rb) /\ rb \in Seq(Plan)
    BY DEF Send, Inv, Shape
  <1>2. This.path \in Text
    <2>1. rb[idx] \in Plan
      BY <1>1
    <2> QED
      BY <2>1 DEF This, Plan
  <1>3. <<>> \in Value
    BY DEF Value
  <1>4. ASSUME NEW n PROVE Lookup(store, n) \in Value
    BY <1>3 DEF Lookup, StoreTyped
  <1>5. path' \in Value
    BY <1>2, <1>4, FillTyped DEF Send
  <1> QED
    BY <1>5, NoPathAssumption

(* Begun is kept. *)
LEMMA BegunNext == Inv /\ StoreTyped /\ Begun /\ [Next]_vars => Begun'
  <1> SUFFICES ASSUME Inv, StoreTyped, Begun, [Next]_vars PROVE Begun'
    OBVIOUS
  <1> USE DEF Begun, Settle, request
  <1>1. CASE Send
    BY <1>1, SendHasPath DEF Send
  <1>2. CASE Refuse \/ DoSucceeds
    BY <1>2 DEF Refuse, DoSucceeds
  <1>3. ASSUME NEW e \in CallErrors \ {"none"}, DoFails(e) PROVE Begun'
    BY <1>3 DEF DoFails
  <1>4. CASE ReportNothing \/ ReportFailure \/ EchoBody \/ Drain
    BY <1>4 DEF ReportNothing, ReportFailure, EchoBody, Drain
  <1>5. CASE ReadBody \/ ReadBreaks \/ ExtractFails \/ ReportSuccess
    BY <1>5 DEF ReadBody, ReadBreaks, ExtractFails, ReportSuccess, FailCapture
  <1>6. ASSUME NEW v \in Values, Extract(v) PROVE Begun'
    BY <1>6 DEF Extract, Extracting
  <1>7. CASE CountSuccess \/ Tolerate
    BY <1>7 DEF CountSuccess, Tolerate, NextCall
  <1>8. CASE Interrupt \/ Halt \/ Complete
    BY <1>8 DEF Interrupt, Halt, Complete, Conclude
  <1>9. ASSUME NEW cause \in {"canceled", "deadline"}, EndContext(cause) PROVE Begun'
    BY <1>9 DEF EndContext
  <1>10. CASE Finished \/ UNCHANGED vars
    BY <1>10 DEF Finished, vars
  <1> QED
    BY <1>1, <1>2, <1>3, <1>4, <1>5, <1>6, <1>7, <1>8, <1>9, <1>10 DEF Next, Run

(* What the mapping makes of a state of Run. *)
LEMMA Mapped ==
  ASSUME Inv
  PROVE  /\ Allows \in Seq(BOOLEAN) /\ Len(Allows) = Len(rb)
         /\ \A i \in 1 .. Len(rb) : Allows[i] = rb[i].tolerate
         /\ Over \in Seq({"none", "ok", "failed"}) /\ Len(Over) = idx - 1
         /\ Len(rb) \in Nat /\ idx \in 1 .. Len(rb) + 1
  <1>1. Len(rb) \in Nat /\ DOMAIN rb = 1 .. Len(rb) /\ idx \in 1 .. Len(rb) + 1
    BY RunbookFacts DEF Inv, Shape
  <1>2. \A i \in 1 .. Len(rb) : rb[i].tolerate \in BOOLEAN
    <2>1. \A i \in 1 .. Len(rb) : rb[i] \in Plan
      BY DEF Inv, Shape
    <2> QED
      BY <2>1 DEF Plan
  <1>3. Allows \in Seq(BOOLEAN) /\ Len(Allows) = Len(rb)
    BY <1>1, <1>2 DEF Allows
  <1>4. \A i \in 1 .. Len(rb) : Allows[i] = rb[i].tolerate
    BY <1>1 DEF Allows
  <1>5. \A j \in 1 .. idx - 1 : lines[j] \in {"none", "ok", "failed"}
    BY <1>1 DEF Inv, Shape
  <1>6. Over \in Seq({"none", "ok", "failed"}) /\ Len(Over) = idx - 1
    BY <1>1, <1>5 DEF Over
  <1> QED
    BY <1>1, <1>3, <1>4, <1>6

(* A step within a call, one that does not write the lines of other calls,     *)
(* leaves what is over as it is.                                              *)
LEMMA MappedKept ==
  ASSUME UNCHANGED <<rb, idx>>, \A j \in 1 .. idx - 1 : lines'[j] = lines[j]
  PROVE  UNCHANGED <<Allows, Over>>
  BY DEF Allows, Over

(* Run begins as the contract says. *)
LEMMA ContractInit == Init => Contract!Init
  <1> SUFFICES ASSUME Init PROVE Contract!Init
    OBVIOUS
  <1>1. Allows \in Seq(BOOLEAN)
    BY InvInit, Mapped
  <1>2. Over = <<>>
    BY DEF Init, Over
  <1> QED
    BY <1>1, <1>2 DEF Init, Contract!Init, Sent, NoSummary

(* Within the call at hand nothing is over and nothing concluded; it may be    *)
(* cut short, once the context has ended.                                     *)
LEMMA WithinStep ==
  ASSUME Inv, Begun, HowItEnded, HowItEnded',
         UNCHANGED <<rb, ctx, idx, path, summary>>, pc # "returned",
         path # NoPath, err = "none" \/ err' = err,
         \A j \in 1 .. idx - 1 : lines'[j] = lines[j]
  PROVE  [Contract!Next]_Contract!vars
  <1>1. UNCHANGED <<Allows, Over>>
    BY MappedKept
  <1>2. CASE err' = "ctx" /\ err = "none"
    <2>1. Sent = "sent" /\ Sent' = "cut" /\ ctx # "live"
      BY <1>2 DEF Sent, HowItEnded, Ended
    <2>2. Contract!Running
      <3>1. idx \in 1 .. Len(rb)
        BY RunbookFacts DEF Inv, Shape, AtHand
      <3> QED
        BY <3>1, Mapped DEF Contract!Running, HowItEnded, NoSummary
    <2> QED
      BY <1>1, <2>1, <2>2 DEF Contract!Next, Contract!CutShort
  <1>3. CASE ~(err' = "ctx" /\ err = "none")
    <2>1. UNCHANGED Sent
      BY <1>3 DEF Sent
    <2> QED
      BY <1>1, <2>1 DEF Contract!vars
  <1> QED
    BY <1>2, <1>3

(* A call that is over goes to the end of those that are. *)
LEMMA GoesOn ==
  ASSUME Inv, idx \in 1 .. Len(rb), NextCall, NEW o, lines[idx] = o
  PROVE  Contract!GoOn(o)
  <1>1. Allows' = Allows
    BY DEF NextCall, Allows
  <1>2. Over' = Append(Over, o)
    <2>1. Len(Over) = idx - 1 /\ idx \in Nat /\ idx' = idx + 1 /\ lines' = lines
      BY Mapped DEF NextCall
    <2>2. Over' = [j \in 1 .. idx |-> lines[j]]
      BY <2>1 DEF Over
    <2>3. Append(Over, o) = [j \in 1 .. idx |-> IF j = idx THEN o ELSE lines[j]]
      BY <2>1, Mapped DEF Over
    <2> QED
      BY <2>2, <2>3
  <1>3. Sent' = "no"
    BY DEF Sent, NextCall
  <1> QED
    BY <1>1, <1>2, <1>3 DEF Contract!GoOn, NextCall

(* Every step of Run maps to a step of the contract or to a stutter. *)
LEMMA ContractNext ==
  Inv /\ StoreTyped /\ Begun /\ HowItEnded /\ [Next]_vars => [Contract!Next]_Contract!vars
  <1> SUFFICES ASSUME Inv, StoreTyped, Begun, HowItEnded, [Next]_vars
               PROVE  [Contract!Next]_Contract!vars
    OBVIOUS
  <1>1. HowItEnded'
    BY EndedNext
  <1>2. pc # "returned" => summary.how = "none"
    BY DEF HowItEnded, NoSummary
  <1>3. idx <= Len(rb) /\ pc # "returned" => Contract!Running
    BY <1>2, Mapped DEF Contract!Running
  <1>4. idx \in 1 .. Len(rb) => (Contract!MayFail <=> This.tolerate)
    <2>1. idx \in 1 .. Len(rb) => Len(Over) + 1 = idx
      BY Mapped
    <2> QED
      BY <2>1, Mapped DEF Contract!MayFail, This
  <1>5. pc \in {"do", "drain", "capture", "extract", "report", "echo", "settle"} =>
          idx \in 1 .. Len(rb)
    BY AtCall
  <1>6. CASE Send
    <2>1. path' # NoPath /\ path = NoPath /\ err = "none"
      BY <1>6, SendHasPath DEF Send, Inv, AtHand, Begun
    <2>2. UNCHANGED <<Allows, Over>>
      BY <1>6, MappedKept DEF Send
    <2>3. Sent = "no" /\ Sent' = IF ctx = "live" THEN "sent" ELSE "cut"
      BY <1>6, <2>1 DEF Send, Sent, Ended
    <2>4. Contract!Running
      BY <1>3, <1>6 DEF Send
    <2> QED
      BY <1>6, <2>2, <2>3, <2>4 DEF Send, Contract!Next, Contract!Send
  <1>7. CASE Refuse
    <2>1. path = NoPath /\ path' = NoPath /\ summary' = summary /\ ctx' = ctx
      BY <1>7 DEF Refuse, request, Inv, AtHand
    <2>2. idx \in 1 .. Len(rb)
      BY <1>7, Mapped DEF Refuse
    <2>3. UNCHANGED <<Allows, Over>>
      BY <1>7, <2>2, LineKept, MappedKept DEF Refuse
    <2>4. UNCHANGED Sent
      BY <2>1 DEF Sent
    <2> QED
      BY <2>1, <2>3, <2>4 DEF Contract!vars
  <1>8. CASE DoSucceeds \/ Drain \/ ReadBody \/ ReadBreaks \/ ExtractFails \/ ReportSuccess
             \/ ReportNothing \/ ReportFailure \/ EchoBody
    <2>1. pc \in {"do", "drain", "capture", "extract", "report", "echo"}
      BY <1>8 DEF DoSucceeds, Drain, ReadBody, ReadBreaks, ExtractFails, Extracting,
                  ReportSuccess, ReportNothing, ReportFailure, EchoBody
    <2>2. path # NoPath /\ pc # "returned"
      BY <2>1 DEF Begun
    <2>3. UNCHANGED <<rb, ctx, idx, path, summary>>
      BY <1>8 DEF DoSucceeds, Drain, ReadBody, ReadBreaks, ExtractFails, ReportSuccess,
                  ReportNothing, ReportFailure, EchoBody, request
    <2>4. err = "none" \/ err' = err
      BY <1>8 DEF DoSucceeds, Drain, ReadBody, ReadBreaks, ExtractFails, Extracting,
                  ReportSuccess, ReportNothing, ReportFailure, EchoBody, request, Begun
    <2>5. UNCHANGED lines \/ Line("ok") \/ Line("failed")
      BY <1>8 DEF DoSucceeds, Drain, ReadBody, ReadBreaks, ExtractFails, ReportSuccess,
                  ReportNothing, ReportFailure, EchoBody, FailCapture
    <2>6. \A j \in 1 .. idx - 1 : lines'[j] = lines[j]
      BY <1>5, <2>1, <2>5, LineKept
    <2> QED
      BY <1>1, <2>2, <2>3, <2>4, <2>6, WithinStep
  <1>9. ASSUME NEW e \in CallErrors \ {"none"}, DoFails(e)
        PROVE  [Contract!Next]_Contract!vars
    BY <1>1, <1>9, WithinStep DEF DoFails, Begun
  <1>10. ASSUME NEW v \in Values, Extract(v) PROVE [Contract!Next]_Contract!vars
    BY <1>1, <1>10, WithinStep DEF Extract, Extracting, Begun
  <1>11. CASE CountSuccess
    <2>1. lines[idx] = "ok" /\ Sent = "sent"
      BY <1>11 DEF CountSuccess, Inv, AtHand, Begun, Sent
    <2> QED
      BY <1>3, <1>5, <1>11, <2>1, GoesOn, Mapped
         DEF CountSuccess, Contract!Next, Contract!Succeed
  <1>12. ASSUME pc = "settle", err # "none", ~Interrupted
         PROVE  lines[idx] = "failed" /\ Sent # "cut"
    BY <1>12 DEF Interrupted, IsContextErr, HowItEnded, Inv, AtHand, Sent
  <1>13. CASE Tolerate
    <2>1. lines[idx] = "failed" /\ Sent # "cut"
      BY <1>12, <1>13 DEF Tolerate
    <2> QED
      BY <1>3, <1>4, <1>5, <1>13, <2>1, GoesOn, Mapped
         DEF Tolerate, Contract!Next, Contract!Tolerate
  <1>14. ASSUME NEW how, NEW k, Conclude(how, k) PROVE Contract!Finish(how)
    <2>1. UNCHANGED <<Allows, Over>>
      BY <1>14, MappedKept DEF Conclude
    <2>2. UNCHANGED Sent
      BY <1>14 DEF Conclude, request, Sent
    <2> QED
      BY <1>14, <2>1, <2>2 DEF Conclude, Contract!Finish
  <1>15. CASE Interrupt
    <2>1. Sent # "no" /\ ctx \in {"canceled", "deadline"}
      BY <1>15 DEF Interrupt, Interrupted, IsContextErr, Ended, Begun, Sent, Inv, Shape
    <2>2. Contract!Finish(IF ctx = "deadline" THEN "timed_out" ELSE "interrupted")
      BY <1>14, <1>15 DEF Interrupt
    <2> QED
      BY <1>3, <1>5, <1>15, <2>1, <2>2, Mapped
         DEF Interrupt, Contract!Next, Contract!Interrupt
  <1>16. CASE Halt
    <2>1. Sent # "cut" /\ Contract!Finish("halted")
      BY <1>12, <1>14, <1>16 DEF Halt
    <2> QED
      BY <1>3, <1>4, <1>5, <1>16, <2>1, Mapped DEF Halt, Contract!Next, Contract!Halt
  <1>17. CASE Complete
    <2>1. Len(Over) = Len(Allows)
      BY <1>17, Mapped DEF Complete
    <2>2. Contract!Finish("completed")
      BY <1>14, <1>17 DEF Complete
    <2> QED
      BY <1>2, <1>17, <2>1, <2>2 DEF Complete, Contract!Next, Contract!Complete
  <1>18. ASSUME NEW cause \in {"canceled", "deadline"}, EndContext(cause)
         PROVE  [Contract!Next]_Contract!vars
    <2>1. UNCHANGED <<Allows, Over>>
      BY <1>18, MappedKept DEF EndContext
    <2>2. UNCHANGED Sent
      BY <1>18 DEF EndContext, request, Sent
    <2> QED
      BY <1>18, <2>1, <2>2 DEF EndContext, Contract!Next, Contract!End
  <1>19. CASE Finished \/ UNCHANGED vars
    <2>1. UNCHANGED <<Allows, Over>>
      BY <1>19, MappedKept DEF Finished, vars
    <2> QED
      BY <1>19, <2>1 DEF Finished, vars, Contract!vars, Sent
  <1> QED
    BY <1>6, <1>7, <1>8, <1>9, <1>10, <1>11, <1>13, <1>15, <1>16, <1>17, <1>18, <1>19
       DEF Next, Run

(* Every run is one the documentation allows. *)
THEOREM Refinement == Spec => ImplementsRunContract
  <1>1. Init => StoreTyped /\ SentPathKeepsItsShape /\ Begun /\ HowItEnded
    BY DEF Init, StoreTyped, SentPathKeepsItsShape, Begun, HowItEnded
  <1>2. Spec => [](Inv /\ StoreTyped /\ SentPathKeepsItsShape /\ Begun /\ HowItEnded)
    BY <1>1, PathNext, BegunNext, EndedNext, Invariant, PTL DEF Spec
  <1> QED
    BY <1>2, ContractInit, ContractNext, PTL DEF Spec, ImplementsRunContract, Contract!Spec

(* What is over succeeded or was allowed to fail: no call runs after another   *)
(* failure, nor after an interrupt.                                           *)
THEOREM StopsCorrect == Spec => []Contract!StopsAtTheFirstFailure
  <1>1. Inv => Contract!StopsAtTheFirstFailure
    <2> SUFFICES ASSUME Inv, NEW j \in 1 .. Len(Over)
                 PROVE  Over[j] = "ok" \/ (Over[j] = "failed" /\ Allows[j])
      BY DEF Contract!StopsAtTheFirstFailure
    <2>1. j \in 1 .. idx - 1 /\ j \in 1 .. Len(rb) /\ Over[j] = lines[j]
      BY Mapped DEF Over
    <2> QED
      BY <2>1, Mapped DEF Inv, Passed
  <1> QED
    BY <1>1, Invariant, PTL

(* What is stored is stored under a name. *)
LEMMA ExtractStores ==
  ASSUME Inv, store \in Stored, NEW v \in Values, Extract(v)
  PROVE  store' \in Stored
  <1>1. PICK N \in SUBSET Names : store \in [N -> Values]
    BY DEF Stored
  <1>2. This.capture[next] \in Names
    <2>1. next \in 1 .. Len(This.capture) /\ idx \in 1 .. Len(rb)
      BY AtCall DEF Extract, Extracting, Inv, Shape
    <2> QED
      BY <2>1, RunbookFacts DEF Inv, Shape, This
  <1>3. store' \in [N \cup {This.capture[next]} -> Values]
    BY <1>1 DEF Extract
  <1> QED
    BY <1>2, <1>3 DEF Stored

(* The types of what the invariants say nothing of. *)
Typed ==
  /\ rb \in Runbooks
  /\ store \in Stored
  /\ read \in {"none", "whole", "unusable"}
  /\ summary \in Summaries

(* They are kept. *)
LEMMA TypedNext == Inv /\ Counted /\ Typed /\ [Next]_vars => Typed'
  <1> SUFFICES ASSUME Inv, Counted, Typed, [Next]_vars PROVE Typed'
    OBVIOUS
  <1> USE DEF Typed, request
  <1>1. CASE Send \/ Refuse \/ DoSucceeds
    BY <1>1 DEF Send, Refuse, DoSucceeds
  <1>2. ASSUME NEW e \in CallErrors \ {"none"}, DoFails(e) PROVE Typed'
    BY <1>2 DEF DoFails
  <1>3. CASE ReportNothing \/ ReportFailure \/ EchoBody \/ Drain
    BY <1>3 DEF ReportNothing, ReportFailure, EchoBody, Drain
  <1>4. CASE ReadBody \/ ReadBreaks \/ ExtractFails \/ ReportSuccess
    BY <1>4 DEF ReadBody, ReadBreaks, ExtractFails, ReportSuccess
  <1>5. ASSUME NEW v \in Values, Extract(v) PROVE Typed'
    BY <1>5, ExtractStores DEF Extract
  <1>6. CASE CountSuccess \/ Tolerate
    BY <1>6 DEF CountSuccess, Tolerate, NextCall
  <1>7. ASSUME NEW how \in {"completed", "halted", "interrupted", "timed_out"},
               NEW k \in Nat, Conclude(how, k)
        PROVE  Typed'
    BY <1>7 DEF Conclude, Counted, Summaries
  <1>8. CASE Interrupt \/ Halt
    <2>1. NotRun \in Nat
      BY <1>8, AtCall DEF Interrupt, Halt, NotRun
    <2> QED
      BY <1>7, <1>8, <2>1 DEF Interrupt, Halt
  <1>9. CASE Complete
    BY <1>7, <1>9 DEF Complete
  <1>10. ASSUME NEW cause \in {"canceled", "deadline"}, EndContext(cause) PROVE Typed'
    BY <1>10 DEF EndContext
  <1>11. CASE Finished \/ UNCHANGED vars
    BY <1>11 DEF Finished, vars
  <1> QED
    BY <1>1, <1>2, <1>3, <1>4, <1>5, <1>6, <1>8, <1>9, <1>10, <1>11 DEF Next, Run

(* Every variable of Run keeps its type. *)
THEOREM TypeCorrect == Spec => []TypeOK
  <1>1. Init => Typed
    <2> SUFFICES ASSUME Init PROVE Typed
      OBVIOUS
    <2>1. store \in [{} -> Values]
      BY DEF Init
    <2>2. summary \in Summaries
      BY DEF Init, NoSummary, Summaries
    <2> QED
      BY <2>1, <2>2 DEF Init, Typed, Stored
  <1>2. Init => StoreTyped /\ SentPathKeepsItsShape /\ Begun /\ HowItEnded
    BY DEF Init, StoreTyped, SentPathKeepsItsShape, Begun, HowItEnded
  <1>3. Inv /\ Counted /\ Typed /\ Begun => TypeOK
    BY DEF Inv, Shape, Counted, Typed, Begun, TypeOK
  <1> QED
    BY <1>1, <1>2, <1>3, CountedInit, CountedNext, TypedNext, PathNext, BegunNext, EndedNext,
       Invariant, PTL DEF Spec

-----------------------------------------------------------------------------
(* osapi run *)

(* The runner before it has begun, except that the context may have ended. *)
Fresh ==
  /\ rb = <<>> /\ pc = "call" /\ idx = 1 /\ store = [n \in {} |-> <<>>]
  /\ path = NoPath /\ body = "none" /\ read = "none" /\ next = 1 /\ err = "none"
  /\ succeeded = 0 /\ tolerated = 0 /\ lines = <<>> /\ summary = NoSummary

(* The loader is at work until the document is accepted, the runner after     *)
(* that, and never in a dry run.                                              *)
CommandInv ==
  /\ LP!Inv /\ LP!LoadedIsWhole
  /\ Inv /\ HowItEnded
  /\ dryRun \in BOOLEAN
  /\ step \in {"load", "settings", "run", "exited"}
  /\ step \in {"load", "settings"} => Fresh
  /\ step \in {"settings", "run"} => phase = "loaded"
  /\ step = "run" => ~dryRun
  /\ path # NoPath => phase = "loaded" /\ ~dryRun

(* Loading, the instance RunCommand is made of, is the loader of              *)
(* LoaderProofs: its definitions have the same bodies.                        *)
LEMMA LoadingInit == Loading!Init => LP!Init
  BY DEF Loading!Init, LP!Init

(* The two read the same layers and references, ... *)
LEMMA SameTexts ==
  /\ \A t : Loading!RefsResolve(t) <=> LP!RefsResolve(t)
  /\ \A c : Loading!LayeredQuery(c) = LP!LayeredQuery(c)
  /\ \A c : Loading!LayeredBody(c) = LP!LayeredBody(c)
  /\ \A c, k : Loading!HeaderOverridden(c, k) <=> LP!HeaderOverridden(c, k)
  /\ \A c : Loading!Captured(c) = LP!Captured(c)
  <1>1. \A t : Loading!RefsResolve(t) <=> LP!RefsResolve(t)
    BY DEF Loading!RefsResolve, LP!RefsResolve, Loading!Terminated, LP!Terminated,
           Loading!References, LP!References
  <1>2. \A c : Loading!LayeredQuery(c) = LP!LayeredQuery(c)
    BY DEF Loading!LayeredQuery, LP!LayeredQuery
  <1>3. \A c : Loading!LayeredBody(c) = LP!LayeredBody(c)
    BY DEF Loading!LayeredBody, LP!LayeredBody, Loading!Layer, LP!Layer
  <1>4. \A c, k : Loading!HeaderOverridden(c, k) <=> LP!HeaderOverridden(c, k)
    BY DEF Loading!HeaderOverridden, LP!HeaderOverridden, Loading!CanonicalKeys,
           LP!CanonicalKeys
  <1>5. \A c : Loading!Captured(c) = LP!Captured(c)
    BY DEF Loading!Captured, LP!Captured
  <1> QED
    BY <1>1, <1>2, <1>3, <1>4, <1>5

(* ... lay the same lists over each other, ... *)
LEMMA SameLists ==
  \A c : Loading!AbortOn(c) = LP!AbortOn(c) /\ Loading!RetryOn(c) = LP!RetryOn(c)
  BY DEF Loading!AbortOn, LP!AbortOn, Loading!RetryOn, LP!RetryOn, Loading!LayerList,
         LP!LayerList, Loading!Layer, LP!Layer, Loading!List, LP!List

(* ... make the same checks of a call, ... *)
LEMMA SamePasses == \A c, check : Loading!Passes(c, check) <=> LP!Passes(c, check)
  <1>1. \A c : Loading!QueryResolves(c) <=> LP!QueryResolves(c)
    BY SameTexts, Zenon DEF Loading!QueryResolves, LP!QueryResolves
  <1>2. \A c : Loading!HeadersResolve(c) <=> LP!HeadersResolve(c)
    BY SameTexts, Zenon DEF Loading!HeadersResolve, LP!HeadersResolve
  <1>3. \A c : Loading!BodyResolves(c) <=> LP!BodyResolves(c)
    BY SameTexts, Zenon DEF Loading!BodyResolves, LP!BodyResolves
  <1>4. \A c : Loading!DeclaresAfresh(c) <=> LP!DeclaresAfresh(c)
    BY SameTexts, Zenon DEF Loading!DeclaresAfresh, LP!DeclaresAfresh
  <1>5. \A c, d : Loading!BothLists(c, d) <=> LP!BothLists(c, d)
    BY DEF Loading!BothLists, LP!BothLists
  <1> QED
    BY <1>1, <1>2, <1>3, <1>4, <1>5, SameTexts, SameLists, Zenon
       DEF Loading!Passes, LP!Passes

(* ... accept it with the same result, ... *)
LEMMA SameAccept == Loading!AcceptCall => LP!AcceptCall
  <1> SUFFICES ASSUME Loading!AcceptCall PROVE LP!AcceptCall
    OBVIOUS
  <1>1. Loading!Current = LP!Current /\ Loading!Checks = LP!Checks
    BY DEF Loading!Current, LP!Current, Loading!Checks, LP!Checks
  <1>2. \A c : Loading!Tolerates(c) <=> LP!Tolerates(c)
    BY DEF Loading!Tolerates, LP!Tolerates, Loading!Layer, LP!Layer
  <1>3. \A c : Loading!Declare(c) => LP!Declare(c)
    BY SameTexts, <1>2, Zenon DEF Loading!Declare, LP!Declare
  <1>4. \A c : Loading!MergedHeaders(c) = LP!MergedHeaders(c)
    BY DEF Loading!MergedHeaders, LP!MergedHeaders, Loading!CanonicalKeys, LP!CanonicalKeys,
           Loading!Partial, LP!Partial
  <1> QED
    BY SamePasses, SameTexts, SameLists, <1>1, <1>2, <1>3, <1>4, Zenon
       DEF Loading!AcceptCall, LP!AcceptCall, Loading!InheritedAfter, LP!InheritedAfter

(* ... reject it for the same reason, ... *)
LEMMA SameReject == Loading!RejectCall => LP!RejectCall
  BY SamePasses DEF Loading!RejectCall, LP!RejectCall, Loading!Current, LP!Current,
     Loading!Checks, LP!Checks, Loading!Reject, LP!Reject

(* ... and take the same steps before and after the calls. *)
LEMMA SameOther ==
  Loading!Decode \/ Loading!LoadDefaults \/ Loading!CheckShape \/ Loading!CheckNames
    \/ Loading!Finish
  => LP!Next
  BY DEF Loading!Decode, LP!Decode, Loading!LoadDefaults, LP!LoadDefaults,
     Loading!CheckShape, LP!CheckShape, Loading!CheckNames, LP!CheckNames, Loading!Finish,
     LP!Finish, Loading!Reject, LP!Reject, Loading!Proceed, LP!Proceed, Loading!BothLists,
     LP!BothLists, Loading!List, LP!List, Loading!SameName, LP!SameName, LP!Next, LP!Load

(* So a step of Load is a step of the loader that LoaderProofs is about. *)
LEMMA LoadingStep == Loading!Load => LP!Next
  BY SameOther, SameReject, SameAccept DEF Loading!Load, LP!Next, LP!Load

(* What the loader of LoaderProofs assumes of its constants is what the         *)
(* document of RunCommand assumes of them.                                    *)
LEMMA LoaderAssumed ==
  /\ Texts \subseteq LP!Text /\ Documents \subseteq LP!Document
  /\ LP!Differs(CallNames) /\ LP!Differs(Texts)
  /\ LP!Differs(SUBSET Codes) /\ LP!Differs(BOOLEAN)
  /\ Canonical \in [Spellings -> Spellings]
  /\ \A s \in Spellings : Canonical[Canonical[s]] = Canonical[s]
  <1>1. Text = LP!Text
    BY DEF Text, LP!Text, Piece, LP!Piece, Chars, LP!Chars, Escape, LP!Escape, Open, LP!Open
  <1>2. Document = LP!Document
    BY DEF Document, LP!Document, Defaults, LP!Defaults, Shared, LP!Shared, CallSpec,
           LP!CallSpec, Optional, LP!Optional, Partial, LP!Partial
  <1> QED
    BY <1>1, <1>2, TextsAssumption, DocumentsAssumption, AbsentAssumption, CanonicalAssumption
       DEF Differs, LP!Differs

(* What is known of the loader stays so, whether it takes a step or another   *)
(* part of the command does.                                                  *)
LEMMA LoaderKeeps ==
  ASSUME LP!Inv, LP!LoadedIsWhole, Loading!Load \/ UNCHANGED loader
  PROVE  LP!Inv' /\ LP!LoadedIsWhole'
  <1>1. [LP!Next]_(LP!vars)
    BY LoadingStep DEF loader, LP!vars
  <1>2. LP!Inv'
    BY <1>1, LoaderAssumed, LP!InvNext
  <1>3. LP!TypeOK
    BY DEF LP!Inv
  <1> QED
    BY <1>1, <1>2, <1>3, LoaderAssumed, LP!WholeNext

(* A loaded runbook is what the runner asks for: its references are closed. *)
LEMMA LoaderPromises ==
  ASSUME LP!Inv
  PROVE  LET resolved == [i \in DOMAIN calls |-> Loading!Resolved(calls[i])]
         IN  resolved \in Seq(Plan) /\ Closed(resolved)
  <1>1. \A c : Loading!Resolved(c) = LP!Resolved(c)
    BY DEF Loading!Resolved, LP!Resolved, Loading!Sent, LP!Sent
  <1>2. Plan = LP!Plan
    BY DEF Text, LP!Text, Piece, LP!Piece, Chars, LP!Chars, Escape, LP!Escape, Open, LP!Open,
           Plan, LP!Plan
  <1>3. \A r : Closed(r) <=> LP!Closed(r)
    BY DEF Closed, LP!Closed, Needs, LP!Needs, Captured, LP!Captured, References, LP!References
  <1> DEFINE R == [i \in DOMAIN calls |-> Loading!Resolved(calls[i])]
             L == [i \in DOMAIN calls |-> LP!Resolved(calls[i])]
  <1>4. R = L
    BY <1>1
  <1>5. L \in Seq(LP!Plan)
    BY LoaderAssumed, LP!InvIsRunbook
  <1>6. LP!Closed(L)
    BY LoaderAssumed, LP!InvIsClosed DEF LP!LoadedIsClosed
  <1> HIDE DEF L
  <1> QED
    BY <1>2, <1>3, <1>4, <1>5, <1>6

(* The command starts in the invariant. *)
LEMMA CommandInvInit == CommandInit => CommandInv
  <1> SUFFICES ASSUME CommandInit PROVE CommandInv
    OBVIOUS
  <1> USE DEF CommandInit
  <1>1. LP!Inv
    BY LoadingInit, LoaderAssumed, LP!InvInit
  <1>2. LP!LoadedIsWhole
    BY DEF LP!LoadedIsWhole, Loading!Init
  <1>3. Shape
    BY DEF Shape, Points, CallErrors, Closed
  <1>4. Inv
    BY <1>3 DEF Inv, Passed, AtHand, BodiesAreClosed
  <1>5. HowItEnded
    BY DEF HowItEnded
  <1> QED
    BY <1>1, <1>2, <1>4, <1>5 DEF CommandInv, Fresh

(* A step of the command is one of the runner, or leaves the runner alone, or  *)
(* hands it the runbook that was loaded.                                      *)
LEMMA RunnerKeeps ==
  ASSUME Inv, HowItEnded, [Next]_vars
  PROVE  Inv' /\ HowItEnded'
  BY InvNext, EndedNext

(* The loaded runbook is as good as any that Load may accept. *)
LEMMA StartRunKeeps ==
  ASSUME CommandInv, StartRun
  PROVE  Inv' /\ HowItEnded'
  <1> USE DEF StartRun
  <1>1. rb' \in Seq(Plan) /\ Closed(rb)'
    BY LoaderPromises DEF CommandInv, Closed
  <1>2. DOMAIN calls = DOMAIN rb' /\ Len(rb') \in Nat /\ DOMAIN rb' = 1 .. Len(rb')
    BY <1>1
  <1>3. Shape'
    BY <1>1, <1>2 DEF CommandInv, Fresh, Inv, Shape, Points
  <1>4. Inv'
    BY <1>3 DEF CommandInv, Fresh, Inv, Passed, AtHand, BodiesAreClosed
  <1>5. HowItEnded'
    BY DEF CommandInv, Fresh, HowItEnded
  <1> QED
    BY <1>4, <1>5

(* Every step of the command keeps the invariant. *)
LEMMA CommandInvNext == CommandInv /\ [CommandNext]_commandVars => CommandInv'
  <1> SUFFICES ASSUME CommandInv, [CommandNext]_commandVars PROVE CommandInv'
    OBVIOUS
  <1> USE DEF commandVars
  <1>1. Loading!Load \/ UNCHANGED loader
    BY DEF CommandNext, Command, LoadStep, LoadFails, Loaded, SettingsFail, DryRun, StartRun,
           RunStep, Return, Signal, Deadline, Exited, Exit
  <1>2. LP!Inv' /\ LP!LoadedIsWhole'
    BY <1>1, LoaderKeeps DEF CommandInv
  <1>3. Inv' /\ HowItEnded'
    <2>1. CASE StartRun
      BY <2>1, StartRunKeeps
    <2>2. CASE ~StartRun
      <3>1. [Next]_vars
        BY <2>2 DEF CommandNext, Command, LoadStep, LoadFails, Loaded, SettingsFail, DryRun,
                    RunStep, Return, Signal, Deadline, Exited, Exit, Next
      <3> QED
        BY <3>1, RunnerKeeps DEF CommandInv
    <2> QED
      BY <2>1, <2>2
  <1>4. CASE LoadStep
    <2>1. phase # "loaded"
      BY <1>4 DEF LoadStep, Loading!Load, Loading!Decode, Loading!LoadDefaults,
                  Loading!CheckShape, Loading!CheckNames, Loading!RejectCall,
                  Loading!AcceptCall, Loading!Finish
    <2> QED
      BY <1>2, <1>3, <1>4, <2>1 DEF LoadStep, CommandInv, Fresh, vars
  <1>5. CASE LoadFails \/ SettingsFail \/ DryRun \/ Return
    BY <1>2, <1>3, <1>5 DEF LoadFails, SettingsFail, DryRun, Return, Exit, CommandInv, loader, vars
  <1>6. CASE Loaded
    BY <1>2, <1>3, <1>6 DEF Loaded, CommandInv, Fresh, loader, vars
  <1>7. CASE StartRun
    BY <1>2, <1>3, <1>7 DEF StartRun, CommandInv, Fresh, loader
  <1>8. CASE RunStep
    BY <1>2, <1>3, <1>8 DEF RunStep, CommandInv, loader
  <1>9. CASE Signal \/ Deadline
    BY <1>2, <1>3, <1>9 DEF Signal, Deadline, EndContext, CommandInv, Fresh, loader, request
  <1>10. CASE Exited \/ UNCHANGED commandVars
    BY <1>2, <1>3, <1>10 DEF Exited, CommandInv, Fresh, loader, vars
  <1> QED
    BY <1>4, <1>5, <1>6, <1>7, <1>8, <1>9, <1>10 DEF CommandNext, Command

(* osapi run: at every point the loader and the runner are in their           *)
(* invariants, and the runner has only what the loader accepted.              *)
THEOREM CommandInvariant == CommandSpec => []CommandInv
  BY CommandInvInit, CommandInvNext, PTL DEF CommandSpec

(* Whatever the document, a request is sent only when all of it was accepted, *)
(* never in a dry run, and with every reference set.                          *)
THEOREM OnlyLoadedCorrect == CommandSpec => []OnlyLoadedCallsAreSent
  <1>1. CommandInv => OnlyLoadedCallsAreSent
    BY InvIsReferenced DEF CommandInv, LP!LoadedIsWhole, OnlyLoadedCallsAreSent
  <1> QED
    BY <1>1, CommandInvariant, PTL

(* The exit code is fixed once, from the state the runner returned in. *)
LEMMA ExitCodeNext ==
  CommandInv /\ ExitCodeTellsHow /\ [CommandNext]_commandVars => ExitCodeTellsHow'
  <1> SUFFICES ASSUME CommandInv, ExitCodeTellsHow, [CommandNext]_commandVars, step' = "exited"
               PROVE  ExitCodeTellsHow'
    BY DEF ExitCodeTellsHow
  <1> USE DEF ExitCodeTellsHow, Exit, vars
  <1>1. CASE LoadFails \/ SettingsFail
    BY <1>1 DEF LoadFails, SettingsFail, CommandInv, Fresh, NoSummary
  <1>2. CASE DryRun
    BY <1>2 DEF DryRun, CommandInv, Fresh, NoSummary
  <1>3. CASE Return
    <2>1. pc = "returned" /\ ~dryRun
      BY <1>3 DEF Return, CommandInv
    <2>2. UNCHANGED <<summary, err, ctx, dryRun>> /\ exit' = ExitCode
          /\ said' = IF err = "none" THEN "nobody" ELSE "runner"
      BY <1>3 DEF Return
    <2> QED
      BY <2>1, <2>2 DEF CommandInv, HowItEnded, ExitCode, TimedOut
  <1>4. CASE UNCHANGED <<vars, dryRun, step, exit, said>>
    BY <1>4
  <1> QED
    BY <1>1, <1>2, <1>3, <1>4
       DEF CommandNext, Command, LoadStep, Loaded, StartRun, RunStep, Signal, Deadline, Exited,
           commandVars

(* The exit code and what was said agree with the summary, wherever a signal   *)
(* or the deadline caught the command.                                        *)
THEOREM RunExitCorrect == CommandSpec => []ExitCodeTellsHow
  <1>1. CommandInit => ExitCodeTellsHow
    BY DEF CommandInit, ExitCodeTellsHow
  <1> QED
    BY <1>1, ExitCodeNext, CommandInvariant, PTL DEF CommandSpec

(* The command loads as Load does. *)
LEMMA CommandLoads == CommandSpec => LP!Spec
  <1>1. CommandInit => LP!Init
    BY LoadingInit DEF CommandInit
  <1>2. [CommandNext]_commandVars => [LP!Next]_(LP!vars)
    <2> SUFFICES ASSUME [CommandNext]_commandVars PROVE [LP!Next]_(LP!vars)
      OBVIOUS
    <2>1. Loading!Load \/ UNCHANGED loader
      BY DEF CommandNext, Command, LoadStep, LoadFails, Loaded, SettingsFail, DryRun, StartRun,
             RunStep, Return, Signal, Deadline, Exited, Exit, commandVars
    <2> QED
      BY <2>1, LoadingStep DEF loader, LP!vars
  <1> QED
    BY <1>1, <1>2, PTL DEF CommandSpec, LP!Spec

(* Whatever document osapi run is given, the calls it has loaded are closed, a *)
(* refusal has its reason, and no call has a parameter of another one.        *)
THEOREM LoadCorrect ==
  CommandSpec => [](LoadedIsClosed /\ RejectedForAReason /\ ParametersDoNotLeak)
  <1>1. LP!LoadedIsClosed => LoadedIsClosed
    BY DEF LP!LoadedIsClosed, LoadedIsClosed, Loading!LoadedIsClosed, LP!Resolved,
           Loading!Resolved, LP!Sent, Loading!Sent, LP!Closed, Loading!Closed, LP!Needs,
           Loading!Needs, LP!Captured, Loading!Captured, LP!References, Loading!References
  <1>2. LP!RejectedForAReason => RejectedForAReason
    BY DEF LP!RejectedForAReason, RejectedForAReason, Loading!RejectedForAReason,
           LP!ReferencesAtFault, Loading!ReferencesAtFault, LP!ListsAtFault,
           Loading!ListsAtFault, LP!Current, Loading!Current, LP!Ships, Loading!Ships,
           LP!LayeredBody, Loading!LayeredBody, LP!Layer, Loading!Layer, LP!Terminated,
           Loading!Terminated, LP!References, Loading!References, LP!Captured, Loading!Captured
  <1>3. LP!ParametersDoNotLeak => ParametersDoNotLeak
    BY DEF LP!ParametersDoNotLeak, ParametersDoNotLeak, Loading!ParametersDoNotLeak
  <1>4. LP!Spec => [](LP!LoadedIsClosed /\ LP!RejectedForAReason /\ LP!ParametersDoNotLeak)
    BY LoaderAssumed, LP!ClosedCorrect, LP!RejectedCorrect, LP!LeakCorrect, PTL
  <1> QED
    BY <1>1, <1>2, <1>3, <1>4, CommandLoads, PTL
=============================================================================
