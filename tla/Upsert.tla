-------------------------------- MODULE Upsert --------------------------------
(***************************************************************************)
(* osapi ism set: the attempt of osclient.Upsert (a GET, then a            *)
(* conditional PUT), the unchanged hook of internal/cli/ism_policy.go and  *)
(* the retry loop around them, run by several invocations at once against  *)
(* one policy on a server that other tools write to as well.               *)
(*                                                                         *)
(* The server is external.  What is assumed of it is what the code relies  *)
(* on: every write takes the next _seq_no, a conditional PUT is checked    *)
(* against _seq_no and _primary_term, a plain PUT only creates             *)
(* (e2e/ism_test.go:133-149), and a failover starts a new primary term and *)
(* may lose the one write that nobody was told of, whose _seq_no is then   *)
(* used again although it may have been read.                              *)
(*                                                                         *)
(* The network may drop a request, drop an answer, and deliver a request   *)
(* long after its sender gave it up.                                       *)
(***************************************************************************)
EXTENDS Integers

CONSTANTS
  Writers,        \* invocations of osapi ism set for the same policy id
  Values,         \* normalised policies
  Want,           \* the policy of each invocation
  Forced,         \* the invocations with --force
  SuccessWhen,    \* the invocations with --success-when
  RetryWhen,      \* the invocations with --retry-when
  Defaulted,      \* policies the server stores with fields the file omits
  NoDoc,          \* the policy does not exist
  MaxAttempts,    \* 1 + --retry N
  MaxSeq, MaxTerm \* bounds: writes and failovers

ASSUME UpsertAssumption ==
  /\ Want \in [Writers -> Values]
  /\ Forced \cup SuccessWhen \cup RetryWhen \subseteq Writers /\ Defaulted \subseteq Values
  /\ MaxAttempts \in Nat \ {0} /\ MaxSeq \in Nat /\ MaxTerm \in Nat \ {0}

Version == [value : Values, seq : Nat, term : Nat]

ASSUME NoDocAssumption == NoDoc \notin Version

Doc == Version \cup {NoDoc}

Put == [writer : Writers, try : 1 .. MaxAttempts, saw : Doc]

VARIABLES
  doc,        \* the stored policy
  term,       \* the primary term
  nextSeq,    \* the _seq_no of the next write
  unacked,    \* the PUT applied but not yet answered, and what it replaced
  puts,       \* PUT requests on their way
  pc,         \* where each invocation is
  try,        \* the number of its attempt
  saw,        \* what its last GET returned
  held,       \* history: the policy it wants was stored at some moment
  conflicts,  \* history: the 409 answers it got
  changes     \* history: the number of changes of the stored policy

clients == <<pc, try, saw>>
server == <<doc, term, nextSeq, unacked>>
vars == <<server, puts, clients, held, conflicts, changes>>

None == [put |-> {}, old |-> NoDoc]

TypeOK ==
  /\ doc \in Doc
  /\ term \in 1 .. MaxTerm
  /\ nextSeq \in 0 .. MaxSeq + 1
  /\ unacked \in [put : SUBSET puts, old : Doc]
  /\ puts \subseteq Put
  /\ pc \in [Writers -> {"get", "got", "wait", "conflict", "error", "ok", "failed"}]
  /\ try \in [Writers -> 1 .. MaxAttempts]
  /\ saw \in [Writers -> Doc]
  /\ held \in [Writers -> BOOLEAN]
  /\ conflicts \in [Writers -> Nat]
  /\ changes \in Nat

IsStored(v, d) == d # NoDoc /\ d.value = v

Init ==
  /\ doc \in {NoDoc} \cup [value : Values, seq : {0}, term : {1}]
  /\ term = 1 /\ nextSeq = 1 /\ unacked = None /\ puts = {}
  /\ pc = [w \in Writers |-> "get"]
  /\ try = [w \in Writers |-> 1]
  /\ saw = [w \in Writers |-> NoDoc]
  /\ held = [w \in Writers |-> IsStored(Want[w], doc)]
  /\ conflicts = [w \in Writers |-> 0]
  /\ changes = 0

Go(w, point) == pc' = [pc EXCEPT ![w] = point]

-----------------------------------------------------------------------------
(* One attempt of an invocation *)

(* What the engine may make of the response that ends an attempt: a predicate  *)
(* of --success-when can take any for a success and any for a failure, one of  *)
(* --retry-when a 2xx for a failure (Outcome has the whole table).            *)
OfSuccess(w) ==
  {"ok"} \cup {point \in {"error"} : w \in SuccessWhen \cup RetryWhen}

OfFailure(w, failure) == {failure} \cup {point \in {"ok"} : w \in SuccessWhen}

Get(w) ==
  /\ pc[w] = "get"
  /\ saw' = [saw EXCEPT ![w] = doc]
  /\ Go(w, "got")
  /\ UNCHANGED <<server, puts, try, held, conflicts, changes>>

(* A status other than 2xx and 404, which the engine judges; or no answer, a   *)
(* body that breaks off, or one without _seq_no and _primary_term, each an     *)
(* error that the engine retries: the attempt ends without a PUT.             *)
GetFails(w) ==
  /\ pc[w] = "get"
  /\ \E point \in OfFailure(w, "error") : Go(w, point)
  /\ UNCHANGED <<server, puts, try, saw, held, conflicts, changes>>

FaultyUnchanged(w, d) == d # NoDoc /\ w \notin Forced
FaultyNeverUnchanged(w, d) == FALSE

(* The hook can only err toward "changed": a stored policy with the server's  *)
(* defaults in it never equals the file.                                      *)
Unchanged(w, d) ==
  /\ w \notin Forced
  /\ IsStored(Want[w], d)
  /\ Want[w] \notin Defaulted

SkipPut(w) ==
  /\ pc[w] = "got"
  /\ Unchanged(w, saw[w])
  /\ \E point \in OfSuccess(w) : Go(w, point)
  /\ UNCHANGED <<server, puts, try, saw, held, conflicts, changes>>

(* After a 404 a plain PUT, else one conditional on what the GET returned. *)
SendPut(w) ==
  /\ pc[w] = "got"
  /\ ~Unchanged(w, saw[w])
  /\ puts' = puts \cup {[writer |-> w, try |-> try[w], saw |-> saw[w]]}
  /\ Go(w, "wait")
  /\ UNCHANGED <<server, try, saw, held, conflicts, changes>>

(* The PUT fails in transport or is answered with a failure, which the engine *)
(* judges; nothing is known of what became of it.                             *)
PutFails(w) ==
  /\ pc[w] = "wait"
  /\ \E point \in OfFailure(w, "error") : Go(w, point)
  /\ UNCHANGED <<server, puts, try, saw, held, conflicts, changes>>

FaultyRetryPoint == "got"
RetryPoint == "get"

BudgetLeft(w) == try[w] < MaxAttempts

(* The engine runs the whole attempt again: it reads before it writes. *)
Retry(w) ==
  /\ pc[w] \in {"conflict", "error"}
  /\ BudgetLeft(w)
  /\ try' = [try EXCEPT ![w] = @ + 1]
  /\ Go(w, RetryPoint)
  /\ UNCHANGED <<server, puts, saw, held, conflicts, changes>>

(* The budget is used up, the status is one no retry is for, or an interrupt  *)
(* or --timeout ends the invocation wherever it waits, a PUT on its way too.  *)
GiveUp(w) ==
  /\ pc[w] \in {"get", "wait", "conflict", "error"}
  /\ Go(w, "failed")
  /\ UNCHANGED <<server, puts, try, saw, held, conflicts, changes>>

-----------------------------------------------------------------------------
(* The server and the network *)

(* The stored policy becomes d. *)
Store(d) ==
  /\ doc' = d
  /\ held' = [w \in Writers |-> held[w] \/ IsStored(Want[w], d)]
  /\ changes' = changes + 1

FaultyMeets(p) ==
  IF p.saw = NoDoc THEN doc = NoDoc ELSE doc # NoDoc /\ doc.seq = p.saw.seq

(* if_seq_no and if_primary_term; a plain PUT only creates. *)
Meets(p) ==
  IF p.saw = NoDoc THEN doc = NoDoc
  ELSE doc # NoDoc /\ doc.seq = p.saw.seq /\ doc.term = p.saw.term

Awaits(p) == pc[p.writer] = "wait" /\ try[p.writer] = p.try

Apply(p) ==
  /\ unacked = None
  /\ Meets(p)
  /\ nextSeq <= MaxSeq
  /\ Store([value |-> Want[p.writer], seq |-> nextSeq, term |-> term])
  /\ nextSeq' = nextSeq + 1
  /\ unacked' = [put |-> {p}, old |-> doc]
  /\ UNCHANGED <<term, puts, clients, conflicts>>

(* The write is safe on the replicas and the client is told, if it listens. *)
Acknowledge ==
  /\ unacked # None
  /\ unacked' = None
  /\ puts' = puts \ unacked.put
  /\ \E p \in unacked.put :
       IF Awaits(p) THEN \E point \in OfSuccess(p.writer) : Go(p.writer, point)
       ELSE UNCHANGED pc
  /\ UNCHANGED <<doc, term, nextSeq, try, saw, held, conflicts, changes>>

Reject(p) ==
  /\ p \notin unacked.put
  /\ ~Meets(p)
  /\ puts' = puts \ {p}
  /\ IF Awaits(p)
       THEN /\ \E point \in OfFailure(p.writer, "conflict") : Go(p.writer, point)
            /\ conflicts' = [conflicts EXCEPT ![p.writer] = @ + 1]
       ELSE UNCHANGED <<pc, conflicts>>
  /\ UNCHANGED <<server, try, saw, held, changes>>

Drop(p) ==
  /\ p \notin unacked.put
  /\ puts' = puts \ {p}
  /\ UNCHANGED <<server, clients, held, conflicts, changes>>

(* A new primary: the write nobody was told of is gone, its number is free. *)
Failover ==
  /\ term < MaxTerm
  /\ term' = term + 1
  /\ unacked' = None
  /\ puts' = puts \ unacked.put
  /\ IF unacked = None
       THEN UNCHANGED <<doc, nextSeq, held, changes>>
       ELSE Store(unacked.old) /\ nextSeq' = nextSeq - 1
  /\ UNCHANGED <<clients, conflicts>>

(* Another tool writes or deletes the policy. *)
Foreign(d) ==
  /\ unacked = None
  /\ nextSeq <= MaxSeq
  /\ nextSeq' = nextSeq + 1
  /\ Store(d)
  /\ UNCHANGED <<term, unacked, puts, clients, conflicts>>

Client(w) == Get(w) \/ GetFails(w) \/ SkipPut(w) \/ SendPut(w) \/ PutFails(w)
             \/ Retry(w) \/ GiveUp(w)

Server ==
  \/ \E p \in puts : Apply(p) \/ Reject(p) \/ Drop(p)
  \/ Acknowledge
  \/ Failover
  \/ \E v \in Values : Foreign([value |-> v, seq |-> nextSeq, term |-> term])
  \/ doc # NoDoc /\ Foreign(NoDoc)

Next == Server \/ \E w \in Writers : Client(w)

Spec == Init /\ [][Next]_vars

-----------------------------------------------------------------------------
(* No lost update: a PUT that the server applies replaces exactly what its    *)
(* attempt read, however late it arrives and whatever happened meanwhile:     *)
(* other writers, a delete, a lost write, an earlier attempt of the same      *)
(* invocation (upsert.go:89-98).                                              *)
ReplacesOnlyWhatItRead ==
  [][\A p \in puts : unacked = None /\ unacked'.put = {p} => doc = p.saw]_vars

(* A retry does not repeat what was already done: without --force, and where  *)
(* the server stores what the file says, no PUT is applied to a policy that   *)
(* is already the wanted one, be it by a PUT of the same invocation whose     *)
(* answer was lost (upsert.go:73-76).                                         *)
NeverRewritesTheSame ==
  [][\A p \in puts :
       /\ unacked = None /\ unacked'.put = {p}
       /\ p.writer \notin Forced /\ Want[p.writer] \notin Defaulted
       => ~IsStored(Want[p.writer], doc)]_vars

(* Without --success-when, exit code 0 means the policy was stored, at some   *)
(* moment of the invocation if not for good, however many attempts --retry-when *)
(* asked for: the hook never reports "unchanged" for another policy            *)
(* (docs/cli.md:95-100).  With --success-when it means what the predicate says *)
(* of the response, a failed GET's too (docs/cli.md:101-105).                 *)
SuccessMeansStored == \A w \in Writers \ SuccessWhen : pc[w] = "ok" => held[w]

(* A conflict is always someone's doing: an invocation gets no more 409s than *)
(* the policy had changes, because every attempt starts from a fresh GET      *)
(* (docs/retry.md:70-74).                                                     *)
ConflictsAreReal == \A w \in Writers : conflicts[w] <= changes
=============================================================================
