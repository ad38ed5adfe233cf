-------------------------------- MODULE Reapply --------------------------------
(***************************************************************************)
(* osapi ism reapply <id> (internal/cli/ism_reapply.go): one explain, then *)
(* one change_policy per index that explain reports under the policy, each *)
(* with a retry budget of its own, all under one context; the answers are  *)
(* merged and judged once.                                                 *)
(*                                                                         *)
(* The server is external: a record of which policy manages which index,   *)
(* changed by other tools at any time.  A request may be lost, and so may  *)
(* the answer to one that was carried out.  Engine.Do is what              *)
(* RetryContract promises.                                                 *)
(***************************************************************************)
EXTENDS Integers, Sequences, FiniteSets, SequencesExt

CONSTANTS
  Indices,      \* names of indices: numbers, in the order of slices.Sort
  Policies,     \* policy ids
  Id,           \* the policy to reapply
  Unmanaged,    \* an index that no policy manages
  Scope,        \* the indices that --target, or its absence, asks for
  MaxAttempts,  \* 1 + --retry N
  MaxMoves      \* bound: changes of the record by other tools

ASSUME ReapplyAssumption ==
  /\ Indices \subseteq Nat /\ IsFiniteSet(Indices) /\ Scope \subseteq Indices
  /\ Id \in Policies /\ Unmanaged \notin Policies
  /\ MaxAttempts \in Nat \ {0} /\ MaxMoves \in Nat

VARIABLES
  owner,      \* the record of the server
  ctx,        \* "live", or the cause that ended it
  pc,         \* where the command is
  record,     \* what explain answered
  queue,      \* the indices still to be changed, the least of them next
  try,        \* the attempt of the request at hand
  hasGate,    \* --success-when is set
  stdout,     \* what stdout got: nothing, the merged body, or another answer
  merged,     \* the answers so far, merged
  how,        \* how the command ended
  applied,    \* history: how often the server carried each index out
  moves

vars == <<owner, ctx, pc, record, queue, try, hasGate, stdout, merged, how, applied,
          moves>>

history == <<applied, moves>>
output  == <<stdout, merged, how>>

Records == [Indices -> Policies \cup {Unmanaged}]

Init ==
  /\ owner \in Records
  /\ ctx = "live" /\ pc = "ask"
  /\ record = [i \in Indices |-> Unmanaged] /\ queue = {} /\ try = 1
  /\ hasGate \in BOOLEAN
  /\ stdout = "nothing" /\ how = "running"
  /\ merged = [updated |-> 0, failures |-> FALSE, failed |-> <<>>]
  /\ applied = [i \in Indices |-> 0]
  /\ moves = 0

Ended == ctx # "live"

Exit(why) == pc' = "exited" /\ how' = why

-----------------------------------------------------------------------------
(* Engine.Do around either request *)

(* The engine sends nothing for a context that has ended. *)
Send ==
  /\ pc = "ask" /\ ~Ended
  /\ pc' = "asked"
  /\ UNCHANGED <<owner, ctx, record, queue, try, hasGate, output, history>>

BudgetLeft == try < MaxAttempts

(* The attempt fails and the engine tries again. *)
Retry ==
  /\ pc \in {"asked", "lost"} /\ ~Ended
  /\ BudgetLeft
  /\ pc' = "ask" /\ try' = try + 1
  /\ UNCHANGED <<owner, ctx, record, queue, hasGate, output, history>>

(* The budget is used up or the status is terminal.  An answer with a body    *)
(* puts it on stdout; a transport error has none.                             *)
RequestFails ==
  /\ pc \in {"asked", "lost"}
  /\ stdout' \in IF pc = "lost" THEN {"nothing"} ELSE {"nothing", "body"}
  /\ Exit("failure")
  /\ UNCHANGED <<owner, ctx, record, queue, try, hasGate, merged, history>>

Stop ==
  /\ pc \in {"ask", "asked", "lost"} /\ Ended
  /\ Exit(IF ctx = "deadline" THEN "timed_out" ELSE "interrupted")
  /\ UNCHANGED <<owner, ctx, record, queue, try, hasGate, stdout, merged, history>>

-----------------------------------------------------------------------------
(* The record explain answers is read once and acted on later. *)

FaultyManagedBy(r) == {i \in Scope : r[i] # Unmanaged}

(* managedBy: of what explain reports, the indices of this policy.  They are  *)
(* sorted, so that the loop takes the least one that is left.                 *)
ManagedBy(r) == {i \in Scope : r[i] = Id}

Current == Min(queue)

Asked(stage) == pc = "asked" /\ (stage = "explain" <=> queue = {})

Explain ==
  /\ Asked("explain")
  /\ record' = owner
  /\ queue' = ManagedBy(owner)
  /\ try' = 1
  /\ IF queue' = {} THEN Exit("nothing") ELSE pc' = "ask" /\ UNCHANGED how
  /\ UNCHANGED <<owner, ctx, hasGate, stdout, merged, history>>

(* The server changes the policy of a managed index; an index that is not     *)
(* managed any more is reported as failed.                                    *)
CarryOut(i) ==
  /\ IF owner[i] = Unmanaged
       THEN UNCHANGED <<owner, applied>>
       ELSE owner' = [owner EXCEPT ![i] = Id] /\ applied' = [applied EXCEPT ![i] = @ + 1]
  /\ UNCHANGED moves

Told(i) == IF owner[i] = Unmanaged
             THEN [updated |-> 0, failures |-> TRUE, failed |-> <<i>>]
             ELSE [updated |-> 1, failures |-> FALSE, failed |-> <<>>]

(* The change is made but nobody hears of it. *)
LoseAnswer ==
  /\ Asked("change")
  /\ CarryOut(Current)
  /\ pc' = "lost"
  /\ UNCHANGED <<ctx, record, queue, try, hasGate, output>>

FaultyMerged(sum, answer) == answer

(* One round of the loop of mergeChangePolicy.  The code keeps the answers and *)
(* merges them after the last; nothing looks at the sum before.               *)
Merged(sum, answer) ==
  [updated  |-> sum.updated + answer.updated,
   failures |-> sum.failures \/ answer.failures,
   failed   |-> sum.failed \o answer.failed]

(* changePolicy decodes the answer and goes on to the next index.             *)
Change ==
  /\ Asked("change")
  /\ CarryOut(Current)
  /\ merged' = Merged(merged, Told(Current))
  /\ queue' = queue \ {Current}
  /\ pc' = IF queue' = {} THEN "write" ELSE "ask"
  /\ try' = 1
  /\ UNCHANGED <<ctx, record, hasGate, stdout, how>>

(* An answer that is not JSON goes to stdout and ends the loop. *)
ChangeUndecodable ==
  /\ Asked("change")
  /\ CarryOut(Current)
  /\ stdout' = "body"
  /\ Exit("failure")
  /\ UNCHANGED <<ctx, record, queue, try, hasGate, merged>>

-----------------------------------------------------------------------------
WriteMerged ==
  /\ pc = "write"
  /\ \/ stdout' = "merged" /\ pc' = "judge" /\ UNCHANGED how
     \/ Exit("failure") /\ UNCHANGED stdout
  /\ UNCHANGED <<owner, ctx, record, queue, try, hasGate, merged, history>>

(* judge: once, on the merged body.  A context that has ended stops the       *)
(* expression.                                                                *)
Judge ==
  /\ pc = "judge"
  /\ \/ ~hasGate /\ Exit("ok")
     \/ hasGate /\ ~Ended /\ \E verdict \in {"ok", "rejected"} : Exit(verdict)
     \/ hasGate /\ ~Ended /\ pc' = "erred" /\ UNCHANGED how
     \/ hasGate /\ Ended
        /\ Exit(IF ctx = "deadline" THEN "timed_out" ELSE "interrupted")
  /\ UNCHANGED <<owner, ctx, record, queue, try, hasGate, stdout, merged, history>>

(* An error of the expression counts as not satisfied, unless the context has *)
(* ended since: then it is returned as it is.                                 *)
JudgeErred ==
  /\ pc = "erred"
  /\ Exit(IF Ended THEN "failure" ELSE "rejected")
  /\ UNCHANGED <<owner, ctx, record, queue, try, hasGate, stdout, merged, history>>

-----------------------------------------------------------------------------
EndContext(cause) ==
  /\ ctx = "live" /\ pc # "exited"
  /\ ctx' = cause
  /\ UNCHANGED <<owner, pc, record, queue, try, hasGate, output, history>>

(* Another tool attaches, detaches or moves an index. *)
Move(i, p) ==
  /\ moves < MaxMoves
  /\ p # owner[i]
  /\ owner' = [owner EXCEPT ![i] = p]
  /\ moves' = moves + 1
  /\ UNCHANGED <<ctx, pc, record, queue, try, hasGate, output, applied>>

Command ==
  \/ Send \/ Retry \/ RequestFails \/ Stop
  \/ Explain \/ LoseAnswer \/ Change \/ ChangeUndecodable
  \/ WriteMerged \/ Judge \/ JudgeErred

Exited == pc = "exited" /\ UNCHANGED vars

Next ==
  \/ Command
  \/ \E cause \in {"canceled", "deadline"} : EndContext(cause)
  \/ \E i \in Indices, p \in Policies \cup {Unmanaged} : Move(i, p)
  \/ Exited

Spec == Init /\ [][Next]_vars

-----------------------------------------------------------------------------
Listed == {i \in Scope : record[i] = Id}

(* Only an index that was under the policy when explain answered is changed,  *)
(* whatever --target matches, however often a request is repeated and         *)
(* whatever moved since (docs/cli.md:113-119).  And only when every listed    *)
(* index before it by name was answered for: the loop stops at the first      *)
(* failure.                                                                   *)
OnlyListedAreChanged ==
  \A i \in Indices :
    applied[i] > 0 =>
      /\ i \in Listed
      /\ merged.updated + Len(merged.failed) >= Cardinality({j \in Listed : j < i})

(* The merged body accounts for every index that explain listed, each of them *)
(* updated or failed and none twice, with the failed ones in index order,     *)
(* although a repeated request may have changed an index twice and other      *)
(* tools may have detached some; and no exit status but 1 leaves a listed     *)
(* index out, an interrupted or a timed-out run excepted (docs/cli.md:        *)
(* 116-125).                                                                  *)
MergedAccounts ==
  /\ stdout = "merged" =>
       /\ merged.updated + Len(merged.failed) = Cardinality(Listed)
       /\ ToSet(merged.failed) \subseteq Listed
       /\ merged.failures <=> merged.failed # <<>>
       /\ \A a, b \in DOMAIN merged.failed : a < b => merged.failed[a] < merged.failed[b]
       /\ \A i \in Listed \ ToSet(merged.failed) : applied[i] > 0
  /\ how \in {"ok", "rejected"} => stdout = "merged"
  /\ how = "nothing" => Listed = {} /\ stdout = "nothing"

(* docs/cli.md:113-115: "An index that matches --target but belongs to        *)
(* another policy keeps its policy."                                          *)
ForeignIndexKeepsItsPolicy ==
  [][\A i \in Indices : applied'[i] > applied[i] => owner[i] = Id]_vars
=============================================================================
