----------------------------- MODULE ReapplyProofs -----------------------------
(***************************************************************************)
(* Theorems about Reapply, for any number of indices, retries and changes  *)
(* by other tools.  Done is what the answers so far are about: the listed  *)
(* indices that are not in the queue any more.                             *)
(***************************************************************************)
EXTENDS Reapply, FiniteSetTheorems, TLAPS

(* mergeChangePolicy's result *)
Answer == [updated : Nat, failures : BOOLEAN, failed : Seq(Indices)]

Hows == {"running", "ok", "nothing", "failure", "rejected", "interrupted", "timed_out"}

TypeOK ==
  /\ owner \in Records /\ record \in Records
  /\ pc \in {"ask", "asked", "lost", "write", "judge", "erred", "exited"}
  /\ queue \in SUBSET Indices
  /\ stdout \in {"nothing", "merged", "body"}
  /\ merged \in Answer
  /\ how \in Hows
  /\ applied \in [Indices -> Nat]

Done == Listed \ queue

Failed == ToSet(merged.failed)

(* The queue is the end of the list. *)
InOrder ==
  /\ queue \subseteq Listed
  /\ \A i \in Done : \A j \in queue : i < j

(* Nothing has happened before explain answers. *)
NotBegun ==
  queue = {} /\ pc \in {"ask", "asked"} =>
    /\ Listed = {}
    /\ \A i \in Indices : applied[i] = 0

(* Where the command is when the queue is empty, or stdout is written. *)
PointsReached ==
  /\ pc \in {"write", "judge", "erred"} => queue = {}
  /\ pc = "lost" => queue # {}
  /\ pc \in {"judge", "erred"} => stdout = "merged"
  /\ pc \in {"ask", "asked", "lost", "write"} => stdout = "nothing"
  /\ stdout = "merged" => queue = {}
  /\ how = "running" <=> pc # "exited"
  /\ how \in {"ok", "rejected"} => stdout = "merged"
  /\ how = "nothing" => Listed = {} /\ stdout = "nothing"

(* The answers so far account for what is done, in order. *)
Accounted ==
  /\ merged.updated + Len(merged.failed) = Cardinality(Done)
  /\ Failed \subseteq Done
  /\ merged.failures <=> merged.failed # <<>>
  /\ \A a, b \in DOMAIN merged.failed : a < b => merged.failed[a] < merged.failed[b]
  /\ \A i \in Done \ Failed : applied[i] > 0

(* What the server changed is done, or is the request at hand. *)
OnlyInTurn ==
  \A i \in Indices : applied[i] > 0 => i \in Done \/ (queue # {} /\ i = Current)

Inv == TypeOK /\ InOrder /\ NotBegun /\ PointsReached /\ Accounted /\ OnlyInTurn

-----------------------------------------------------------------------------
(* A set of natural numbers that is not empty has a least element. *)
LEMMA LeastExists ==
  ASSUME NEW S, S \subseteq Nat, S # {}
  PROVE  Min(S) \in S /\ \A j \in S : Min(S) <= j
<1> DEFINE Less == {ss \in Nat \X Nat : ss[1] < ss[2]}
<1>1. IsWellFoundedOn(Less, Nat) BY NatLessThanWellFounded, Zenon DEF OpToRel
<1>2. PICK x \in S : \A y \in S : ~ (<<y, x>> \in Less)
  <2> HIDE DEF Less
  <2> QED BY <1>1, WFMin, Zenon
<1>3. \A y \in S : x <= y
  <2> SUFFICES ASSUME NEW y \in S PROVE x <= y OBVIOUS
  <2>1. x \in Nat /\ y \in Nat OBVIOUS
  <2>2. y < x => <<y, x>> \in Less BY <2>1
  <2> QED BY <1>2, <2>1, <2>2
<1> QED BY <1>3 DEF Min

(* A count, whether something failed, and the failures: an answer. *)
LEMMA AnswerOf ==
  ASSUME NEW u \in Nat, NEW f \in BOOLEAN, NEW s \in Seq(Indices)
  PROVE  [updated |-> u, failures |-> f, failed |-> s] \in Answer
BY Zenon DEF Answer

(* The index at hand is the least of the queue. *)
LEMMA CurrentFacts ==
  ASSUME TypeOK, queue # {}
  PROVE  /\ Current \in queue /\ Current \in Indices
         /\ \A j \in queue : Current <= j
<1>1. queue \subseteq Nat BY ReapplyAssumption DEF TypeOK
<1> QED BY <1>1, LeastExists DEF Current, TypeOK

(* What explain lists is a finite set of indices. *)
LEMMA ListedFacts ==
  /\ Listed \subseteq Indices /\ Listed \subseteq Nat
  /\ IsFiniteSet(Listed) /\ IsFiniteSet(Done)
<1>1. Listed \subseteq Indices BY ReapplyAssumption DEF Listed
<1>2. Done \subseteq Indices BY <1>1 DEF Done
<1> QED BY <1>1, <1>2, ReapplyAssumption, FS_Subset

(* Before explain nothing is listed. *)
LEMMA InvInit == Init => Inv
<1> SUFFICES ASSUME Init PROVE Inv OBVIOUS
<1> USE DEF Init
<1>1. Listed = {} BY ReapplyAssumption DEF Listed
<1>2. Done = {} /\ Failed = {} BY <1>1 DEF Done, Failed, ToSet
<1>3. TypeOK BY ReapplyAssumption DEF TypeOK, Records, Answer, Hows
<1>4. Cardinality(Done) = 0 BY <1>2, FS_EmptySet
<1> QED
  BY <1>1, <1>2, <1>3, <1>4
  DEF Inv, InOrder, NotBegun, PointsReached, Accounted, OnlyInTurn

-----------------------------------------------------------------------------
(* A step that leaves the list, the queue and the answers keeps what they      *)
(* account for.                                                                *)
LEMMA AccountKept ==
  ASSUME Inv, UNCHANGED <<record, queue, merged, applied>>
  PROVE  InOrder' /\ Accounted' /\ OnlyInTurn' /\ Listed' = Listed
BY DEF Inv, InOrder, Accounted, OnlyInTurn, Listed, Done, Failed, Current

(* The server carries out the request at hand: nothing else is changed. *)
LEMMA CarryOutFacts ==
  ASSUME Inv, queue # {}, CarryOut(Current)
  PROVE  /\ owner' \in Records
         /\ applied' \in [Indices -> Nat]
         /\ \A i \in Indices : i # Current => applied'[i] = applied[i]
         /\ \A i \in Indices : applied[i] > 0 => applied'[i] > 0
         /\ owner[Current] # Unmanaged => applied'[Current] > 0
<1>1. Current \in Indices BY CurrentFacts DEF Inv
<1>2. owner \in Records /\ applied \in [Indices -> Nat] BY DEF Inv, TypeOK
<1>3. CASE owner[Current] = Unmanaged
  BY <1>2, <1>3 DEF CarryOut
<1>4. CASE owner[Current] # Unmanaged
  <2>1. /\ owner' = [owner EXCEPT ![Current] = Id]
        /\ applied' = [applied EXCEPT ![Current] = @ + 1]
    BY <1>4 DEF CarryOut
  <2>2. owner' \in Records BY <1>1, <1>2, <2>1, ReapplyAssumption DEF Records
  <2>3. /\ applied' \in [Indices -> Nat]
        /\ applied'[Current] = applied[Current] + 1
        /\ \A i \in Indices : i # Current => applied'[i] = applied[i]
    BY <1>1, <1>2, <2>1
  <2>4. applied[Current] \in Nat BY <1>1, <1>2
  <2> QED BY <2>2, <2>3, <2>4
<1> QED BY <1>3, <1>4

(* A request that is carried out but not answered for leaves the account. *)
LEMMA CarriedKeeps ==
  ASSUME Inv, queue # {}, CarryOut(Current), UNCHANGED <<record, queue, merged>>
  PROVE  InOrder' /\ Accounted' /\ OnlyInTurn' /\ Listed' = Listed
<1>1. Listed' = Listed /\ Done' = Done /\ Failed' = Failed /\ Current' = Current
  BY DEF Listed, Done, Failed, Current
<1>2. InOrder' BY <1>1 DEF Inv, InOrder
<1>3. Done \subseteq Indices BY ListedFacts DEF Done
<1>4. Accounted' BY <1>1, <1>3, CarryOutFacts DEF Inv, Accounted
<1>5. OnlyInTurn' BY <1>1, CarryOutFacts DEF Inv, OnlyInTurn
<1> QED BY <1>1, <1>2, <1>4, <1>5

(* Steps of the engine around a request. *)
LEMMA RequestKeeps ==
  ASSUME Inv, Send \/ Retry \/ RequestFails \/ Stop
  PROVE  Inv'
<1> USE DEF Send, Retry, RequestFails, Stop, history, output, Exit
<1>1. InOrder' /\ Accounted' /\ OnlyInTurn' /\ Listed' = Listed BY AccountKept
<1>2. TypeOK' BY DEF Inv, TypeOK, Hows
<1>3. NotBegun' BY <1>1 DEF Inv, NotBegun, PointsReached
<1>4. PointsReached' BY <1>1 DEF Inv, PointsReached
<1> QED BY <1>1, <1>2, <1>3, <1>4 DEF Inv

(* With the answer of explain the list is made, and the queue is all of it. *)
LEMMA ExplainKeeps ==
  ASSUME Inv, Explain
  PROVE  Inv'
<1> USE DEF Explain, Asked, history, Exit
<1>1. queue = {} /\ pc = "asked" OBVIOUS
<1>2. Listed' = queue' /\ queue' \in SUBSET Indices
  BY ReapplyAssumption DEF Listed, ManagedBy
<1>3. Done' = {} /\ Done = {} /\ merged' = merged /\ applied' = applied
  BY <1>1, <1>2 DEF Done, Inv, NotBegun
<1>4. Failed' = {} /\ Failed = {} BY <1>3 DEF Failed, Inv, Accounted
<1>5. InOrder' BY <1>2, <1>3 DEF InOrder
<1>6. Accounted' BY <1>3, <1>4 DEF Inv, Accounted
<1>7. \A i \in Indices : applied'[i] = 0 BY <1>1, <1>3 DEF Inv, NotBegun
<1>8. OnlyInTurn' BY <1>7 DEF OnlyInTurn
<1>9. TypeOK' BY <1>2, <1>3 DEF Inv, TypeOK, Hows
<1>10. NotBegun' BY <1>1 DEF NotBegun
<1>11. PointsReached' BY <1>1, <1>2 DEF Inv, PointsReached
<1> QED BY <1>5, <1>6, <1>8, <1>9, <1>10, <1>11 DEF Inv

(* A lost or an undecodable answer. *)
LEMMA UnansweredKeeps ==
  ASSUME Inv, LoseAnswer \/ ChangeUndecodable
  PROVE  Inv'
<1> USE DEF LoseAnswer, ChangeUndecodable, Asked, output, Exit
<1>1. queue # {} /\ CarryOut(Current) /\ UNCHANGED <<record, queue, merged>> OBVIOUS
<1>2. InOrder' /\ Accounted' /\ OnlyInTurn' /\ Listed' = Listed BY <1>1, CarriedKeeps
<1>3. TypeOK' BY <1>1, CarryOutFacts DEF Inv, TypeOK, Hows
<1>4. NotBegun' BY DEF NotBegun
<1>5. PointsReached' BY <1>1, <1>2 DEF Inv, PointsReached
<1> QED BY <1>2, <1>3, <1>4, <1>5 DEF Inv

(* An answer moves the least index of the queue to what is done. *)
LEMMA ChangeKeeps ==
  ASSUME Inv, Change
  PROVE  Inv'
<1> DEFINE c == Current
           told == Told(Current)
<1>1. /\ queue # {} /\ pc = "asked" /\ CarryOut(c)
      /\ queue' = queue \ {c} /\ merged' = Merged(merged, told)
      /\ pc' = IF queue' = {} THEN "write" ELSE "ask"
      /\ UNCHANGED <<ctx, record, hasGate, stdout, how>>
  BY DEF Change, Asked
<1>2. /\ c \in queue /\ c \in Indices /\ c \in Listed /\ c \in Nat
      /\ \A j \in queue : c <= j
  BY <1>1, CurrentFacts, ListedFacts DEF Inv, InOrder
<1>3. Listed' = Listed /\ Done' = Done \cup {c} /\ c \notin Done
  BY <1>1, <1>2 DEF Listed, Done
<1>4. merged \in Answer BY DEF Inv, TypeOK
<1>5. \/ told = [updated |-> 0, failures |-> TRUE, failed |-> <<c>>]
      \/ /\ told = [updated |-> 1, failures |-> FALSE, failed |-> <<>>]
         /\ applied'[c] > 0
  BY <1>1, CarryOutFacts DEF Told
<1>6. /\ merged'.updated = merged.updated + told.updated
      /\ merged'.failures <=> merged.failures \/ told.failures
      /\ merged'.failed = merged.failed \o told.failed
  BY <1>1 DEF Merged
<1> HIDE DEF c, told
<1>7. InOrder'
  <2>1. \A i \in Done : i < c BY <1>2 DEF Inv, InOrder
  <2>2. \A j \in queue' : c < j
    <3> SUFFICES ASSUME NEW j \in queue' PROVE c < j OBVIOUS
    <3>1. j \in queue /\ j # c BY <1>1
    <3>2. j \in Nat /\ c <= j BY <1>2, <3>1, ListedFacts DEF Inv, InOrder
    <3> QED BY <1>2, <3>1, <3>2
  <2>3. \A i \in Done : \A j \in queue' : i < j BY <1>1 DEF Inv, InOrder
  <2>4. queue' \subseteq Listed' BY <1>1, <1>3 DEF Inv, InOrder
  <2> QED BY <1>3, <2>2, <2>3, <2>4 DEF InOrder
<1>8. Cardinality(Done') = Cardinality(Done) + 1
  BY <1>3, ListedFacts, FS_AddElement
<1>9. \A i \in Done \cup {c} : i \in Indices BY <1>2, ListedFacts DEF Done
<1>10. ASSUME told = [updated |-> 0, failures |-> TRUE, failed |-> <<c>>]
       PROVE  Accounted' /\ merged' \in Answer
  <2>1. /\ merged'.updated = merged.updated
        /\ merged'.failures
        /\ merged'.failed = merged.failed \o <<c>>
    BY <1>4, <1>6, <1>10 DEF Answer
  <2>2. merged.failed \in Seq(Indices) /\ merged.updated \in Nat BY <1>4 DEF Answer
  <2>3. /\ merged'.failed \in Seq(Indices)
        /\ Len(merged'.failed) = Len(merged.failed) + 1
        /\ \A a \in 1 .. Len(merged.failed) : merged'.failed[a] = merged.failed[a]
        /\ merged'.failed[Len(merged.failed) + 1] = c
        /\ Len(merged.failed) \in Nat
    BY <1>2, <2>1, <2>2
  <2>4. DOMAIN merged.failed = 1 .. Len(merged.failed)
        /\ DOMAIN merged'.failed = 1 .. Len(merged.failed) + 1
    BY <2>2, <2>3
  <2>5. Failed' = Failed \cup {c}
    <3>1. ASSUME NEW x \in Failed' PROVE x \in Failed \cup {c}
      <4>1. PICK a \in 1 .. Len(merged.failed) + 1 : x = merged'.failed[a]
        BY <2>4 DEF Failed, ToSet
      <4>2. CASE a \in 1 .. Len(merged.failed)
        BY <2>3, <2>4, <4>1, <4>2 DEF Failed, ToSet
      <4>3. CASE a = Len(merged.failed) + 1 BY <2>3, <4>1, <4>3
      <4> QED BY <2>3, <4>2, <4>3
    <3>2. ASSUME NEW x \in Failed PROVE x \in Failed'
      <4>1. PICK a \in 1 .. Len(merged.failed) : x = merged.failed[a]
        BY <2>4 DEF Failed, ToSet
      <4>2. a \in DOMAIN merged'.failed /\ x = merged'.failed[a] BY <2>3, <2>4, <4>1
      <4> QED BY <4>2 DEF Failed, ToSet
    <3>3. c \in Failed'
      <4>1. Len(merged.failed) + 1 \in DOMAIN merged'.failed BY <2>3, <2>4
      <4> QED BY <2>3, <4>1 DEF Failed, ToSet
    <3> QED BY <3>1, <3>2, <3>3
  <2>6. \A a \in 1 .. Len(merged.failed) : merged.failed[a] < c
    <3>1. \A a \in 1 .. Len(merged.failed) : merged.failed[a] \in Done
      BY <2>4 DEF Inv, Accounted, Failed, ToSet
    <3>2. \A i \in Done : i < c BY <1>2 DEF Inv, InOrder
    <3> QED BY <3>1, <3>2
  <2>7. \A a, b \in DOMAIN merged'.failed : a < b => merged'.failed[a] < merged'.failed[b]
    <3> SUFFICES ASSUME NEW a \in 1 .. Len(merged.failed) + 1,
                        NEW b \in 1 .. Len(merged.failed) + 1, a < b
                 PROVE  merged'.failed[a] < merged'.failed[b]
      BY <2>4
    <3>1. a \in 1 .. Len(merged.failed) BY <2>3
    <3>2. CASE b \in 1 .. Len(merged.failed)
      BY <2>3, <2>4, <3>1, <3>2 DEF Inv, Accounted
    <3>3. CASE b = Len(merged.failed) + 1
      BY <2>3, <2>6, <3>1, <3>3
    <3> QED BY <2>3, <3>2, <3>3
  <2>8. \A i \in Done' \ Failed' : applied'[i] > 0
    <3> SUFFICES ASSUME NEW i \in Done' \ Failed' PROVE applied'[i] > 0 OBVIOUS
    <3>1. i \in Done \ Failed /\ i \in Indices BY <1>3, <1>9, <2>5
    <3>2. applied[i] > 0 BY <3>1 DEF Inv, Accounted
    <3> QED BY <1>1, <3>1, <3>2, CarryOutFacts DEF c
  <2>9. merged'.updated + Len(merged'.failed) = Cardinality(Done')
    BY <1>8, <2>1, <2>2, <2>3 DEF Inv, Accounted
  <2>10. merged'.failed # <<>> BY <2>3
  <2>11. Failed' \subseteq Done' BY <1>3, <2>5 DEF Inv, Accounted
  <2>12. merged' \in Answer
    <3> DEFINE u == merged.updated + told.updated
               f == merged.failures \/ told.failures
               s == merged.failed \o told.failed
    <3>1. merged' = [updated |-> u, failures |-> f, failed |-> s] BY <1>1 DEF Merged
    <3>2. told.updated = 0 BY <1>10
    <3>3. u \in Nat BY <2>2, <3>2
    <3>4. f \in BOOLEAN OBVIOUS
    <3>5. s \in Seq(Indices) BY <1>6, <2>3
    <3> HIDE DEF u, f, s
    <3> QED BY <3>1, <3>3, <3>4, <3>5, AnswerOf
  <2> QED BY <2>1, <2>7, <2>8, <2>9, <2>10, <2>11, <2>12 DEF Accounted
<1>11. ASSUME told = [updated |-> 1, failures |-> FALSE, failed |-> <<>>],
              applied'[c] > 0
       PROVE  Accounted' /\ merged' \in Answer
  <2>2. merged.failed \in Seq(Indices) /\ merged.updated \in Nat BY <1>4 DEF Answer
  <2>1. /\ merged'.updated = merged.updated + 1
        /\ merged'.failures <=> merged.failures
        /\ merged'.failed = merged.failed
    BY <1>6, <1>11, <2>2
  <2>3. Failed' = Failed BY <2>1 DEF Failed
  <2>4. \A i \in Done' \ Failed' : applied'[i] > 0
    <3> SUFFICES ASSUME NEW i \in Done' \ Failed' PROVE applied'[i] > 0 OBVIOUS
    <3>1. CASE i = c BY <1>11, <3>1
    <3>2. CASE i \in Done
      <4>1. applied[i] > 0 BY <2>3, <3>2 DEF Inv, Accounted
      <4> QED BY <1>1, <1>9, <3>2, <4>1, CarryOutFacts DEF c
    <3> QED BY <1>3, <3>1, <3>2
  <2>5. Failed' \subseteq Done' BY <1>3, <2>3 DEF Inv, Accounted
  <2>6. merged'.updated + Len(merged'.failed) = Cardinality(Done')
    BY <1>8, <2>1, <2>2 DEF Inv, Accounted
  <2>7. merged' \in Answer
    <3> DEFINE u == merged.updated + told.updated
               f == merged.failures \/ told.failures
               s == merged.failed \o told.failed
    <3>1. merged' = [updated |-> u, failures |-> f, failed |-> s] BY <1>1 DEF Merged
    <3>2. told.updated = 1 BY <1>11
    <3>3. u \in Nat BY <2>2, <3>2
    <3>4. f \in BOOLEAN OBVIOUS
    <3>5. s \in Seq(Indices) BY <1>6, <2>1, <2>2
    <3> HIDE DEF u, f, s
    <3> QED BY <3>1, <3>3, <3>4, <3>5, AnswerOf
  <2> QED BY <2>1, <2>4, <2>5, <2>6, <2>7 DEF Inv, Accounted
<1>12. OnlyInTurn'
  <2> SUFFICES ASSUME NEW i \in Indices, applied'[i] > 0 PROVE i \in Done'
    BY DEF OnlyInTurn
  <2>1. CASE i = c BY <1>3, <2>1
  <2>2. CASE i # c
    <3>1. applied[i] > 0 BY <1>1, <2>2, CarryOutFacts DEF c
    <3>2. i \in Done BY <2>2, <3>1 DEF Inv, OnlyInTurn, c
    <3> QED BY <1>3, <3>2
  <2> QED BY <2>1, <2>2
<1>13. NotBegun' BY <1>1 DEF NotBegun
<1>14. PointsReached' BY <1>1, <1>3 DEF Inv, PointsReached
<1>15. TypeOK'
  <2>1. owner' \in Records /\ applied' \in [Indices -> Nat] BY <1>1, CarryOutFacts DEF c
  <2>2. merged' \in Answer /\ queue' \in SUBSET Indices BY <1>1, <1>5, <1>10, <1>11 DEF Inv, TypeOK
  <2> QED BY <1>1, <2>1, <2>2 DEF Inv, TypeOK
<1> QED BY <1>5, <1>7, <1>10, <1>11, <1>12, <1>13, <1>14, <1>15 DEF Inv

(* The merged answer is written and judged. *)
LEMMA EndKeeps ==
  ASSUME Inv, WriteMerged \/ Judge \/ JudgeErred
  PROVE  Inv'
<1> USE DEF WriteMerged, Judge, JudgeErred, history, Exit
<1>1. InOrder' /\ Accounted' /\ OnlyInTurn' /\ Listed' = Listed BY AccountKept
<1>2. TypeOK' BY DEF Inv, TypeOK, Hows
<1>3. NotBegun' BY DEF NotBegun
<1>4. PointsReached' BY <1>1 DEF Inv, PointsReached
<1> QED BY <1>1, <1>2, <1>3, <1>4 DEF Inv

(* The steps of others, and none, leave the command as it is. *)
LEMMA OthersKeep ==
  ASSUME Inv, \/ \E cause \in {"canceled", "deadline"} : EndContext(cause)
              \/ \E i \in Indices, p \in Policies \cup {Unmanaged} : Move(i, p)
              \/ UNCHANGED vars
  PROVE  Inv'
<1> USE DEF EndContext, Move, history, output, vars
<1>1. UNCHANGED <<pc, record, queue, merged, applied, stdout, how>> OBVIOUS
<1>2. InOrder' /\ Accounted' /\ OnlyInTurn' /\ Listed' = Listed BY <1>1, AccountKept
<1>3. owner' \in Records BY DEF Inv, TypeOK, Records
<1>4. TypeOK' BY <1>1, <1>3 DEF Inv, TypeOK
<1>5. NotBegun' BY <1>1, <1>2 DEF Inv, NotBegun
<1>6. PointsReached' BY <1>1, <1>2 DEF Inv, PointsReached
<1> QED BY <1>2, <1>4, <1>5, <1>6 DEF Inv

(* Every step keeps the account. *)
LEMMA InvNext == Inv /\ [Next]_vars => Inv'
<1> SUFFICES ASSUME Inv, [Next]_vars PROVE Inv' OBVIOUS
<1>1. CASE Command
  BY <1>1, RequestKeeps, ExplainKeeps, UnansweredKeeps, ChangeKeeps, EndKeeps DEF Command
<1>2. CASE Exited BY <1>2, OthersKeep DEF Exited
<1> QED BY <1>1, <1>2, OthersKeep DEF Next

(* At every point of the command the answers account for the indices that are *)
(* done, and the server has changed none but these and the one at hand.        *)
THEOREM Invariance == Spec => []Inv
BY InvInit, InvNext, PTL DEF Spec

(* Only listed indices are changed, each after those before it by name were   *)
(* answered for.                                                              *)
THEOREM OnlyListedCorrect == Spec => []OnlyListedAreChanged
<1>1. ASSUME Inv PROVE OnlyListedAreChanged
  <2> SUFFICES ASSUME NEW i \in Indices, applied[i] > 0
               PROVE  /\ i \in Listed
                      /\ merged.updated + Len(merged.failed)
                           >= Cardinality({j \in Listed : j < i})
    BY DEF OnlyListedAreChanged
  <2>1. i \in Done \/ (queue # {} /\ i = Current) BY <1>1 DEF Inv, OnlyInTurn
  <2>2. i \in Listed
    BY <1>1, <2>1, CurrentFacts DEF Inv, InOrder, Done
  <2>3. \A j \in queue : i <= j
    <3> SUFFICES ASSUME NEW j \in queue PROVE i <= j OBVIOUS
    <3>1. j \in Nat /\ i \in Nat BY <1>1, <2>2, ListedFacts DEF Inv, InOrder
    <3>2. CASE i \in Done BY <1>1, <3>1, <3>2 DEF Inv, InOrder
    <3>3. CASE i = Current BY <1>1, <3>3, CurrentFacts DEF Inv
    <3> QED BY <2>1, <3>2, <3>3
  <2> DEFINE before == {j \in Listed : j < i}
  <2>4. before \subseteq Done
    <3> SUFFICES ASSUME NEW j \in Listed, j < i PROVE j \in Done OBVIOUS
    <3>1. j \in Nat /\ i \in Nat BY <2>2, ListedFacts
    <3> QED BY <2>3, <3>1 DEF Done
  <2>5. Cardinality(before) <= Cardinality(Done)
    BY <2>4, ListedFacts, FS_Subset
  <2>6. Cardinality(before) \in Nat /\ Cardinality(Done) \in Nat
    BY <2>4, ListedFacts, FS_Subset, FS_CardinalityType
  <2>7. merged.updated + Len(merged.failed) = Cardinality(Done)
    BY <1>1 DEF Inv, Accounted
  <2> QED BY <2>2, <2>5, <2>6, <2>7
<1> QED BY <1>1, Invariance, PTL

(* The merged body accounts for every listed index, updated or failed, and no *)
(* exit status but 1 leaves one out.                                          *)
THEOREM MergedCorrect == Spec => []MergedAccounts
<1>1. ASSUME Inv PROVE MergedAccounts
  <2>1. stdout = "merged" => Done = Listed
    BY <1>1 DEF Inv, PointsReached, Done
  <2> QED BY <1>1, <2>1 DEF Inv, Accounted, PointsReached, MergedAccounts, Failed
<1> QED BY <1>1, Invariance, PTL
=============================================================================
