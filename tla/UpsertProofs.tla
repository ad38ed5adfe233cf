----------------------------- MODULE UpsertProofs -----------------------------
(***************************************************************************)
(* Theorems about Upsert, for any number of invocations, attempts, writes  *)
(* of other tools and failovers.                                           *)
(***************************************************************************)
EXTENDS UpsertInvariant, TLAPS

(* The kinds of steps there are. *)
LEMMA Steps ==
  ASSUME [Next]_vars
  PROVE  \/ \E w \in Writers : \/ Get(w) \/ GetFails(w) \/ SkipPut(w) \/ SendPut(w)
                               \/ PutFails(w) \/ Retry(w) \/ GiveUp(w)
         \/ \E p \in puts : Apply(p) \/ Reject(p) \/ Drop(p)
         \/ Acknowledge
         \/ Failover
         \/ \E v \in Values : Foreign([value |-> v, seq |-> nextSeq, term |-> term])
         \/ Foreign(NoDoc)
         \/ UNCHANGED vars
BY DEF Next, Server, Client

(* A version has a number and a term. *)
LEMMA VersionFacts ==
  ASSUME NEW d \in Doc
  PROVE  d # NoDoc => d \in Version /\ d.seq \in Nat /\ d.term \in Nat /\ d.value \in Values
BY NoDocAssumption DEF Doc, Version

(* Two versions that agree in everything are one. *)
LEMMA SameVersion ==
  ASSUME NEW u \in Version, NEW v \in Version, u.seq = v.seq, u.term = v.term, u.value = v.value
  PROVE  u = v
BY DEF Version

(* Before the first request the invariant holds. *)
LEMMA InvInit == Init => Inv
<1> SUFFICES ASSUME Init PROVE Inv OBVIOUS
<1>1. doc \in Doc /\ (doc # NoDoc => doc.seq = 0 /\ doc.term = 1)
  <2>1. CASE doc = NoDoc BY <2>1 DEF Doc
  <2>2. CASE doc # NoDoc
    <3>1. doc \in [value : Values, seq : {0}, term : {1}] BY <2>2 DEF Init
    <3> QED BY <3>1 DEF Doc, Version
  <2> QED BY <2>1, <2>2
<1>2. NoDoc \in Doc BY DEF Doc
<1>3. TypeOK
  BY <1>1, <1>2, UpsertAssumption DEF Init, TypeOK, None, IsStored
<1>4. Held \subseteq {doc} \ {NoDoc} BY DEF Init, Held, None
<1>5. NothingFromTheFuture /\ VersionsAreUnique
  BY <1>1, <1>4 DEF Init, NothingFromTheFuture, VersionsAreUnique
<1> QED
  BY <1>3, <1>5
  DEF Init, Inv, UnackedIsKnown, PutsAreOfAttempts, PutsHaveAPurpose, StoredIsHeld,
      ConflictsAreCovered, None

(* The types are kept. *)
LEMMA TypeNext == ASSUME Inv, [Next]_vars PROVE TypeOK'
<1>1. TypeOK /\ UnackedIsKnown BY DEF Inv
<1>2. NoDoc \in Doc BY DEF Doc
<1>3. ASSUME NEW w \in Writers,
             Get(w) \/ GetFails(w) \/ SkipPut(w) \/ PutFails(w) \/ Retry(w) \/ GiveUp(w)
      PROVE  TypeOK'
  <2> USE <1>1, UpsertAssumption
      DEF TypeOK, Go, RetryPoint, BudgetLeft, clients, server, OfSuccess, OfFailure
  <2>1. CASE Get(w) BY <2>1 DEF Get
  <2>2. CASE GetFails(w) BY <2>2 DEF GetFails
  <2>3. CASE SkipPut(w) BY <2>3 DEF SkipPut
  <2>4. CASE PutFails(w) BY <2>4 DEF PutFails
  <2>5. CASE Retry(w) BY <2>5 DEF Retry
  <2>6. CASE GiveUp(w) BY <2>6 DEF GiveUp
  <2> QED BY <1>3, <2>1, <2>2, <2>3, <2>4, <2>5, <2>6
<1>4. ASSUME NEW w \in Writers, SendPut(w) PROVE TypeOK'
  <2>1. [writer |-> w, try |-> try[w], saw |-> saw[w]] \in Put BY <1>1 DEF TypeOK, Put
  <2>2. puts \subseteq puts' /\ puts' \subseteq Put BY <1>1, <1>4, <2>1 DEF SendPut, TypeOK
  <2>3. unacked' \in [put : SUBSET puts', old : Doc]
    BY <1>1, <1>4, <2>2 DEF SendPut, TypeOK, server
  <2> QED BY <1>1, <1>4, <2>2, <2>3 DEF SendPut, TypeOK, Go, server
<1>5. ASSUME NEW d \in Doc, Store(d)
      PROVE  doc' \in Doc /\ held' \in [Writers -> BOOLEAN] /\ changes' \in Nat
  BY <1>1, <1>5 DEF Store, TypeOK, IsStored
<1>6. ASSUME NEW p \in puts, Apply(p) PROVE TypeOK'
  <2>1. [value |-> Want[p.writer], seq |-> nextSeq, term |-> term] \in Doc
    BY <1>1, UpsertAssumption DEF TypeOK, Put, Doc, Version
  <2>2. doc' \in Doc /\ held' \in [Writers -> BOOLEAN] /\ changes' \in Nat
    BY <1>5, <1>6, <2>1 DEF Apply
  <2>3. unacked' \in [put : SUBSET puts, old : Doc] BY <1>1, <1>6 DEF Apply, TypeOK
  <2>4. nextSeq' \in 0 .. MaxSeq + 1 BY <1>1, <1>6, UpsertAssumption DEF Apply, TypeOK
  <2> QED BY <1>1, <1>6, <2>2, <2>3, <2>4 DEF Apply, TypeOK, clients
<1>7. ASSUME NEW p \in puts, Reject(p) \/ Drop(p) PROVE TypeOK'
  <2>1. puts' \subseteq Put /\ unacked' = unacked /\ unacked.put \subseteq puts'
    BY <1>1, <1>7 DEF Reject, Drop, TypeOK, UnackedIsKnown, server
  <2>2. unacked' \in [put : SUBSET puts', old : Doc] BY <1>1, <2>1 DEF TypeOK
  <2>3. p.writer \in Writers BY <1>1 DEF TypeOK, Put
  <2>4. pc' \in [Writers -> {"get", "got", "wait", "conflict", "error", "ok", "failed"}]
        /\ conflicts' \in [Writers -> Nat]
    BY <1>1, <1>7, <2>3 DEF Reject, Drop, TypeOK, Go, OfFailure, clients
  <2> QED BY <1>1, <1>7, <2>1, <2>2, <2>4 DEF Reject, Drop, TypeOK, server, clients
<1>8. CASE Acknowledge
  <2>1. PICK p \in unacked.put :
          IF Awaits(p) THEN \E point \in OfSuccess(p.writer) : Go(p.writer, point)
          ELSE UNCHANGED pc
    BY <1>8 DEF Acknowledge
  <2>2. p.writer \in Writers BY <1>1 DEF TypeOK, Put
  <2>3. pc' \in [Writers -> {"get", "got", "wait", "conflict", "error", "ok", "failed"}]
    BY <1>1, <2>1, <2>2 DEF TypeOK, Go, OfSuccess
  <2> QED BY <1>1, <1>2, <1>8, <2>3 DEF Acknowledge, TypeOK, None
<1>9. CASE Failover
  <2>1. unacked' = None /\ puts' \subseteq puts /\ unacked.old \in Doc
    BY <1>1, <1>9 DEF Failover, TypeOK
  <2>2. None \in [put : SUBSET puts', old : Doc] BY <1>2 DEF None
  <2>3. term' \in 1 .. MaxTerm BY <1>1, <1>9, UpsertAssumption DEF Failover, TypeOK
  <2>4. CASE unacked = None
    BY <1>1, <1>9, <2>1, <2>2, <2>3, <2>4 DEF Failover, TypeOK, clients
  <2>5. CASE unacked # None
    <3>1. doc' \in Doc /\ held' \in [Writers -> BOOLEAN] /\ changes' \in Nat
      BY <1>5, <1>9, <2>1, <2>5 DEF Failover
    <3>2. nextSeq' \in 0 .. MaxSeq + 1
      BY <1>1, <1>9, <2>5, UpsertAssumption DEF Failover, TypeOK, UnackedIsKnown
    <3> QED BY <1>1, <1>9, <2>1, <2>2, <2>3, <3>1, <3>2 DEF Failover, TypeOK, clients
  <2> QED BY <2>4, <2>5
<1>10. ASSUME NEW d \in Doc, Foreign(d) PROVE TypeOK'
  <2>1. doc' \in Doc /\ held' \in [Writers -> BOOLEAN] /\ changes' \in Nat
    BY <1>5, <1>10 DEF Foreign
  <2>2. nextSeq' \in 0 .. MaxSeq + 1 BY <1>1, <1>10, UpsertAssumption DEF Foreign, TypeOK
  <2> QED BY <1>1, <1>10, <2>1, <2>2 DEF Foreign, TypeOK, clients
<1>11. ASSUME NEW v \in Values PROVE [value |-> v, seq |-> nextSeq, term |-> term] \in Doc
  BY <1>1 DEF TypeOK, Doc, Version
<1>12. CASE UNCHANGED vars
  BY <1>1, <1>12 DEF vars, server, clients, TypeOK
<1> QED
  BY <1>2, <1>3, <1>4, <1>6, <1>7, <1>8, <1>9, <1>10, <1>11, <1>12, Steps

(* What somebody holds next was held before or is stored anew: a version with *)
(* a number and a term that no held version has.                              *)
LEMMA HeldNext ==
  ASSUME Inv, [Next]_vars
  PROVE  /\ Held' \subseteq Held \cup {doc'}
         /\ \/ doc' \in Held \cup {NoDoc} /\ term' = term /\ nextSeq' >= nextSeq
            \/ doc' \in Held \cup {NoDoc} /\ term' = term + 1
            \/ doc'.seq = nextSeq /\ doc'.term = term /\ nextSeq' = nextSeq + 1 /\ term' = term
<1>1. TypeOK BY DEF Inv
<1>2. nextSeq \in Nat /\ term \in Nat BY <1>1 DEF TypeOK
<1>3. doc \in Held \cup {NoDoc} /\ unacked.old \in Held \cup {NoDoc} BY DEF Held
<1>4. ASSUME NEW w \in Writers, Get(w)
      PROVE  saw' = [saw EXCEPT ![w] = doc] /\ UNCHANGED <<server, puts>>
  BY <1>4 DEF Get
<1>5. ASSUME NEW w \in Writers, SendPut(w)
      PROVE  /\ puts' = puts \cup {[writer |-> w, try |-> try[w], saw |-> saw[w]]}
             /\ UNCHANGED <<server, saw>>
  BY <1>5 DEF SendPut
<1>6. ASSUME UNCHANGED <<server, saw>>, puts' \subseteq puts
      PROVE  Held' \subseteq Held \cup {doc'} /\ doc' \in Held \cup {NoDoc}
             /\ term' = term /\ nextSeq' >= nextSeq
  BY <1>2, <1>3, <1>6 DEF Held, server
<1>7. ASSUME NEW w \in Writers,
             GetFails(w) \/ SkipPut(w) \/ PutFails(w) \/ Retry(w) \/ GiveUp(w)
      PROVE  UNCHANGED <<server, saw, puts>>
  BY <1>7 DEF GetFails, SkipPut, PutFails, Retry, GiveUp
<1>8. ASSUME NEW w \in Writers, Get(w)
      PROVE  Held' \subseteq Held \cup {doc'} /\ doc' \in Held \cup {NoDoc}
             /\ term' = term /\ nextSeq' >= nextSeq
  <2>1. \A x \in Writers : saw'[x] = saw[x] \/ saw'[x] = doc BY <1>1, <1>4, <1>8 DEF TypeOK
  <2> QED BY <1>2, <1>3, <1>4, <1>8, <2>1 DEF Held, server
<1>9. ASSUME NEW w \in Writers, SendPut(w)
      PROVE  Held' \subseteq Held \cup {doc'} /\ doc' \in Held \cup {NoDoc}
             /\ term' = term /\ nextSeq' >= nextSeq
  <2>1. \A p \in puts' : p \in puts \/ p.saw = saw[w] BY <1>5, <1>9
  <2> QED BY <1>2, <1>3, <1>5, <1>9, <2>1 DEF Held, server
<1>10. ASSUME NEW p \in puts, Apply(p)
       PROVE  /\ Held' \subseteq Held \cup {doc'}
              /\ doc'.seq = nextSeq /\ doc'.term = term /\ nextSeq' = nextSeq + 1 /\ term' = term
  BY <1>1, <1>10 DEF Apply, Store, Held, clients
<1>11. ASSUME NEW p \in puts, Reject(p) \/ Drop(p)
       PROVE  UNCHANGED <<server, saw>> /\ puts' \subseteq puts
  BY <1>11 DEF Reject, Drop, clients
<1>12. CASE Acknowledge
  BY <1>2, <1>3, <1>12 DEF Acknowledge, Held, None
<1>13. CASE Failover
  <2>1. doc' \in Held \cup {NoDoc} /\ term' = term + 1
    BY <1>3, <1>13 DEF Failover, Store
  <2> QED BY <1>13, <2>1 DEF Failover, Held, None, clients
<1>14. ASSUME NEW d, Foreign(d)
       PROVE  /\ Held' \subseteq Held \cup {doc'} /\ doc' = d
              /\ nextSeq' = nextSeq + 1 /\ term' = term
  BY <1>14 DEF Foreign, Store, Held, clients
<1>15. ASSUME NEW v \in Values, Foreign([value |-> v, seq |-> nextSeq, term |-> term])
       PROVE  /\ Held' \subseteq Held \cup {doc'}
              /\ doc'.seq = nextSeq /\ doc'.term = term /\ nextSeq' = nextSeq + 1 /\ term' = term
  BY <1>14, <1>15
<1>16. CASE Foreign(NoDoc)
  <2>1. doc' = NoDoc /\ nextSeq' >= nextSeq /\ term' = term BY <1>2, <1>14, <1>16
  <2> QED BY <1>14, <1>16, <2>1
<1>17. CASE \E w \in Writers : \/ Get(w) \/ GetFails(w) \/ SkipPut(w) \/ SendPut(w)
                              \/ PutFails(w) \/ Retry(w) \/ GiveUp(w)
  BY <1>6, <1>7, <1>8, <1>9, <1>17
<1>18. CASE \E p \in puts : Apply(p) \/ Reject(p) \/ Drop(p)
  BY <1>6, <1>10, <1>11, <1>18
<1>19. CASE UNCHANGED vars
  BY <1>6, <1>19 DEF vars, clients
<1> QED BY <1>12, <1>13, <1>15, <1>16, <1>17, <1>18, <1>19, Steps
(* Held versions are versions. *)
LEMMA HeldAreVersions ==
  ASSUME TypeOK
  PROVE  \A v \in Held : v \in Version /\ v.seq \in Nat /\ v.term \in Nat
<1>1. \A p \in puts : p.saw \in Doc BY DEF TypeOK, Put
<1>2. \A w \in Writers : saw[w] \in Doc BY DEF TypeOK
<1>3. Held \subseteq Doc \ {NoDoc} BY <1>1, <1>2 DEF Held, TypeOK
<1> QED BY <1>3, VersionFacts

(* No number is given out ahead of its time, and none twice in a term. *)
LEMMA VersionsNext == ASSUME Inv, [Next]_vars PROVE NothingFromTheFuture' /\ VersionsAreUnique'
<1>1. /\ TypeOK /\ TypeOK' /\ NothingFromTheFuture /\ VersionsAreUnique
  BY TypeNext DEF Inv
<1>2. nextSeq \in Nat /\ term \in Nat /\ nextSeq' \in Nat /\ term' \in Nat
  BY <1>1 DEF TypeOK
<1>3. \A v \in Held : v.seq \in Nat /\ v.term \in Nat BY <1>1, HeldAreVersions
<1>4. NoDoc \notin Held' BY DEF Held
<1>5. CASE doc' \in Held \cup {NoDoc} /\ term' = term /\ nextSeq' >= nextSeq
  <2>1. Held' \subseteq Held BY <1>4, <1>5, HeldNext
  <2> QED
    BY <1>1, <1>2, <1>3, <1>5, <2>1 DEF NothingFromTheFuture, VersionsAreUnique
<1>6. CASE doc' \in Held \cup {NoDoc} /\ term' = term + 1
  <2>1. Held' \subseteq Held BY <1>4, <1>6, HeldNext
  <2> QED
    BY <1>1, <1>2, <1>3, <1>6, <2>1 DEF NothingFromTheFuture, VersionsAreUnique
<1>7. CASE doc'.seq = nextSeq /\ doc'.term = term /\ nextSeq' = nextSeq + 1 /\ term' = term
  <2>1. Held' \subseteq Held \cup {doc'} BY HeldNext
  <2>2. \A v \in Held : ~(v.seq = doc'.seq /\ v.term = doc'.term)
    BY <1>1, <1>2, <1>3, <1>7 DEF NothingFromTheFuture
  <2>3. NothingFromTheFuture'
    BY <1>1, <1>2, <1>3, <1>7, <2>1 DEF NothingFromTheFuture
  <2>4. VersionsAreUnique'
    BY <1>1, <2>1, <2>2 DEF VersionsAreUnique
  <2> QED BY <2>3, <2>4
<1> QED BY <1>5, <1>6, <1>7, HeldNext

(* A PUT meets its condition only while what its attempt read is stored. *)
LEMMA MetIsWhatWasRead ==
  ASSUME Inv, NEW p \in puts
  PROVE  Meets(p) <=> doc = p.saw
<1>1. TypeOK /\ VersionsAreUnique BY DEF Inv
<1>2. CASE p.saw = NoDoc BY <1>2 DEF Meets
<1>3. CASE p.saw # NoDoc
  <2>1. p.saw \in Held BY <1>3 DEF Held
  <2>2. doc # NoDoc => doc \in Held BY DEF Held
  <2> QED BY <1>1, <1>3, <2>1, <2>2 DEF Meets, VersionsAreUnique
<1> QED BY <1>2, <1>3

(* The unacknowledged write stays known. *)
LEMMA UnackedNext == ASSUME Inv, [Next]_vars PROVE UnackedIsKnown'
<1>1. TypeOK /\ UnackedIsKnown BY DEF Inv
<1>2. nextSeq \in Nat BY <1>1 DEF TypeOK
<1>3. ASSUME NEW w \in Writers, \/ Get(w) \/ GetFails(w) \/ SkipPut(w) \/ SendPut(w)
                                \/ PutFails(w) \/ Retry(w) \/ GiveUp(w)
      PROVE  UnackedIsKnown'
  <2>1. UNCHANGED <<server, held>> /\ puts \subseteq puts'
    BY <1>3 DEF Get, GetFails, SkipPut, SendPut, PutFails, Retry, GiveUp
  <2> QED BY <1>1, <2>1 DEF UnackedIsKnown, server
<1>4. ASSUME NEW p \in puts, Apply(p) PROVE UnackedIsKnown'
  <2>1. unacked'.put = {p} /\ puts' = puts /\ nextSeq' = nextSeq + 1 /\ nextSeq >= 1
    BY <1>1, <1>4 DEF Apply, UnackedIsKnown
  <2>2. p.writer \in Writers BY <1>1 DEF TypeOK, Put
  <2>3. doc' = [value |-> Want[p.writer], seq |-> nextSeq, term |-> term]
        /\ held' = [w \in Writers |-> held[w] \/ IsStored(Want[w], doc')]
    BY <1>4 DEF Apply, Store
  <2>4. doc' \in Version BY <1>1, <2>2, <2>3, UpsertAssumption DEF TypeOK, Version
  <2>5. IsStored(Want[p.writer], doc') BY <2>3, <2>4, NoDocAssumption DEF IsStored
  <2>6. held'[p.writer] BY <2>2, <2>3, <2>5, Zenon
  <2> QED BY <1>2, <2>1, <2>6 DEF UnackedIsKnown
<1>5. ASSUME NEW p \in puts, Reject(p) \/ Drop(p) PROVE UnackedIsKnown'
  BY <1>1, <1>5 DEF Reject, Drop, UnackedIsKnown, server
<1>6. CASE Acknowledge
  BY <1>1, <1>6 DEF Acknowledge, UnackedIsKnown, None
<1>7. CASE Failover
  <2>1. nextSeq' >= 1 BY <1>1, <1>2, <1>7 DEF Failover, UnackedIsKnown
  <2> QED BY <1>7, <2>1 DEF Failover, UnackedIsKnown, None
<1>8. ASSUME NEW d, Foreign(d) PROVE UnackedIsKnown'
  BY <1>1, <1>2, <1>8 DEF Foreign, UnackedIsKnown, None
<1>9. CASE UNCHANGED vars
  BY <1>1, <1>9 DEF vars, server, UnackedIsKnown
<1> QED BY <1>3, <1>4, <1>5, <1>6, <1>7, <1>8, <1>9, Steps

(* What the server and the network do starts no attempt and sends no PUT. *)
LEMMA ServerSteps ==
  ASSUME Inv,
         \/ \E p \in puts : Apply(p) \/ Reject(p) \/ Drop(p)
         \/ Acknowledge \/ Failover \/ UNCHANGED vars \/ \E d : Foreign(d)
  PROVE  /\ puts' \subseteq puts /\ UNCHANGED <<try, saw>>
         /\ \A w \in Writers : \/ pc'[w] = pc[w]
                               \/ pc[w] = "wait" /\ pc'[w] \in {"conflict", "error", "ok"}
<1>1. TypeOK BY DEF Inv
<1>2. ASSUME NEW p \in puts, Reject(p)
      PROVE  \A w \in Writers : \/ pc'[w] = pc[w]
                                \/ pc[w] = "wait" /\ pc'[w] \in {"conflict", "ok"}
  <2>1. p.writer \in Writers BY <1>1 DEF TypeOK, Put
  <2>2. CASE ~Awaits(p) BY <1>2, <2>2 DEF Reject
  <2>3. CASE Awaits(p)
    <3>1. PICK point \in {"conflict", "ok"} : Go(p.writer, point)
      BY <1>2, <2>3 DEF Reject, OfFailure
    <3>2. pc[p.writer] = "wait" BY <2>3 DEF Awaits
    <3> QED BY <1>1, <2>1, <3>1, <3>2 DEF Go, TypeOK
  <2> QED BY <2>2, <2>3
<1>3. ASSUME Acknowledge
      PROVE  \A w \in Writers : \/ pc'[w] = pc[w]
                                \/ pc[w] = "wait" /\ pc'[w] \in {"error", "ok"}
  <2>1. PICK p \in unacked.put :
          IF Awaits(p) THEN \E point \in OfSuccess(p.writer) : Go(p.writer, point)
          ELSE UNCHANGED pc
    BY <1>3 DEF Acknowledge
  <2>2. p.writer \in Writers BY <1>1 DEF TypeOK, Put
  <2>3. CASE ~Awaits(p) BY <2>1, <2>3
  <2>4. CASE Awaits(p)
    <3>1. PICK point \in {"error", "ok"} : Go(p.writer, point)
      BY <2>1, <2>4 DEF OfSuccess
    <3>2. pc[p.writer] = "wait" BY <2>4 DEF Awaits
    <3> QED BY <1>1, <2>2, <3>1, <3>2 DEF Go, TypeOK
  <2> QED BY <2>3, <2>4
<1>4. ASSUME NEW p \in puts, Apply(p) \/ Drop(p) PROVE pc' = pc
  BY <1>4 DEF Apply, Drop, clients
<1>5. Failover \/ UNCHANGED vars \/ (\E d : Foreign(d)) => pc' = pc
  BY DEF Failover, Foreign, vars, clients
<1>6. puts' \subseteq puts /\ UNCHANGED <<try, saw>>
  BY DEF Apply, Reject, Drop, Acknowledge, Failover, Foreign, vars, clients
<1> QED BY <1>2, <1>3, <1>4, <1>5, <1>6

(* A PUT stays one of an attempt that has read. *)
LEMMA AttemptsNext == ASSUME Inv, [Next]_vars PROVE PutsAreOfAttempts'
<1>1. TypeOK /\ PutsAreOfAttempts BY DEF Inv
<1>2. \A p \in puts : p.writer \in Writers /\ p.try \in Nat BY <1>1, UpsertAssumption DEF TypeOK, Put
<1>3. \A w \in Writers : try[w] \in Nat BY <1>1, UpsertAssumption DEF TypeOK
<1>4. ASSUME NEW w \in Writers, Get(w) \/ GetFails(w)
      PROVE  PutsAreOfAttempts'
  <2>1. pc[w] = "get" /\ puts' = puts /\ try' = try BY <1>4 DEF Get, GetFails
  <2>2. \A x \in Writers : x # w => pc'[x] = pc[x] /\ saw'[x] = saw[x]
    BY <1>1, <1>4 DEF Get, GetFails, Go, TypeOK
  <2>3. \A p \in puts : p.writer = w => p.try # try[w] BY <1>1, <2>1 DEF PutsAreOfAttempts
  <2> QED BY <1>1, <1>2, <2>1, <2>2, <2>3 DEF PutsAreOfAttempts
<1>5. ASSUME NEW w \in Writers, SkipPut(w) \/ PutFails(w) \/ GiveUp(w)
      PROVE  PutsAreOfAttempts'
  <2>1. puts' = puts /\ try' = try /\ saw' = saw BY <1>5 DEF SkipPut, PutFails, GiveUp
  <2>2. \A x \in Writers : pc'[x] = pc[x] \/ pc'[x] \notin {"get", "got"}
    BY <1>1, <1>5 DEF SkipPut, PutFails, GiveUp, Go, OfSuccess, OfFailure, TypeOK
  <2> QED BY <1>1, <1>2, <2>1, <2>2 DEF PutsAreOfAttempts
<1>6. ASSUME NEW w \in Writers, SendPut(w) PROVE PutsAreOfAttempts'
  <2>1. /\ puts' = puts \cup {[writer |-> w, try |-> try[w], saw |-> saw[w]]}
        /\ try' = try /\ saw' = saw /\ pc' = [pc EXCEPT ![w] = "wait"]
    BY <1>6 DEF SendPut, Go
  <2>2. pc'[w] = "wait" /\ \A x \in Writers : x # w => pc'[x] = pc[x]
    BY <1>1, <2>1 DEF TypeOK
  <2>3. ASSUME NEW p \in puts
        PROVE  p.try <= try[p.writer] /\ (p.try = try[p.writer] =>
                 p.saw = saw[p.writer] /\ pc'[p.writer] \notin {"get", "got"})
    BY <1>1, <1>2, <2>2 DEF PutsAreOfAttempts
  <2> QED BY <1>3, <2>1, <2>2, <2>3 DEF PutsAreOfAttempts
<1>7. ASSUME NEW w \in Writers, Retry(w) PROVE PutsAreOfAttempts'
  <2>1. puts' = puts /\ saw' = saw BY <1>7 DEF Retry
  <2>2. try'[w] = try[w] + 1 BY <1>1, <1>7 DEF Retry, TypeOK
  <2>3. \A x \in Writers : x # w => pc'[x] = pc[x] /\ try'[x] = try[x]
    BY <1>1, <1>7 DEF Retry, Go, TypeOK
  <2> QED BY <1>1, <1>2, <1>3, <2>1, <2>2, <2>3 DEF PutsAreOfAttempts
<1>8. ASSUME \/ \E p \in puts : Apply(p) \/ Reject(p) \/ Drop(p)
             \/ Acknowledge \/ Failover \/ UNCHANGED vars \/ \E d : Foreign(d)
      PROVE  PutsAreOfAttempts'
  BY <1>1, <1>2, <1>8, ServerSteps DEF PutsAreOfAttempts
<1> QED BY <1>4, <1>5, <1>6, <1>7, <1>8, Steps

(* No PUT is sent for what its attempt found stored. *)
LEMMA PurposeNext == ASSUME Inv, [Next]_vars PROVE PutsHaveAPurpose'
<1>1. PutsHaveAPurpose BY DEF Inv
<1>2. ASSUME puts' \subseteq puts PROVE PutsHaveAPurpose'
  BY <1>1, <1>2 DEF PutsHaveAPurpose, Unchanged, IsStored
<1>3. ASSUME NEW w \in Writers, SendPut(w) PROVE PutsHaveAPurpose'
  BY <1>1, <1>3 DEF SendPut, PutsHaveAPurpose, Unchanged, IsStored
<1>4. ASSUME NEW w \in Writers,
             Get(w) \/ GetFails(w) \/ SkipPut(w) \/ PutFails(w) \/ Retry(w) \/ GiveUp(w)
      PROVE  puts' = puts
  BY <1>4 DEF Get, GetFails, SkipPut, PutFails, Retry, GiveUp
<1> QED BY <1>2, <1>3, <1>4, ServerSteps, Steps

(* How the stored policy may change, and what is known of it then. *)
LEMMA StoreSteps ==
  ASSUME Inv, [Next]_vars
  PROVE  \/ UNCHANGED <<doc, held, changes>>
         \/ /\ changes' = changes + 1
            /\ \A w \in Writers : held'[w] <=> held[w] \/ IsStored(Want[w], doc')
<1>1. ASSUME NEW d, Store(d)
      PROVE  /\ changes' = changes + 1
             /\ \A w \in Writers : held'[w] <=> held[w] \/ IsStored(Want[w], doc')
  BY <1>1, Zenon DEF Store
<1>2. ASSUME NEW w \in Writers, \/ Get(w) \/ GetFails(w) \/ SkipPut(w) \/ SendPut(w)
                                \/ PutFails(w) \/ Retry(w) \/ GiveUp(w)
      PROVE  UNCHANGED <<doc, held, changes>>
  BY <1>2 DEF Get, GetFails, SkipPut, SendPut, PutFails, Retry, GiveUp, server
<1>3. ASSUME NEW p \in puts, Reject(p) \/ Drop(p) PROVE UNCHANGED <<doc, held, changes>>
  BY <1>3 DEF Reject, Drop, server
<1>4. ASSUME NEW p \in puts, Apply(p) PROVE \E d : Store(d) BY <1>4 DEF Apply
<1>5. ASSUME NEW d, Foreign(d) PROVE Store(d) BY <1>5 DEF Foreign
<1>6. Acknowledge \/ UNCHANGED vars => UNCHANGED <<doc, held, changes>>
  BY DEF Acknowledge, vars, server
<1>7. Failover => UNCHANGED <<doc, held, changes>> \/ \E d : Store(d) BY DEF Failover
<1> QED BY <1>1, <1>2, <1>3, <1>4, <1>5, <1>6, <1>7, Steps

(* Where an invocation that has read, and one that reports success, come from. *)
LEMMA PointSteps ==
  ASSUME Inv, [Next]_vars, NEW w \in Writers
  PROVE  /\ pc'[w] = "got" => \/ saw'[w] = doc /\ UNCHANGED <<doc, changes, conflicts>>
                              \/ pc[w] = "got" /\ saw'[w] = saw[w]
         /\ pc'[w] = "wait" => pc[w] \in {"got", "wait"} /\ saw'[w] = saw[w]
         /\ pc'[w] = "ok" /\ w \notin SuccessWhen =>
              \/ pc[w] = "ok"
              \/ pc[w] = "got" /\ IsStored(Want[w], saw[w])
              \/ \E p \in unacked.put : p.writer = w
<1>1. TypeOK BY DEF Inv
<1> DEFINE Goal ==
      /\ pc'[w] = "got" => \/ saw'[w] = doc /\ UNCHANGED <<doc, changes, conflicts>>
                           \/ pc[w] = "got" /\ saw'[w] = saw[w]
      /\ pc'[w] = "wait" => pc[w] \in {"got", "wait"} /\ saw'[w] = saw[w]
      /\ pc'[w] = "ok" /\ w \notin SuccessWhen =>
           \/ pc[w] = "ok"
           \/ pc[w] = "got" /\ IsStored(Want[w], saw[w])
           \/ \E p \in unacked.put : p.writer = w
<1>2. ASSUME NEW x \in Writers, Get(x) PROVE Goal
  <2>1. /\ pc' = [pc EXCEPT ![x] = "got"] /\ saw' = [saw EXCEPT ![x] = doc]
        /\ UNCHANGED <<doc, changes, conflicts>>
    BY <1>2 DEF Get, Go, server
  <2> QED BY <1>1, <2>1 DEF TypeOK
<1>3. ASSUME NEW x \in Writers, SendPut(x) \/ Retry(x) \/ GiveUp(x)
      PROVE  Goal
  BY <1>1, <1>3 DEF SendPut, Retry, RetryPoint, GiveUp, Go, TypeOK
<1>4. ASSUME NEW x \in Writers, GetFails(x) \/ PutFails(x) PROVE Goal
  <2>1. PICK point \in OfFailure(x, "error") : Go(x, point) /\ saw' = saw
    BY <1>4 DEF GetFails, PutFails
  <2>2. point = "error" \/ (point = "ok" /\ x \in SuccessWhen) BY DEF OfFailure
  <2> QED BY <1>1, <2>1, <2>2 DEF Go, TypeOK
<1>5. ASSUME NEW x \in Writers, SkipPut(x) PROVE Goal
  <2>1. PICK point \in OfSuccess(x) : Go(x, point) /\ saw' = saw
    BY <1>5 DEF SkipPut
  <2>2. point \in {"ok", "error"} BY DEF OfSuccess
  <2>3. pc[x] = "got" /\ IsStored(Want[x], saw[x]) BY <1>5 DEF SkipPut, Unchanged
  <2> QED BY <1>1, <2>1, <2>2, <2>3 DEF Go, TypeOK
<1>6. CASE Acknowledge
  <2>1. PICK p \in unacked.put :
          IF Awaits(p) THEN \E point \in OfSuccess(p.writer) : Go(p.writer, point)
          ELSE UNCHANGED pc
    BY <1>6 DEF Acknowledge
  <2>2. p.writer \in Writers BY <1>1 DEF TypeOK, Put
  <2>3. saw' = saw BY <1>6 DEF Acknowledge
  <2>4. CASE w # p.writer \/ ~Awaits(p) BY <1>1, <2>1, <2>2, <2>3, <2>4 DEF Go, TypeOK
  <2>5. CASE w = p.writer /\ Awaits(p)
    BY <1>1, <2>1, <2>2, <2>3, <2>5 DEF Go, OfSuccess, TypeOK
  <2> QED BY <2>4, <2>5
<1>7. ASSUME NEW p \in puts, Reject(p) PROVE Goal
  <2>1. p.writer \in Writers /\ saw' = saw BY <1>1, <1>7 DEF TypeOK, Put, Reject
  <2>2. CASE ~Awaits(p) BY <1>7, <2>1, <2>2 DEF Reject
  <2>3. CASE Awaits(p)
    <3>1. PICK point \in OfFailure(p.writer, "conflict") : Go(p.writer, point)
      BY <1>7, <2>3 DEF Reject
    <3>2. point = "conflict" \/ (point = "ok" /\ p.writer \in SuccessWhen)
      BY DEF OfFailure
    <3> QED BY <1>1, <2>1, <3>1, <3>2 DEF Go, TypeOK
  <2> QED BY <2>2, <2>3
<1>8. ASSUME \/ \E p \in puts : Apply(p) \/ Drop(p)
             \/ Failover \/ UNCHANGED vars \/ \E d : Foreign(d)
      PROVE  Goal
  <2>1. saw' = saw BY <1>8, ServerSteps
  <2>2. pc' = pc
    BY <1>8 DEF Apply, Drop, Failover, Foreign, vars, clients
  <2> QED BY <2>1, <2>2
<1> QED BY <1>2, <1>3, <1>4, <1>5, <1>6, <1>7, <1>8, Steps

(* What an invocation wants and has seen stays held. *)
LEMMA StoredNext == ASSUME Inv, [Next]_vars PROVE StoredIsHeld'
<1>1. StoredIsHeld /\ UnackedIsKnown BY DEF Inv
<1>2. \A w \in Writers : held[w] => held'[w] BY StoreSteps
<1>3. \A w \in Writers : IsStored(Want[w], doc') => held'[w]
  BY <1>1, StoreSteps DEF StoredIsHeld
<1>4. ASSUME NEW w \in Writers, pc'[w] = "got", IsStored(Want[w], saw'[w]) PROVE held'[w]
  BY <1>1, <1>2, <1>4, PointSteps DEF StoredIsHeld
<1>5. ASSUME NEW w \in Writers \ SuccessWhen, pc'[w] = "ok" PROVE held'[w]
  BY <1>1, <1>2, <1>5, PointSteps DEF StoredIsHeld, UnackedIsKnown
<1> QED BY <1>3, <1>4, <1>5 DEF StoredIsHeld, IsStored

(* A conflict takes a change that happened since the attempt has read. *)
LEMMA ConflictsNext == ASSUME Inv, [Next]_vars PROVE ConflictsAreCovered'
<1>1. TypeOK /\ ConflictsAreCovered /\ PutsAreOfAttempts BY DEF Inv
<1>2. /\ changes \in Nat /\ \A w \in Writers : conflicts[w] \in Nat
      /\ changes' \in Nat /\ \A w \in Writers : conflicts'[w] \in Nat
  BY <1>1, TypeNext DEF TypeOK
<1>3. (UNCHANGED <<doc, changes>>) \/ changes' = changes + 1 BY StoreSteps
<1>4. CASE conflicts' = conflicts
  <2>1. ASSUME NEW w \in Writers, pc'[w] \in {"got", "wait"}, conflicts'[w] = changes'
        PROVE  saw'[w] = doc'
    <3>1. UNCHANGED <<doc, changes>> BY <1>1, <1>2, <1>3, <1>4, <2>1 DEF ConflictsAreCovered
    <3> QED BY <1>1, <1>4, <2>1, <3>1, PointSteps DEF ConflictsAreCovered
  <2>2. \A w \in Writers : conflicts'[w] <= changes'
    BY <1>1, <1>2, <1>3, <1>4 DEF ConflictsAreCovered
  <2> QED BY <2>1, <2>2 DEF ConflictsAreCovered
<1>5. CASE conflicts' # conflicts
  <2>1. PICK p \in puts : Reject(p) /\ Awaits(p)
    BY <1>5, Steps
    DEF Get, GetFails, SkipPut, SendPut, PutFails, Retry, GiveUp, Apply, Reject, Drop,
        Acknowledge, Failover, Foreign, vars
  <2>2. p.writer \in Writers BY <1>1 DEF TypeOK, Put
  <2> DEFINE x == p.writer
  <2>3. doc # p.saw BY <2>1, MetIsWhatWasRead DEF Reject
  <2>4. p.saw = saw[x] /\ pc[x] = "wait" BY <1>1, <2>1 DEF Awaits, PutsAreOfAttempts
  <2>5. conflicts[x] < changes
    BY <1>1, <1>2, <2>2, <2>3, <2>4 DEF ConflictsAreCovered
  <2>6. /\ conflicts' = [conflicts EXCEPT ![x] = @ + 1]
        /\ \E point \in {"conflict", "ok"} : pc' = [pc EXCEPT ![x] = point]
        /\ UNCHANGED <<doc, saw, changes>>
    BY <2>1 DEF Reject, Go, OfFailure, server
  <2>7. conflicts'[x] = conflicts[x] + 1 /\ pc'[x] \in {"conflict", "ok"}
    BY <1>1, <2>2, <2>6 DEF TypeOK
  <2>8. \A w \in Writers : w # x => conflicts'[w] = conflicts[w] /\ pc'[w] = pc[w]
    BY <1>1, <2>6 DEF TypeOK
  <2> HIDE DEF x
  <2> QED BY <1>1, <1>2, <2>5, <2>6, <2>7, <2>8 DEF ConflictsAreCovered
<1> QED BY <1>4, <1>5

(* The invariant holds in every reachable state. *)
THEOREM Invariance == Spec => []Inv
<1>1. Inv /\ [Next]_vars => Inv'
  BY TypeNext, VersionsNext, UnackedNext, AttemptsNext, PurposeNext, StoredNext, ConflictsNext
  DEF Inv
<1> QED BY <1>1, InvInit, PTL DEF Spec

-----------------------------------------------------------------------------
(* What follows *)

(* The step by which the server takes a PUT. *)
LEMMA Taken ==
  ASSUME Inv, [Next]_vars, NEW p \in puts, unacked = None, unacked'.put = {p}
  PROVE  Apply(p)
<1>1. p \notin None.put BY DEF None
<1>2. unacked' # unacked /\ unacked' # None BY <1>1
<1>3. PICK q \in puts : Apply(q)
  BY <1>2, Steps
  DEF Get, GetFails, SkipPut, SendPut, PutFails, Retry, GiveUp, Reject, Drop,
      Acknowledge, Failover, Foreign, vars, server
<1>4. unacked'.put = {q} BY <1>3 DEF Apply
<1> QED BY <1>3, <1>4

(* No update is lost: whatever other tools, lost answers and failovers do in   *)
(* between, a PUT that the server takes replaces what its attempt read        *)
(* (upsert.go:89-98).                                                         *)
THEOREM NoLostUpdate == Spec => ReplacesOnlyWhatItRead
<1>1. Inv /\ [Next]_vars =>
        [\A p \in puts : unacked = None /\ unacked'.put = {p} => doc = p.saw]_vars
  <2> SUFFICES ASSUME Inv, [Next]_vars, NEW p \in puts, unacked = None, unacked'.put = {p}
               PROVE  doc = p.saw
    OBVIOUS
  <2>1. Meets(p) BY Taken DEF Apply
  <2> QED BY <2>1, MetIsWhatWasRead
<1> QED BY <1>1, Invariance, PTL DEF Spec, ReplacesOnlyWhatItRead

(* No retry repeats what is already done (upsert.go:73-76).                   *)
THEOREM NoRepeatedWrite == Spec => NeverRewritesTheSame
<1>1. Inv /\ [Next]_vars =>
        [\A p \in puts :
           /\ unacked = None /\ unacked'.put = {p}
           /\ p.writer \notin Forced /\ Want[p.writer] \notin Defaulted
           => ~IsStored(Want[p.writer], doc)]_vars
  <2> SUFFICES ASSUME Inv, [Next]_vars, NEW p \in puts, unacked = None, unacked'.put = {p},
                      p.writer \notin Forced, Want[p.writer] \notin Defaulted
               PROVE  ~IsStored(Want[p.writer], doc)
    OBVIOUS
  <2>1. doc = p.saw BY Taken, MetIsWhatWasRead DEF Apply
  <2> QED BY <2>1 DEF Inv, PutsHaveAPurpose, Unchanged
<1> QED BY <1>1, Invariance, PTL DEF Spec, NeverRewritesTheSame

(* An invocation without --success-when that ends with 0 had its policy stored, *)
(* whatever else judged its responses (docs/cli.md:95-105).                    *)
THEOREM SuccessCorrect == Spec => []SuccessMeansStored
<1>1. Inv => SuccessMeansStored BY DEF Inv, StoredIsHeld, SuccessMeansStored
<1> QED BY <1>1, Invariance, PTL

(* No invocation gets a 409 that no change of the policy accounts for          *)
(* (docs/retry.md:70-74).                                                     *)
THEOREM ConflictsCorrect == Spec => []ConflictsAreReal
<1>1. Inv => ConflictsAreReal BY DEF Inv, ConflictsAreCovered, ConflictsAreReal
<1> QED BY <1>1, Invariance, PTL

=============================================================================
