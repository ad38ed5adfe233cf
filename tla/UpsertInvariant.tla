---------------------------- MODULE UpsertInvariant ----------------------------
(* What is known of the versions of a policy that anybody holds, strong enough *)
(* to be inductive.                                                           *)
EXTENDS Upsert

(* The versions in somebody's hands: stored, kept for a failover, read by an   *)
(* invocation, or the condition of a PUT on its way.                          *)
Held ==
  ({doc, unacked.old} \cup {saw[w] : w \in Writers} \cup {p.saw : p \in puts}) \ {NoDoc}

(* A version that may come has a number that nobody holds, in this term. *)
NothingFromTheFuture ==
  \A v \in Held : v.term <= term /\ (v.term = term => v.seq < nextSeq)

(* _seq_no and _primary_term name one version, although a failover gives a    *)
(* number out again.                                                          *)
VersionsAreUnique ==
  \A u, v \in Held : u.seq = v.seq /\ u.term = v.term => u = v

(* The write nobody was told of is on its way, took a number, and was for     *)
(* somebody who knows it held.                                                *)
UnackedIsKnown ==
  /\ unacked.put \subseteq puts
  /\ nextSeq >= 1 /\ (unacked # None => nextSeq >= 2)
  /\ \A p \in unacked.put : held[p.writer]

(* A PUT is of an attempt that its invocation has begun, and of the one it is *)
(* in only when that has read and not yet begun the next.                     *)
PutsAreOfAttempts ==
  \A p \in puts :
    /\ p.try <= try[p.writer]
    /\ p.try = try[p.writer] => p.saw = saw[p.writer] /\ pc[p.writer] \notin {"get", "got"}

(* None is for a policy that its attempt has read already. *)
PutsHaveAPurpose == \A p \in puts : ~Unchanged(p.writer, p.saw)

(* What an invocation wants and has seen is held. *)
StoredIsHeld ==
  /\ \A w \in Writers : IsStored(Want[w], doc) => held[w]
  /\ \A w \in Writers : pc[w] = "got" /\ IsStored(Want[w], saw[w]) => held[w]
  /\ \A w \in Writers \ SuccessWhen : pc[w] = "ok" => held[w]

(* Between its GET and its answer an invocation has a change to its credit,    *)
(* unless what it read is still stored.                                       *)
ConflictsAreCovered ==
  \A w \in Writers :
    /\ conflicts[w] <= changes
    /\ pc[w] \in {"got", "wait"} /\ conflicts[w] = changes => saw[w] = doc

Inv ==
  /\ TypeOK
  /\ NothingFromTheFuture
  /\ VersionsAreUnique
  /\ UnackedIsKnown
  /\ PutsAreOfAttempts
  /\ PutsHaveAPurpose
  /\ StoredIsHeld
  /\ ConflictsAreCovered
=============================================================================
