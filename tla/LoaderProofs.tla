----------------------------- MODULE LoaderProofs -----------------------------
(* Proofs about Loader, for every set of documents. *)
EXTENDS LoaderInvariant, TLAPS

(* A partial function is a function from some of the keys. *)
LEMMA PartialFacts ==
  ASSUME NEW keys, NEW values, NEW f
  PROVE  f \in Partial(keys, values) <=>
           DOMAIN f \subseteq keys /\ f \in [DOMAIN f -> values]
  BY DEF Partial

(* Load starts well-typed. *)
LEMMA TypeInit == Init => TypeOK
  <1> SUFFICES ASSUME Init PROVE TypeOK
    OBVIOUS
  <1>1. doc \in Document
    BY DocumentsAssumption DEF Init
  <1>2. declared \in Partial(Names, CapDecl)
    <2>1. DOMAIN declared \subseteq Names /\ declared \in [DOMAIN declared -> CapDecl]
      BY DEF Init
    <2> QED
      BY <2>1, PartialFacts
  <1>3. calls \in Seq(Call)
    BY DEF Init
  <1>4. inherited \in Partial(QueryKeys, Texts)
    BY <1>1 DEF Init, Document, Defaults, Shared
  <1> QED
    BY <1>1, <1>2, <1>3, <1>4 DEF Init, TypeOK, Errors

(* The call that Load is at, and the defaults, are what YAML can give. *)
LEMMA CurrentFacts ==
  ASSUME TypeOK, Len(calls) < Len(doc.calls)
  PROVE  /\ Current \in CallSpec
         /\ doc.defaults \in Shared
         /\ Current.own \in Shared
         /\ Current.capture \in Seq(Names)
         /\ Len(calls) \in Nat
  <1>1. doc.calls \in Seq(CallSpec) /\ doc.defaults \in Shared
    BY DEF TypeOK, Document, Defaults
  <1>2. Len(calls) \in Nat
    BY DEF TypeOK
  <1>3. Current \in CallSpec
    BY <1>1, <1>2 DEF Current
  <1> QED
    BY <1>1, <1>2, <1>3 DEF CallSpec

(* The parameters of a call, layered, have keys and texts of the document. *)
LEMMA QueryType ==
  ASSUME TypeOK, NEW c \in CallSpec, c.own \in Shared
  PROVE  LayeredQuery(c) \in Partial(QueryKeys, Texts)
  <1>1. c.own.query \in Partial(QueryKeys, Texts)
        /\ inherited \in Partial(QueryKeys, Texts)
    BY DEF Shared, TypeOK
  <1>2. /\ DOMAIN c.own.query \subseteq QueryKeys
        /\ c.own.query \in [DOMAIN c.own.query -> Texts]
        /\ DOMAIN inherited \subseteq QueryKeys
        /\ inherited \in [DOMAIN inherited -> Texts]
    BY <1>1, PartialFacts
  <1>3. DOMAIN LayeredQuery(c) \subseteq QueryKeys
        /\ LayeredQuery(c) \in [DOMAIN LayeredQuery(c) -> Texts]
    BY <1>2 DEF LayeredQuery
  <1> QED
    BY <1>3, PartialFacts

(* So do the merged headers. *)
LEMMA HeadersType ==
  ASSUME TypeOK, NEW c \in CallSpec, c.own \in Shared, doc.defaults \in Shared,
         NEW h \in MergedHeaders(c)
  PROVE  h \in Partial(Spellings, Texts)
  <1> DEFINE values == {c.own.headers[k] : k \in DOMAIN c.own.headers} \cup
                       {doc.defaults.headers[k] : k \in DOMAIN doc.defaults.headers}
  <1>1. h \in Partial(Spellings, values)
    BY DEF MergedHeaders
  <1>2. DOMAIN h \subseteq Spellings /\ h \in [DOMAIN h -> values]
    BY <1>1, PartialFacts
  <1>3. c.own.headers \in Partial(Spellings, Texts)
        /\ doc.defaults.headers \in Partial(Spellings, Texts)
    BY DEF Shared
  <1>4. /\ c.own.headers \in [DOMAIN c.own.headers -> Texts]
        /\ doc.defaults.headers \in [DOMAIN doc.defaults.headers -> Texts]
    BY <1>3, PartialFacts
  <1>5. values \subseteq Texts
    BY <1>4
  <1>6. h \in [DOMAIN h -> Texts]
    BY <1>2, <1>5
  <1> QED
    BY <1>2, <1>6, PartialFacts

(* What loader.call appends to the calls. *)
Layered(c, h) ==
  [name |-> c.name, path |-> c.path, query |-> LayeredQuery(c), headers |-> h,
   body |-> LayeredBody(c), tolerate |-> Tolerates(c), abortOn |-> AbortOn(c),
   retryOn |-> RetryOn(c), capture |-> c.capture]

(* A call that passes the checks is a call of the Runner. *)
LEMMA LayeredType ==
  ASSUME TypeOK, NEW c \in CallSpec, doc.defaults \in Shared,
         \A i \in DOMAIN Checks : Passes(c, Checks[i]),
         NEW h \in MergedHeaders(c)
  PROVE  Layered(c, h) \in Call
  <1>1. c.own \in Shared /\ c.capture \in Seq(Names)
        /\ c.name \in Optional(CallNames) /\ c.path \in Optional(Texts)
    BY DEF CallSpec
  <1>2. c.name \in CallNames
    <2>1. Passes(c, "name")
      BY DEF Checks
    <2> QED
      BY <2>1, <1>1 DEF Passes, Optional
  <1>3. c.path \in Texts
    <2>1. Passes(c, "path")
      BY DEF Checks
    <2> QED
      BY <2>1, <1>1 DEF Passes, Optional
  <1>4. LayeredQuery(c) \in Partial(QueryKeys, Texts)
    BY <1>1, QueryType
  <1>5. h \in Partial(Spellings, Texts)
    BY <1>1, HeadersType
  <1>6. LayeredBody(c) \in Optional(Texts)
    BY <1>1 DEF LayeredBody, Layer, Shared
  <1>7. Tolerates(c) \in BOOLEAN
    BY DEF Tolerates
  <1>8. AbortOn(c) \in SUBSET Codes /\ RetryOn(c) \in SUBSET Codes
    BY <1>1 DEF AbortOn, RetryOn, LayerList, Layer, List, Shared, Optional
  <1> QED
    BY <1>1, <1>2, <1>3, <1>4, <1>5, <1>6, <1>7, <1>8 DEF Layered, Call

(* Every text such a call sends was resolved against the earlier calls. *)
LEMMA LayeredResolves ==
  ASSUME TypeOK, NEW c \in CallSpec, doc.defaults \in Shared,
         \A i \in DOMAIN Checks : Passes(c, Checks[i]),
         NEW h \in MergedHeaders(c),
         NEW t \in Sent(Layered(c, h)) \cup {c.path}
  PROVE  RefsResolve(t)
  <1>1. Passes(c, "path") /\ Passes(c, "references") /\ Passes(c, "bodyReferences")
    BY DEF Checks
  <1>2. RefsResolve(c.path) /\ QueryResolves(c) /\ HeadersResolve(c) /\ BodyResolves(c)
    BY <1>1 DEF Passes
  <1>3. CASE t = c.path
    BY <1>2, <1>3
  <1>4. CASE t \in {LayeredQuery(c)[k] : k \in DOMAIN LayeredQuery(c)}
    BY <1>2, <1>4 DEF QueryResolves
  <1>5. CASE t \in {h[k] : k \in DOMAIN h}
    <2>1. PICK k \in DOMAIN h : t = h[k]
      BY <1>5
    <2>2. CASE k \in CanonicalKeys(c.own.headers)
      <3>1. PICK s \in DOMAIN c.own.headers : h[k] = c.own.headers[s]
        BY <2>2 DEF MergedHeaders
      <3> QED
        BY <3>1, <2>1, <1>2 DEF HeadersResolve
    <2>3. CASE k \notin CanonicalKeys(c.own.headers)
      <3>1. PICK s \in DOMAIN doc.defaults.headers :
              Canonical[s] = k /\ h[k] = doc.defaults.headers[s]
        BY <2>3 DEF MergedHeaders
      <3>2. ~HeaderOverridden(c, s)
        BY <3>1, <2>3 DEF HeaderOverridden
      <3> QED
        BY <3>1, <3>2, <2>1, <1>2 DEF HeadersResolve
    <2> QED
      BY <2>2, <2>3
  <1>6. CASE LayeredBody(c) # Absent /\ t = LayeredBody(c)
    BY <1>2, <1>6 DEF BodyResolves
  <1> QED
    BY <1>3, <1>4, <1>5, <1>6 DEF Sent, Layered

(* A call that loader.call accepts leaves everything well-typed. *)
LEMMA TypeAccept ==
  ASSUME TypeOK, AcceptCall
  PROVE  TypeOK'
  <1> DEFINE c == Current
  <1>1. /\ c \in CallSpec /\ doc.defaults \in Shared /\ c.capture \in Seq(Names)
    BY CurrentFacts DEF AcceptCall
  <1>2. \A i \in DOMAIN Checks : Passes(c, Checks[i])
    BY DEF AcceptCall
  <1>3. PICK h \in MergedHeaders(c) : calls' = Append(calls, Layered(c, h))
    BY DEF AcceptCall, Layered
  <1>4. Layered(c, h) \in Call
    BY <1>1, <1>2, LayeredType
  <1>5. calls' \in Seq(Call)
    BY <1>3, <1>4 DEF TypeOK
  <1>6. declared' \in Partial(Names, CapDecl)
    <2>1. DOMAIN declared \subseteq Names /\ declared \in [DOMAIN declared -> CapDecl]
      BY PartialFacts DEF TypeOK
    <2>2. Captured(c) \subseteq Names
      BY <1>1 DEF Captured
    <2>3. c.name \in CallNames
      BY <1>4 DEF Layered, Call
    <2>4. [call |-> c.name, tolerate |-> Tolerates(c)] \in CapDecl
      BY <2>3 DEF CapDecl, Tolerates
    <2>5. declared' = [n \in DOMAIN declared \cup Captured(c) |->
                         IF n \in DOMAIN declared THEN declared[n]
                         ELSE [call |-> c.name, tolerate |-> Tolerates(c)]]
      BY DEF AcceptCall, Declare
    <2>6. DOMAIN declared' \subseteq Names
          /\ declared' \in [DOMAIN declared' -> CapDecl]
      BY <2>1, <2>2, <2>4, <2>5
    <2> QED
      BY <2>6, PartialFacts
  <1>7. inherited' = inherited
    BY DEF AcceptCall, InheritedAfter
  <1> QED
    BY <1>5, <1>6, <1>7 DEF TypeOK, AcceptCall

(* No other step of Load changes what was loaded. *)
LEMMA OtherSteps ==
  ASSUME TypeOK, [Next]_vars, ~AcceptCall
  PROVE  /\ UNCHANGED <<doc, declared, inherited, calls>>
         /\ TypeOK'
  <1> USE DEF TypeOK
  <1>1. CASE Decode
    BY <1>1 DEF Decode, Reject, Proceed, Document, Errors
  <1>2. CASE LoadDefaults
    BY <1>2 DEF LoadDefaults, Reject, Proceed, Errors
  <1>3. CASE CheckShape
    BY <1>3 DEF CheckShape, Reject, Proceed, Errors
  <1>4. CASE CheckNames
    BY <1>4 DEF CheckNames, Reject, Proceed, Errors
  <1>5. CASE RejectCall
    BY <1>5 DEF RejectCall, Reject, Checks, Errors
  <1>6. CASE Finish
    BY <1>6 DEF Finish, Proceed
  <1>7. CASE UNCHANGED vars
    BY <1>7 DEF vars
  <1> QED
    BY <1>1, <1>2, <1>3, <1>4, <1>5, <1>6, <1>7 DEF Next, Load, Loaded

(* Load is well-typed for every set of documents. *)
THEOREM TypeCorrect == Spec => []TypeOK
  <1>1. TypeOK /\ [Next]_vars => TypeOK'
    BY TypeAccept, OtherSteps
  <1> QED
    BY TypeInit, <1>1, PTL DEF Spec

(* The captures of no call are declared yet, and those of the loaded calls    *)
(* stay declared.                                                             *)
LEMMA AcceptKeepsInv ==
  ASSUME Inv, AcceptCall
  PROVE  Inv'
  <1> DEFINE c == Current
             l == Len(calls)
  <1>1. TypeOK /\ TypeOK'
    BY TypeAccept DEF Inv
  <1>2. /\ c \in CallSpec /\ doc.defaults \in Shared
    BY <1>1, CurrentFacts DEF AcceptCall
  <1>3. \A i \in DOMAIN Checks : Passes(c, Checks[i])
    BY DEF AcceptCall
  <1>4. PICK h \in MergedHeaders(c) : calls' = Append(calls, Layered(c, h))
    BY DEF AcceptCall, Layered
  <1> DEFINE new == Layered(c, h)
  <1>5. /\ l \in Nat /\ Len(calls') = l + 1
        /\ \A j \in 1 .. l : calls'[j] = calls[j]
        /\ calls'[l + 1] = new
    BY <1>1, <1>4 DEF TypeOK
  <1>6. 1 .. Len(calls') = 1 .. l \cup {l + 1}
    BY <1>5
  <1>7. /\ new.capture = c.capture /\ new.tolerate = Tolerates(c) /\ new.path = c.path
        /\ Captured(new) = Captured(c)
    BY DEF Layered, Captured
  <1>8. /\ DOMAIN declared' = DOMAIN declared \cup Captured(c)
        /\ \A n \in DOMAIN declared : declared'[n] = declared[n]
        /\ \A n \in Captured(c) \ DOMAIN declared : declared'[n].tolerate = Tolerates(c)
    BY DEF AcceptCall, Declare
  <1>9. Captured(c) \cap DOMAIN declared = {}
    <2>1. Passes(c, "duplicateCapture")
      BY <1>3 DEF Checks
    <2> QED
      BY <2>1 DEF Passes, DeclaresAfresh
  <1>10. Len(calls') <= Len(doc'.calls)
    <2>1. l < Len(doc.calls) /\ doc' = doc
      BY DEF AcceptCall
    <2>2. Len(doc.calls) \in Nat
      BY <1>1 DEF TypeOK, Document
    <2> QED
      BY <2>1, <2>2, <1>5
  <1>11. DeclaredIsCaptured'
    <2>1. ASSUME NEW n \in DOMAIN declared'
          PROVE  \E j \in 1 .. Len(calls') :
                   n \in Captured(calls'[j]) /\ calls'[j].tolerate = declared'[n].tolerate
      <3>1. CASE n \in DOMAIN declared
        <4>1. PICK j \in 1 .. l :
                n \in Captured(calls[j]) /\ calls[j].tolerate = declared[n].tolerate
          BY <3>1 DEF Inv, DeclaredIsCaptured
        <4> QED
          BY <4>1, <3>1, <1>5, <1>6, <1>8
      <3>2. CASE n \notin DOMAIN declared
        <4>1. n \in Captured(new) /\ new.tolerate = declared'[n].tolerate
          BY <3>2, <2>1, <1>7, <1>8
        <4> QED
          BY <4>1, <1>5, <1>6
      <3> QED
        BY <3>1, <3>2
    <2>2. ASSUME NEW j \in 1 .. Len(calls')
          PROVE  Captured(calls'[j]) \subseteq DOMAIN declared'
      <3>1. CASE j \in 1 .. l
        BY <3>1, <1>5, <1>8 DEF Inv, DeclaredIsCaptured
      <3>2. CASE j = l + 1
        BY <3>2, <1>5, <1>7, <1>8
      <3> QED
        BY <3>1, <3>2, <1>6
    <2> QED
      BY <2>1, <2>2 DEF DeclaredIsCaptured
  <1>12. CapturesAreDisjoint'
    <2>1. SUFFICES ASSUME NEW j \in 1 .. Len(calls'), NEW k \in 1 .. Len(calls'),
                          NEW n \in Captured(calls'[j]), n \in Captured(calls'[k])
                   PROVE  j = k
      BY DEF CapturesAreDisjoint
    <2>2. \A i \in 1 .. l : n \in Captured(calls[i]) => n \notin Captured(new)
      BY <1>7, <1>9 DEF Inv, DeclaredIsCaptured
    <2>3. CASE j \in 1 .. l /\ k \in 1 .. l
      BY <2>1, <2>3, <1>5 DEF Inv, CapturesAreDisjoint
    <2>4. CASE j = l + 1 \/ k = l + 1
      BY <2>1, <2>2, <2>4, <1>5, <1>6
    <2> QED
      BY <2>3, <2>4, <1>6
  <1>13. NeedsAreMet'
    <2>1. SUFFICES ASSUME NEW i \in 1 .. Len(calls'), NEW n \in Needs(Resolved(calls'[i]))
                   PROVE  \E j \in 1 .. i - 1 :
                            n \in Captured(calls'[j]) /\ ~calls'[j].tolerate
      BY DEF NeedsAreMet
    <2>2. CASE i \in 1 .. l
      <3>1. PICK j \in 1 .. i - 1 : n \in Captured(calls[j]) /\ ~calls[j].tolerate
        BY <2>1, <2>2, <1>5 DEF Inv, NeedsAreMet
      <3>2. j \in 1 .. l
        BY <2>2, <1>5
      <3> QED
        BY <3>1, <3>2, <1>5
    <2>3. CASE i = l + 1
      <3>1. PICK t \in Sent(new) \cup {c.path} : n \in References(t)
        BY <2>1, <2>3, <1>5, <1>7 DEF Needs, Resolved
      <3>2. RefsResolve(t)
        BY <1>1, <1>2, <1>3, LayeredResolves
      <3>3. n \in DOMAIN declared /\ ~declared[n].tolerate
        BY <3>1, <3>2 DEF RefsResolve
      <3>4. PICK j \in 1 .. l :
              n \in Captured(calls[j]) /\ calls[j].tolerate = declared[n].tolerate
        BY <3>3 DEF Inv, DeclaredIsCaptured
      <3> QED
        BY <3>3, <3>4, <2>3, <1>5
    <2> QED
      BY <2>2, <2>3, <1>6
  <1>14. inherited' = doc'.defaults.query
    BY DEF Inv, AcceptCall, InheritedAfter
  <1> QED
    BY <1>1, <1>10, <1>11, <1>12, <1>13, <1>14 DEF Inv

(* Before the first call nothing is declared. *)
LEMMA InvInit == Init => Inv
  <1> SUFFICES ASSUME Init PROVE Inv
    OBVIOUS
  <1>1. TypeOK
    BY TypeInit
  <1>2. /\ calls = <<>> /\ declared = <<>> /\ Len(doc.calls) \in Nat
        /\ inherited = doc.defaults.query
    BY <1>1 DEF Init, TypeOK, Document
  <1> QED
    BY <1>1, <1>2 DEF Inv, DeclaredIsCaptured, CapturesAreDisjoint, NeedsAreMet

(* Every step of Load keeps what is known of the calls loaded so far. *)
LEMMA InvNext == Inv /\ [Next]_vars => Inv'
  <1> SUFFICES ASSUME Inv, [Next]_vars PROVE Inv'
    OBVIOUS
  <1>1. CASE AcceptCall
    BY <1>1, AcceptKeepsInv
  <1>2. CASE ~AcceptCall
    <2>1. UNCHANGED <<doc, declared, inherited, calls>> /\ TypeOK'
      BY <1>2, OtherSteps DEF Inv
    <2> QED
      BY <2>1 DEF Inv, DeclaredIsCaptured, CapturesAreDisjoint, NeedsAreMet
  <1> QED
    BY <1>1, <1>2

(* What the loader has declared is what its calls capture, no two calls       *)
(* capture a name, and every reference is to an earlier call that must pass.  *)
THEOREM Invariant == Spec => []Inv
  BY InvInit, InvNext, PTL DEF Spec

(* The invariant gives the promise of Load to the Runner, ... *)
LEMMA InvIsClosed == Inv => LoadedIsClosed
  <1> SUFFICES ASSUME Inv PROVE LoadedIsClosed
    OBVIOUS
  <1> DEFINE runbook == [i \in DOMAIN calls |-> Resolved(calls[i])]
  <1>1. Len(calls) \in Nat /\ DOMAIN calls = 1 .. Len(calls)
    BY DEF Inv, TypeOK
  <1>2. DOMAIN runbook = 1 .. Len(calls)
    BY <1>1
  <1>3. \A i \in 1 .. Len(calls) :
          /\ runbook[i] = Resolved(calls[i])
          /\ runbook[i].tolerate = calls[i].tolerate
          /\ Captured(runbook[i]) = Captured(calls[i])
    BY <1>1 DEF Resolved, Captured
  <1>4. SUFFICES ASSUME NEW i \in 1 .. Len(calls), NEW n \in Needs(runbook[i])
                 PROVE  \E j \in 1 .. i - 1 :
                          /\ n \in Captured(runbook[j]) /\ ~runbook[j].tolerate
                          /\ \A k \in 1 .. Len(calls) :
                               n \in Captured(runbook[k]) => k = j
    BY <1>2 DEF LoadedIsClosed, Closed
  <1>5. PICK j \in 1 .. i - 1 : n \in Captured(calls[j]) /\ ~calls[j].tolerate
    BY <1>3, <1>4 DEF Inv, NeedsAreMet
  <1>6. j \in 1 .. Len(calls)
    BY <1>1, <1>5
  <1>7. \A k \in 1 .. Len(calls) : n \in Captured(calls[k]) => k = j
    BY <1>5, <1>6 DEF Inv, CapturesAreDisjoint
  <1> QED
    BY <1>3, <1>5, <1>6, <1>7

(* ... and what was loaded is a runbook. *)
LEMMA InvIsRunbook == Inv => [i \in DOMAIN calls |-> Resolved(calls[i])] \in Seq(Plan)
  <1> SUFFICES ASSUME Inv
               PROVE  [i \in DOMAIN calls |-> Resolved(calls[i])] \in Seq(Plan)
    OBVIOUS
  <1>1. calls \in Seq(Call) /\ Len(calls) \in Nat /\ DOMAIN calls = 1 .. Len(calls)
    BY DEF Inv, TypeOK
  <1>2. ASSUME NEW c \in Call PROVE Resolved(c) \in Plan
    <2>1. /\ c.path \in Texts /\ c.tolerate \in BOOLEAN /\ c.capture \in Seq(Names)
          /\ c.query \in Partial(QueryKeys, Texts)
          /\ c.headers \in Partial(Spellings, Texts)
          /\ c.body \in Optional(Texts)
      BY DEF Call
    <2>2. /\ c.query \in [DOMAIN c.query -> Texts]
          /\ c.headers \in [DOMAIN c.headers -> Texts]
      BY <2>1, PartialFacts
    <2>3. Sent(c) \subseteq Texts
      BY <2>1, <2>2 DEF Sent, Optional
    <2> QED
      BY <2>1, <2>3, TextsAssumption DEF Resolved, Plan
  <1>3. \A i \in 1 .. Len(calls) : Resolved(calls[i]) \in Plan
    BY <1>1, <1>2
  <1> QED
    BY <1>1, <1>3

(* Whatever the document, each name a loaded call needs is captured by exactly *)
(* one call, an earlier one whose failure ends the run.                        *)
THEOREM ClosedCorrect == Spec => []LoadedIsClosed
  BY Invariant, InvIsClosed, PTL

(* Only the end of the last call makes the document loaded. *)
LEMMA WholeNext == TypeOK /\ LoadedIsWhole /\ [Next]_vars => LoadedIsWhole'
  <1> SUFFICES ASSUME TypeOK, LoadedIsWhole, [Next]_vars PROVE LoadedIsWhole'
    OBVIOUS
  <1> USE DEF LoadedIsWhole, Reject, Proceed
  <1>1. CASE Decode \/ LoadDefaults \/ CheckShape \/ CheckNames
    BY <1>1 DEF Decode, LoadDefaults, CheckShape, CheckNames
  <1>2. CASE RejectCall
    BY <1>2 DEF RejectCall
  <1>3. CASE AcceptCall
    BY <1>3 DEF AcceptCall
  <1>4. CASE Finish
    BY <1>4 DEF Finish
  <1>5. CASE UNCHANGED vars
    BY <1>5 DEF vars
  <1> QED
    BY <1>1, <1>2, <1>3, <1>4, <1>5 DEF Next, Load, Loaded

-----------------------------------------------------------------------------
(* Every step keeps it: a call is layered onto the defaults of the document,   *)
(* and leaves them as they were.                                              *)
LEMMA LeakNext == Inv /\ ParametersDoNotLeak /\ [Next]_vars => ParametersDoNotLeak'
  <1> SUFFICES ASSUME Inv, ParametersDoNotLeak, [Next]_vars PROVE ParametersDoNotLeak'
    OBVIOUS
  <1>1. CASE AcceptCall
    <2> DEFINE c == Current
               l == Len(calls)
    <2>1. TypeOK /\ inherited = doc.defaults.query
      BY DEF Inv
    <2>2. PICK h \in MergedHeaders(c) : calls' = Append(calls, Layered(c, h))
      BY <1>1 DEF AcceptCall, Layered
    <2>3. /\ DOMAIN calls' = 1 .. l + 1 /\ l \in Nat
          /\ \A j \in 1 .. l : calls'[j] = calls[j] /\ j \in DOMAIN calls
          /\ calls'[l + 1] = Layered(c, h)
      BY <2>1, <2>2 DEF TypeOK
    <2>4. doc' = doc /\ c = doc.calls[l + 1]
      BY <1>1 DEF AcceptCall, Current
    <2> DEFINE Own(i) == /\ DOMAIN calls'[i].query =
                              DOMAIN doc.calls[i].own.query \cup DOMAIN doc.defaults.query
                         /\ \A k \in DOMAIN doc.calls[i].own.query :
                              calls'[i].query[k] = doc.calls[i].own.query[k]
                         /\ \A k \in DOMAIN doc.defaults.query \ DOMAIN doc.calls[i].own.query :
                              calls'[i].query[k] = doc.defaults.query[k]
    <2>5. ASSUME NEW i \in 1 .. l PROVE Own(i)
      BY <2>3 DEF ParametersDoNotLeak
    <2>6. Own(l + 1)
      <3>1. calls'[l + 1].query = LayeredQuery(c)
        BY <2>3 DEF Layered
      <3> HIDE DEF c
      <3> QED
        BY <2>1, <2>4, <3>1 DEF LayeredQuery
    <2>7. \A i \in 1 .. l + 1 : Own(i)
      BY <2>3, <2>5, <2>6
    <2> QED
      BY <2>3, <2>4, <2>7 DEF ParametersDoNotLeak
  <1>2. CASE ~AcceptCall
    <2>1. UNCHANGED <<doc, declared, inherited, calls>>
      BY <1>2, OtherSteps DEF Inv
    <2> QED
      BY <2>1 DEF ParametersDoNotLeak
  <1> QED
    BY <1>1, <1>2

(* No call has a parameter of another one, for every document, any number of   *)
(* calls and any parameters of theirs.                                        *)
THEOREM LeakCorrect == Spec => []ParametersDoNotLeak
  <1>1. Init => ParametersDoNotLeak
    BY DEF Init, ParametersDoNotLeak
  <1> QED
    BY <1>1, LeakNext, Invariant, PTL DEF Spec

-----------------------------------------------------------------------------
(* A text whose references do not resolve has one that no earlier call that    *)
(* must succeed captures, or has no end.                                      *)
LEMMA UnresolvedIsAtFault ==
  ASSUME Inv, NEW t, ~RefsResolve(t)
  PROVE  \/ ~Terminated(t)
         \/ \E n \in References(t) :
              \A j \in DOMAIN calls : n \in Captured(calls[j]) => calls[j].tolerate
  <1>1. CASE ~Terminated(t)
    BY <1>1
  <1>2. CASE Terminated(t)
    <2>1. PICK n \in References(t) : n \notin DOMAIN declared \/ declared[n].tolerate
      BY <1>2 DEF RefsResolve
    <2>2. DOMAIN calls = 1 .. Len(calls)
      BY DEF Inv, TypeOK
    <2>3. ASSUME NEW j \in DOMAIN calls, n \in Captured(calls[j])
          PROVE  calls[j].tolerate
      <3>1. n \in DOMAIN declared
        BY <2>2, <2>3 DEF Inv, DeclaredIsCaptured
      <3>2. PICK k \in 1 .. Len(calls) :
              n \in Captured(calls[k]) /\ calls[k].tolerate = declared[n].tolerate
        BY <3>1 DEF Inv, DeclaredIsCaptured
      <3>3. k = j
        BY <2>2, <2>3, <3>2 DEF Inv, CapturesAreDisjoint
      <3> QED
        BY <2>1, <3>1, <3>2, <3>3
    <2> QED
      BY <2>3
  <1> QED
    BY <1>1, <1>2

(* A call that fails the check of its references sends a text at fault. *)
LEMMA FailedCheckHasText ==
  ASSUME inherited = doc.defaults.query, NEW c, NEW check \in {"references", "bodyReferences"},
         ~Passes(c, check), c.own.fault # check
  PROVE  \E t \in Ships(c) : ~RefsResolve(t)
  <1>1. CASE check = "bodyReferences"
    <2>1. LayeredBody(c) # Absent /\ ~RefsResolve(LayeredBody(c))
      BY <1>1 DEF Passes, BodyResolves
    <2> QED
      BY <2>1 DEF Ships
  <1>2. CASE check = "references"
    <2>1. ~RefsResolve(c.path) \/ ~QueryResolves(c) \/ ~HeadersResolve(c)
      BY <1>2 DEF Passes
    <2>2. CASE ~RefsResolve(c.path)
      BY <2>2 DEF Ships
    <2>3. CASE ~QueryResolves(c)
      <3>1. PICK k \in DOMAIN LayeredQuery(c) : ~RefsResolve(LayeredQuery(c)[k])
        BY <2>3 DEF QueryResolves
      <3>2. k \in DOMAIN c.own.query \cup DOMAIN doc.defaults.query
        BY DEF LayeredQuery
      <3>3. LayeredQuery(c)[k] = IF k \in DOMAIN c.own.query THEN c.own.query[k]
                                 ELSE doc.defaults.query[k]
        BY <3>2 DEF LayeredQuery
      <3>4. LayeredQuery(c)[k] \in Ships(c)
        BY <3>2, <3>3 DEF Ships
      <3> QED
        BY <3>1, <3>4
    <2>4. CASE ~HeadersResolve(c)
      <3>1. CASE \E k \in DOMAIN c.own.headers : ~RefsResolve(c.own.headers[k])
        BY <3>1 DEF Ships
      <3>2. CASE \E k \in DOMAIN doc.defaults.headers :
                   ~HeaderOverridden(c, k) /\ ~RefsResolve(doc.defaults.headers[k])
        <4>1. PICK k \in DOMAIN doc.defaults.headers :
                ~HeaderOverridden(c, k) /\ ~RefsResolve(doc.defaults.headers[k])
          BY <3>2
        <4>2. \A s \in DOMAIN c.own.headers : Canonical[s] # Canonical[k]
          BY <4>1 DEF HeaderOverridden, CanonicalKeys
        <4>3. doc.defaults.headers[k] \in Ships(c)
          BY <4>2 DEF Ships
        <4> QED
          BY <4>1, <4>3
      <3> QED
        BY <2>4, <3>1, <3>2 DEF HeadersResolve
    <2> QED
      BY <2>1, <2>2, <2>3, <2>4
  <1> QED
    BY <1>1, <1>2

(* Lists layer as a pair: consistent defaults are never the reason why a call  *)
(* with at most one list of its own has both.                                 *)
LEMMA BothListsAreOwn ==
  ASSUME TypeOK, Len(calls) < Len(doc.calls),
         ~BothLists(List(doc.defaults.abortOn), List(doc.defaults.retryOn)),
         BothLists(AbortOn(Current), RetryOn(Current))
  PROVE  Current.own.abortOn # Absent /\ Current.own.retryOn # Absent
  <1> DEFINE own == Current.own
  <1>1. CASE own.abortOn = Absent /\ own.retryOn = Absent
    BY <1>1 DEF AbortOn, RetryOn, LayerList, Layer
  <1>2. CASE own.abortOn = Absent /\ own.retryOn # Absent
    BY <1>2 DEF AbortOn, LayerList, BothLists
  <1>3. CASE own.abortOn # Absent /\ own.retryOn = Absent
    BY <1>3 DEF RetryOn, LayerList, BothLists
  <1> QED
    BY <1>1, <1>2, <1>3

(* The defaults stay consistent once they were found to be. *)
LEMMA DefaultsNext == TypeOK /\ DefaultsAreConsistent /\ [Next]_vars => DefaultsAreConsistent'
  <1> SUFFICES ASSUME TypeOK, DefaultsAreConsistent, [Next]_vars PROVE DefaultsAreConsistent'
    OBVIOUS
  <1> USE DEF DefaultsAreConsistent, Reject, Proceed
  <1>1. CASE Decode
    BY <1>1 DEF Decode
  <1>2. CASE LoadDefaults
    BY <1>2 DEF LoadDefaults
  <1>3. CASE CheckShape
    BY <1>3 DEF CheckShape
  <1>4. CASE CheckNames
    BY <1>4 DEF CheckNames
  <1>5. CASE RejectCall
    BY <1>5 DEF RejectCall
  <1>6. CASE AcceptCall
    BY <1>6 DEF AcceptCall
  <1>7. CASE Finish \/ UNCHANGED vars
    BY <1>7 DEF Finish, vars
  <1> QED
    BY <1>1, <1>2, <1>3, <1>4, <1>5, <1>6, <1>7 DEF Next, Load, Loaded

(* A call is rejected for the check it fails. *)
LEMMA RejectedNext ==
  Inv /\ DefaultsAreConsistent /\ RejectedForAReason /\ [Next]_vars => RejectedForAReason'
  <1> SUFFICES ASSUME Inv, DefaultsAreConsistent, RejectedForAReason, [Next]_vars
               PROVE  RejectedForAReason'
    OBVIOUS
  <1>0. TypeOK
    BY DEF Inv
  <1>1. CASE RejectCall
    <2> DEFINE c == Current
    <2>1. PICK check \in {Checks[i] : i \in DOMAIN Checks} :
            ~Passes(c, check) /\ Reject(check)
      BY <1>1 DEF RejectCall
    <2>2. UNCHANGED <<doc, declared, inherited, calls>> /\ error' = check /\ Current' = Current
      BY <2>1 DEF Reject, Current
    <2>3. Ships(c)' = Ships(c)
      BY <2>2 DEF Ships, LayeredBody, Layer
    <2>4. ReferencesAtFault'
      <3> SUFFICES ASSUME check \in {"references", "bodyReferences"}, c.own.fault # check
                   PROVE  \E t \in Ships(c) :
                            \/ ~Terminated(t)
                            \/ \E n \in References(t) :
                                 \A j \in DOMAIN calls :
                                   n \in Captured(calls[j]) => calls[j].tolerate
        BY <2>2, <2>3 DEF ReferencesAtFault, Ships
      <3>1. PICK t \in Ships(c) : ~RefsResolve(t)
        BY <2>1, FailedCheckHasText DEF Inv
      <3> QED
        BY <3>1, UnresolvedIsAtFault
    <2>5. ListsAtFault'
      <3> SUFFICES ASSUME check = "config", c.own.fault = "none"
                   PROVE  c.own.abortOn # Absent /\ c.own.retryOn # Absent
        BY <2>2 DEF ListsAtFault
      <3>1. BothLists(AbortOn(c), RetryOn(c))
        BY <2>1 DEF Passes
      <3>2. phase = "call" /\ Len(calls) < Len(doc.calls)
        BY <1>1 DEF RejectCall
      <3> QED
        BY <1>0, <3>1, <3>2, BothListsAreOwn DEF DefaultsAreConsistent
    <2> QED
      BY <2>4, <2>5 DEF RejectedForAReason
  <1>2. CASE UNCHANGED vars
    BY <1>2 DEF vars, RejectedForAReason, ReferencesAtFault, ListsAtFault, Current, Ships,
       LayeredBody, Layer
  <1>3. CASE Decode
    <2>1. doc.fault \in {"none", "yaml", "documents"}
      BY <1>0 DEF TypeOK, Document
    <2>2. phase' = "rejected" => error' \in {"yaml", "documents"}
      BY <1>3, <2>1 DEF Decode, Reject, Proceed
    <2> QED
      BY <2>2 DEF RejectedForAReason, ReferencesAtFault, ListsAtFault
  <1>4. CASE LoadDefaults \/ CheckShape \/ CheckNames
    <2>1. phase' = "rejected" => error' \in {"defaults", "empty", "duplicateName"}
      BY <1>4 DEF LoadDefaults, CheckShape, CheckNames, Reject, Proceed
    <2> QED
      BY <2>1 DEF RejectedForAReason, ReferencesAtFault, ListsAtFault
  <1>5. CASE AcceptCall \/ Finish
    <2>1. phase' # "rejected"
      BY <1>5 DEF AcceptCall, Finish, Proceed
    <2> QED
      BY <2>1 DEF RejectedForAReason, ReferencesAtFault, ListsAtFault
  <1> QED
    BY <1>1, <1>2, <1>3, <1>4, <1>5 DEF Next, Load, Loaded

(* Nothing valid is refused: a call rejected for its references has a text at  *)
(* fault, and one rejected for its two lists brought both.                    *)
THEOREM RejectedCorrect == Spec => []RejectedForAReason
  <1>1. Init => RejectedForAReason /\ DefaultsAreConsistent
    BY DEF Init, RejectedForAReason, ReferencesAtFault, ListsAtFault, DefaultsAreConsistent
  <1>2. Inv => TypeOK
    BY DEF Inv
  <1> QED
    BY <1>1, <1>2, DefaultsNext, RejectedNext, Invariant, PTL DEF Spec
=============================================================================
