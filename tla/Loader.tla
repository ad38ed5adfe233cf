-------------------------------- MODULE Loader --------------------------------
(***************************************************************************)
(* Load (internal/runbook/runbook.go): from a YAML document to the calls   *)
(* that osapi run executes, one action per step of Load and one call of    *)
(* loader.call per element of calls:.                                      *)
(***************************************************************************)
EXTENDS RunbookDocument

VARIABLES
  doc,        \* the document
  phase,      \* the next step of Load, or its verdict
  declared,   \* loader.declared: where each capture was declared
  inherited,  \* loader.defaults.Query, which every call is layered onto
  calls,      \* the calls loaded so far
  error       \* the check that failed

vars == <<doc, phase, declared, inherited, calls, error>>

Call == [name : CallNames, path : Texts, query : Partial(QueryKeys, Texts),
         headers : Partial(Spellings, Texts), body : Optional(Texts), tolerate : BOOLEAN,
         abortOn : SUBSET Codes, retryOn : SUBSET Codes, capture : Seq(Names)]

CapDecl == [call : CallNames, tolerate : BOOLEAN]

Errors == {"none", "yaml", "documents", "defaults", "empty", "duplicateName", "shape",
           "keys", "decode", "name", "path", "method", "capture", "references", "file",
           "bodyReferences", "config", "predicate", "duplicateCapture"}

TypeOK ==
  /\ doc \in Document
  /\ phase \in {"decode", "defaults", "shape", "names", "call", "loaded", "rejected"}
  /\ declared \in Partial(Names, CapDecl)
  /\ inherited \in Partial(QueryKeys, Texts)
  /\ calls \in Seq(Call)
  /\ error \in Errors

Init ==
  /\ doc \in Documents
  /\ phase = "decode"
  /\ declared = <<>>
  /\ inherited = doc.defaults.query
  /\ calls = <<>>
  /\ error = "none"

Reject(why) == /\ phase' = "rejected"
               /\ error' = why
               /\ UNCHANGED <<doc, declared, inherited, calls>>

Proceed(next) == /\ phase' = next
                 /\ UNCHANGED <<doc, declared, inherited, calls, error>>

-----------------------------------------------------------------------------
(* The document *)

Decode ==
  /\ phase = "decode"
  /\ IF doc.fault # "none" THEN Reject(doc.fault) ELSE Proceed("defaults")

BothLists(abortOn, retryOn) == abortOn # {} /\ retryOn # {}

List(codes) == IF codes = Absent THEN {} ELSE codes

(* The defaults are checked like a call, references excepted. *)
LoadDefaults ==
  /\ phase = "defaults"
  /\ IF \/ doc.defaults.fault # "none"
        \/ BothLists(List(doc.defaults.abortOn), List(doc.defaults.retryOn))
       THEN Reject("defaults")
       ELSE Proceed("shape")

CheckShape ==
  /\ phase = "shape"
  /\ IF doc.calls = <<>> THEN Reject("empty") ELSE Proceed("names")

(* rejectDuplicateNames compares what rawStringField reads. *)
SameName(c, d) == c.raw # Absent /\ c.raw = d.raw

CheckNames ==
  /\ phase = "names"
  /\ IF \E i, j \in DOMAIN doc.calls : i # j /\ SameName(doc.calls[i], doc.calls[j])
       THEN Reject("duplicateName")
       ELSE Proceed("call")

-----------------------------------------------------------------------------
(* One call, layered onto the defaults *)

Layer(own, default) == IF own = Absent THEN default ELSE own

Tolerates(c) == Layer(c.own.tolerate, doc.defaults.tolerate) = TRUE

(* A call's own retry-on drops an inherited abort-on, and the other way round. *)
LayerList(own, other, default) ==
  IF own = Absent /\ other # Absent THEN {} ELSE List(Layer(own, default))

AbortOn(c) == LayerList(c.own.abortOn, c.own.retryOn, doc.defaults.abortOn)
RetryOn(c) == LayerList(c.own.retryOn, c.own.abortOn, doc.defaults.retryOn)

LayeredQuery(c) ==
  [k \in DOMAIN c.own.query \cup DOMAIN inherited |->
     IF k \in DOMAIN c.own.query THEN c.own.query[k] ELSE inherited[k]]

FaultyInheritedAfter(c) ==      \* no clone: yaml.v3 fills a map that is there in place
  IF DOMAIN inherited = {} THEN inherited ELSE LayeredQuery(c)

(* item.Decode writes the parameters of the call into a clone of the          *)
(* inherited ones, and leaves those for the next call.                        *)
InheritedAfter(c) == inherited

LayeredBody(c) == Layer(c.own.body, doc.defaults.body)

CanonicalKeys(h) == {Canonical[k] : k \in DOMAIN h}

FaultyHeaderOverridden(c, k) == k \in DOMAIN c.own.headers

HeaderOverridden(c, k) == Canonical[k] \in CanonicalKeys(c.own.headers)

(* mergeHeaders: http.Header.Set for every default and then for every own    *)
(* header.  Of two spellings in one mapping either wins: Go visits a map in   *)
(* any order.                                                                 *)
MergedHeaders(c) ==
  {h \in Partial(Spellings, {c.own.headers[k] : k \in DOMAIN c.own.headers} \cup
                   {doc.defaults.headers[k] : k \in DOMAIN doc.defaults.headers}) :
     /\ DOMAIN h = CanonicalKeys(c.own.headers) \cup CanonicalKeys(doc.defaults.headers)
     /\ \A k \in DOMAIN h :
          IF k \in CanonicalKeys(c.own.headers)
            THEN \E s \in DOMAIN c.own.headers :
                   Canonical[s] = k /\ h[k] = c.own.headers[s]
            ELSE \E s \in DOMAIN doc.defaults.headers :
                   Canonical[s] = k /\ h[k] = doc.defaults.headers[s]}

FaultyRefsResolve(t) == Terminated(t) /\ References(t) \subseteq DOMAIN declared

(* checkRefs: a capture of an earlier call that cannot be left unset. *)
RefsResolve(t) ==
  /\ Terminated(t)
  /\ \A n \in References(t) : n \in DOMAIN declared /\ ~declared[n].tolerate

HeadersResolve(c) ==
  /\ \A k \in DOMAIN c.own.headers : RefsResolve(c.own.headers[k])
  /\ \A k \in DOMAIN doc.defaults.headers :
       HeaderOverridden(c, k) \/ RefsResolve(doc.defaults.headers[k])

QueryResolves(c) == \A k \in DOMAIN LayeredQuery(c) : RefsResolve(LayeredQuery(c)[k])

BodyResolves(c) == LayeredBody(c) # Absent => RefsResolve(LayeredBody(c))

(* Every capture of the call is new, and none is declared twice by it. *)
DeclaresAfresh(c) ==
  /\ Captured(c) \cap DOMAIN declared = {}
  /\ \A i, j \in DOMAIN c.capture : c.capture[i] = c.capture[j] => i = j

(* The checks of loader.call in their order; the first that fails is reported. *)
Checks == <<"shape", "keys", "decode", "name", "path", "method", "capture", "references",
            "file", "bodyReferences", "config", "predicate", "duplicateCapture">>

Passes(c, check) ==
  /\ c.own.fault # check
  /\ check = "name" => c.name # Absent
  /\ check = "path" => c.path # Absent
  /\ check = "references" /\ c.path # Absent =>
       RefsResolve(c.path) /\ QueryResolves(c) /\ HeadersResolve(c)
  /\ check = "bodyReferences" => BodyResolves(c)
  /\ check = "config" => ~BothLists(AbortOn(c), RetryOn(c))
  /\ check = "duplicateCapture" => DeclaresAfresh(c)

Current == doc.calls[Len(calls) + 1]

RejectCall ==
  /\ phase = "call" /\ Len(calls) < Len(doc.calls)
  /\ \E i \in DOMAIN Checks :
       /\ ~Passes(Current, Checks[i])
       /\ \A j \in 1 .. i - 1 : Passes(Current, Checks[j])
       /\ Reject(Checks[i])

FaultyDeclare(c) ==      \* forgets the inherited allow-failure
  declared' = [n \in DOMAIN declared \cup Captured(c) |->
                 IF n \in DOMAIN declared THEN declared[n]
                 ELSE [call |-> c.name, tolerate |-> c.own.tolerate = TRUE]]

Declare(c) ==
  declared' = [n \in DOMAIN declared \cup Captured(c) |->
                 IF n \in DOMAIN declared THEN declared[n]
                 ELSE [call |-> c.name, tolerate |-> Tolerates(c)]]

AcceptCall ==
  /\ phase = "call" /\ Len(calls) < Len(doc.calls)
  /\ \A i \in DOMAIN Checks : Passes(Current, Checks[i])
  /\ \E h \in MergedHeaders(Current) :
       calls' = Append(calls, [name |-> Current.name, path |-> Current.path,
                  query |-> LayeredQuery(Current), headers |-> h,
                  body |-> LayeredBody(Current), tolerate |-> Tolerates(Current),
                  abortOn |-> AbortOn(Current), retryOn |-> RetryOn(Current),
                  capture |-> Current.capture])
  /\ Declare(Current)
  /\ inherited' = InheritedAfter(Current)
  /\ UNCHANGED <<doc, phase, error>>

Finish ==
  /\ phase = "call" /\ Len(calls) = Len(doc.calls)
  /\ Proceed("loaded")

Load == Decode \/ LoadDefaults \/ CheckShape \/ CheckNames \/ RejectCall \/ AcceptCall
        \/ Finish

Loaded == phase \in {"loaded", "rejected"} /\ UNCHANGED vars

Next == Load \/ Loaded

Spec == Init /\ [][Next]_vars

-----------------------------------------------------------------------------
(* The texts a call sends, besides its path, and the names it needs. *)
Sent(c) ==
  {c.query[k] : k \in DOMAIN c.query} \cup {c.headers[k] : k \in DOMAIN c.headers}
  \cup (IF c.body = Absent THEN {} ELSE {c.body})

(* What Runner.Run uses of a call. *)
Resolved(c) ==
  [path |-> c.path, texts |-> Sent(c), tolerate |-> c.tolerate, capture |-> c.capture]

(* Whatever the defaults and the spellings of headers, a runbook that loads   *)
(* has no reference that can be unset when its call runs (docs/runbooks.md:   *)
(* 180-185).                                                                  *)
LoadedIsClosed == Closed([i \in DOMAIN calls |-> Resolved(calls[i])])

(* The texts the call c sends: its own, and the inherited ones that nothing of *)
(* its own overrides.                                                         *)
Ships(c) ==
  {c.path} \cup {c.own.query[k] : k \in DOMAIN c.own.query}
  \cup {doc.defaults.query[k] : k \in DOMAIN doc.defaults.query \ DOMAIN c.own.query}
  \cup {c.own.headers[k] : k \in DOMAIN c.own.headers}
  \cup {doc.defaults.headers[k] : k \in {d \in DOMAIN doc.defaults.headers :
           \A s \in DOMAIN c.own.headers : Canonical[s] # Canonical[d]}}
  \cup (IF LayeredBody(c) = Absent THEN {} ELSE {LayeredBody(c)})

ReferencesAtFault ==
  phase = "rejected" /\ error \in {"references", "bodyReferences"} /\ Current.own.fault # error
  => \E t \in Ships(Current) :
       \/ ~Terminated(t)
       \/ \E n \in References(t) :
            \A j \in DOMAIN calls : n \in Captured(calls[j]) => calls[j].tolerate

ListsAtFault ==
  phase = "rejected" /\ error = "config" /\ Current.own.fault = "none" =>
    Current.own.abortOn # Absent /\ Current.own.retryOn # Absent

(* What is refused is at fault.  A call rejected for its references has one,  *)
(* its own or inherited and not overridden, that no earlier call which must   *)
(* succeed declares, a "${" without an end, or a "${" in a key.  And as       *)
(* abort-on and retry-on layer as a pair (docs/runbooks.md:140-143), a call   *)
(* with one list of its own is never refused because of an inherited one.     *)
RejectedForAReason == ReferencesAtFault /\ ListsAtFault

(* A call has its own parameters and, where it has none of that key, those of *)
(* the document's defaults: nothing of the calls loaded before it, however    *)
(* many there are (runbook.go:352-363).                                       *)
ParametersDoNotLeak ==
  \A i \in DOMAIN calls :
    LET own      == doc.calls[i].own.query
        defaults == doc.defaults.query
    IN /\ DOMAIN calls[i].query = DOMAIN own \cup DOMAIN defaults
       /\ \A k \in DOMAIN own : calls[i].query[k] = own[k]
       /\ \A k \in DOMAIN defaults \ DOMAIN own : calls[i].query[k] = defaults[k]
=============================================================================
