------------------------------- MODULE Apispec -------------------------------
(***************************************************************************)
(* The API tables and what is looked up in them: the generator             *)
(* (internal/apispec/gen), completion of --path and --method, and the body *)
(* skeleton (internal/apispec/apispec.go).                                 *)
(*                                                                         *)
(* A template, a path and what is typed of one are sequences of segments   *)
(* without the leading slash; "/" is <<Nothing>>.  The last segment typed  *)
(* may be the beginning of one, Nothing right after a slash.               *)
(***************************************************************************)
EXTENDS Integers, Sequences, FiniteSets

CONSTANTS
  Literals, Params,     \* the segments of templates: literal, and {param}
  Nothing,              \* the empty segment
  Parts,                \* beginnings of segments that somebody types
  Starts(_, _),         \* Starts(p, s): the segment s starts with p
  Values,               \* what stands for a parameter in a path
  Verbs,                \* HTTP methods
  AnyVerb,              \* -X was not given
  Document,             \* the OpenAPI document: template -> verb -> content entries
  Rank                  \* where sort.Strings puts a template

Segments == Literals \cup Params \cup {Nothing}

(* An entry of an operation's requestBody: whether its media type says JSON,  *)
(* and the names of its schema's properties, none for arrays and free forms.  *)
Content == [json : BOOLEAN, fields : Seq(STRING)]

ASSUME SegmentsAssumption ==
  /\ Literals \cap Params = {} /\ Nothing \notin Literals \cup Params
  /\ \A p \in Segments : Starts(p, p) /\ Starts(Nothing, p)

(* Templates differ in more than the names of their parameters, and sort     *)
(* apart; 472 of them do.                                                     *)
ASSUME DocumentAssumption ==
  /\ \A t \in DOMAIN Document :
       /\ t \in Seq(Segments) /\ t # <<>>
       /\ DOMAIN Document[t] \subseteq Verbs
       /\ \A v \in DOMAIN Document[t] : Document[t][v] \in Seq(Content)
       /\ Rank[t] \in Nat
  /\ \A t, u \in DOMAIN Document :
       t # u => /\ Rank[t] # Rank[u]
                /\ \/ Len(t) # Len(u)
                   \/ \E i \in DOMAIN t :
                        t[i] # u[i] /\ ~(t[i] \in Params /\ u[i] \in Params)

ASSUME AnyVerbAssumption == AnyVerb \notin Verbs

-----------------------------------------------------------------------------
(* gen: writePaths and writeBodies *)

(* Templates without an operation are left out. *)
Paths == {t \in DOMAIN Document : DOMAIN Document[t] # {}}

(* pickJSON: the first entry that says JSON, else the first there is. *)
PickJSON(content) ==
  LET json == {i \in DOMAIN content : content[i].json}
  IN  IF json = {} THEN content[1] ELSE content[CHOOSE i \in json : \A j \in json : i <= j]

BodyFields(content) == IF content = <<>> THEN <<>> ELSE PickJSON(content).fields

(* What is not in the table has no fields. *)
Bodies ==
  [op \in {o \in Verbs \X Paths : o[1] \in DOMAIN Document[o[2]]} |->
     BodyFields(Document[op[2]][op[1]])]

-----------------------------------------------------------------------------
(* Suggest and MethodsFor *)

Accepts(t, verb) == verb = AnyVerb \/ verb \in DOMAIN Document[t]

(* The template's text starts with what is typed. *)
Continues(t, typed) ==
  LET n == Len(typed)
  IN  /\ n <= Len(t)
      /\ SubSeq(t, 1, n - 1) = SubSeq(typed, 1, n - 1)
      /\ Starts(typed[n], t[n])

FaultyCandidate(t, n) ==      \* offers to go on below a parameter
  [segments |-> SubSeq(t, 1, n), slash |-> n < Len(t)]

(* The template up to the segment that is being typed.  A slash says that     *)
(* there is more below; a parameter is a hint to put something in its place.  *)
Candidate(t, n) ==
  [segments |-> SubSeq(t, 1, n), slash |-> n < Len(t) /\ t[n] \notin Params]

Suggest(typed, verb) ==
  {Candidate(t, Len(typed)) :
     t \in {u \in Paths \ {<<Nothing>>} : Accepts(u, verb) /\ Continues(u, typed)}}

MethodsFor(typed) == IF typed \in Paths THEN DOMAIN Document[typed] ELSE {}

-----------------------------------------------------------------------------
(* MatchTemplate and BodySkeleton *)

Matches(t, path) ==
  /\ Len(t) = Len(path)
  /\ \A i \in DOMAIN t : t[i] \in Params \/ t[i] = path[i]

ParamsOf(t) == {i \in DOMAIN t : t[i] \in Params}

FaultyBetter(t, u) == Rank[t] > Rank[u]      \* the last that matches

(* Fewer parameters, and of as many the first of the table. *)
Better(t, u) ==
  \/ Cardinality(ParamsOf(t)) < Cardinality(ParamsOf(u))
  \/ Cardinality(ParamsOf(t)) = Cardinality(ParamsOf(u)) /\ Rank[t] < Rank[u]

NoTemplate == <<>>

MatchTemplate(path) ==
  LET matching == {t \in Paths : Matches(t, path)}
  IN  IF path = <<Nothing>> \/ matching = {} THEN NoTemplate
      ELSE CHOOSE t \in matching : \A u \in matching : t = u \/ Better(t, u)

(* No fields where there is no template, no such operation or no object. *)
BodySkeleton(path, verb) ==
  LET op == <<verb, MatchTemplate(path)>>
  IN  IF op \in DOMAIN Bodies THEN Bodies[op] ELSE <<>>
=============================================================================
