------------------------------ MODULE Completion ------------------------------
(***************************************************************************)
(* Typing a command line with completion (internal/cli/completion.go) up   *)
(* to the body skeleton of what was typed (printBodySkeleton): --path is   *)
(* completed segment by segment, hints are replaced by names, and          *)
(* --body-skeleton looks the path up again.                                *)
(***************************************************************************)
EXTENDS Apispec

CONSTANTS
  DefaultVerb,    \* GET, when -X was not given
  MaxSegments     \* bound on the segments that are typed

ASSUME TypingAssumption ==
  DefaultVerb \in Verbs /\ MaxSegments \in Nat /\ Nothing \notin Values

VARIABLES
  verb,      \* -X, or AnyVerb
  typed,     \* --path as typed so far, hints left as they are
  path,      \* --path with its hints replaced
  skeleton   \* the fields of the skeleton that was printed

vars == <<verb, typed, path, skeleton>>

NoPath == <<>>

Init ==
  /\ verb \in Verbs \cup {AnyVerb}
  /\ typed = <<Nothing>>
  /\ path = NoPath
  /\ skeleton = <<>>

Text(c) == IF c.slash THEN Append(c.segments, Nothing) ELSE c.segments

Last(s) == s[Len(s)]

(* The shell inserts a suggestion. *)
Tab ==
  /\ path = NoPath
  /\ \E c \in Suggest(typed, verb) : typed' = Text(c)
  /\ UNCHANGED <<verb, path, skeleton>>

TypePart ==
  /\ path = NoPath /\ Last(typed) = Nothing
  /\ \E p \in Parts : typed' = [typed EXCEPT ![Len(typed)] = p]
  /\ UNCHANGED <<verb, path, skeleton>>

TypeSlash ==
  /\ path = NoPath /\ Len(typed) < MaxSegments /\ Last(typed) # Nothing
  /\ typed' = Append(typed, Nothing)
  /\ UNCHANGED <<verb, path, skeleton>>

(* Completion of --method for what was typed; any verb where it is no template. *)
CompleteVerb ==
  /\ path = NoPath
  /\ verb' \in IF MethodsFor(typed) = {} THEN Verbs ELSE MethodsFor(typed)
  /\ UNCHANGED <<typed, path, skeleton>>

(* Names for the hints, and the command is run. *)
Fill(t, values) == [i \in DOMAIN t |-> IF t[i] \in Params THEN values[i] ELSE t[i]]

Verb == IF verb = AnyVerb THEN DefaultVerb ELSE verb

PrintSkeleton ==
  /\ path = NoPath /\ Last(typed) # Nothing
  /\ \E values \in [DOMAIN typed -> Values] : path' = Fill(typed, values)
  /\ skeleton' = BodySkeleton(path', Verb)
  /\ UNCHANGED <<verb, typed>>

Done == path # NoPath /\ UNCHANGED vars

Next == Tab \/ TypePart \/ TypeSlash \/ CompleteVerb \/ PrintSkeleton \/ Done

Spec == Init /\ [][Next]_vars

-----------------------------------------------------------------------------
Reaches(t, s) == Len(s) <= Len(t) /\ SubSeq(t, 1, Len(s)) = s

Offered ==
  {t \in Paths \ {<<Nothing>>} : verb = AnyVerb \/ verb \in DOMAIN Document[t]}

(* Completion loses no endpoint and offers no dead end.  Whatever has been    *)
(* typed, each endpoint of the verb that goes on like it is ahead of one of   *)
(* the suggestions; a suggestion with a slash has suggestions below it and is *)
(* no hint; one without is an endpoint of the verb, or a hint with endpoints  *)
(* at or below it (docs/cli.md:183-191, apispec.go:116-122).                  *)
CompletionLeadsOn ==
  /\ \A t \in Offered :
       Continues(t, typed) => \E c \in Suggest(typed, verb) : Reaches(t, c.segments)
  /\ \A c \in Suggest(typed, verb) :
       /\ Starts(Last(typed), Last(c.segments))
       /\ c.slash => Last(c.segments) \notin Params /\ Suggest(Text(c), verb) # {}
       /\ ~c.slash => \/ c.segments \in Offered
                      \/ Last(c.segments) \in Params
                         /\ \E t \in Offered : Reaches(t, c.segments)

(* A template that was completed and filled with names finds itself again: no *)
(* other template takes its place, and the skeleton is that of the operation  *)
(* in the OpenAPI document.  A name that is also a segment of the API may     *)
(* find another template (see README).                                        *)
CompletedFindsItself ==
  path # NoPath /\ typed \in Paths
  /\ (\A i \in ParamsOf(typed) : path[i] \notin Literals)
  =>
    /\ MatchTemplate(path) = typed
    /\ skeleton = IF Verb \in DOMAIN Document[typed]
                    THEN BodyFields(Document[typed][Verb]) ELSE <<>>
=============================================================================
