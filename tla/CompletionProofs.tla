---------------------------- MODULE CompletionProofs ----------------------------
(***************************************************************************)
(* Theorems about Completion, for every OpenAPI document, whatever is      *)
(* typed and whatever names replace the hints.                             *)
(***************************************************************************)
EXTENDS Completion, FiniteSetTheorems, TLAPS

(* A template is a sequence of segments, and not empty. *)
LEMMA PathFacts ==
  ASSUME NEW t \in Paths
  PROVE  /\ t \in DOMAIN Document /\ t \in Seq(Segments) /\ t # <<>>
         /\ Len(t) \in Nat \ {0} /\ DOMAIN t = 1 .. Len(t)
         /\ \A i \in DOMAIN t : t[i] \in Segments
<1>1. t \in DOMAIN Document /\ t \in Seq(Segments) /\ t # <<>>
  BY DocumentAssumption DEF Paths
<1> QED BY <1>1

(* The parameters of a template are finitely many. *)
LEMMA ParamsAreFinite ==
  ASSUME NEW t \in Paths
  PROVE  IsFiniteSet(ParamsOf(t)) /\ Cardinality(ParamsOf(t)) \in Nat
<1>1. ParamsOf(t) \subseteq 1 .. Len(t) /\ Len(t) \in Nat BY PathFacts DEF ParamsOf
<1>2. IsFiniteSet(1 .. Len(t)) BY <1>1, FS_Interval
<1>3. IsFiniteSet(ParamsOf(t)) BY <1>1, <1>2, FS_Subset
<1> QED BY <1>3, FS_CardinalityType

-----------------------------------------------------------------------------
(* The template that is found *)

(* Names that are no segments of the API match a parameter and nothing else:  *)
(* every other template that matches has more parameters.                     *)
LEMMA OthersHaveMore ==
  ASSUME NEW t \in Paths, NEW u \in Paths, t # u, NEW p, DOMAIN p = DOMAIN t,
         Len(u) = Len(t), Matches(u, p),
         \A i \in DOMAIN t : IF t[i] \in Params THEN p[i] \notin Literals \cup {Nothing}
                             ELSE p[i] = t[i]
  PROVE  Better(t, u) /\ ~Better(u, t)
<1>1. DOMAIN u = DOMAIN t BY PathFacts
<1>2. \A i \in DOMAIN u : u[i] \in Params \/ u[i] = p[i] BY DEF Matches
<1>3. \A i \in DOMAIN u : u[i] \in Literals \cup Params \cup {Nothing}
  BY PathFacts DEF Segments
<1>4. ParamsOf(t) \subseteq ParamsOf(u) BY <1>1, <1>2, <1>3 DEF ParamsOf
<1>5. PICK i \in DOMAIN t : t[i] # u[i] /\ ~(t[i] \in Params /\ u[i] \in Params)
  BY PathFacts, DocumentAssumption
<1>6. i \in ParamsOf(u) /\ i \notin ParamsOf(t)
  BY <1>1, <1>2, <1>4, <1>5 DEF ParamsOf
<1>7. Cardinality(ParamsOf(t)) < Cardinality(ParamsOf(u))
  BY <1>4, <1>6, ParamsAreFinite, FS_Subset
<1> QED BY <1>7, ParamsAreFinite DEF Better

(* So the template it was filled from is the one that is found. *)
LEMMA FilledIsFound ==
  ASSUME NEW t \in Paths, NEW values \in [DOMAIN t -> Values], t[Len(t)] # Nothing,
         \A i \in ParamsOf(t) : Fill(t, values)[i] \notin Literals
  PROVE  MatchTemplate(Fill(t, values)) = t
<1> DEFINE p == Fill(t, values)
<1>1. DOMAIN p = DOMAIN t /\ DOMAIN t = 1 .. Len(t) /\ Len(t) \in Nat \ {0}
  BY PathFacts DEF Fill
<1>2. \A i \in DOMAIN t : p[i] = IF t[i] \in Params THEN values[i] ELSE t[i] BY DEF Fill
<1>3. Len(p) = Len(t) BY <1>1 DEF Fill
<1>4. \A i \in DOMAIN t : IF t[i] \in Params THEN p[i] \notin Literals \cup {Nothing}
                          ELSE p[i] = t[i]
  BY <1>2, TypingAssumption DEF ParamsOf
<1>5. p # <<Nothing>>
  <2>1. p[Len(t)] # Nothing BY <1>1, <1>4
  <2>2. <<Nothing>>[1] = Nothing /\ Len(<<Nothing>>) = 1 OBVIOUS
  <2> QED BY <1>3, <2>1, <2>2
<1>6. Matches(t, p) BY <1>2, <1>3 DEF Matches
<1> HIDE DEF p
<1> DEFINE matching == {u \in Paths : Matches(u, p)}
           Best(u) == \A v \in matching : u = v \/ Better(u, v)
<1>7. t \in matching BY <1>6
<1>8. ASSUME NEW u \in matching, u # t PROVE Better(t, u) /\ ~Better(u, t)
  <2>1. Len(u) = Len(t) BY <1>3, <1>8 DEF Matches
  <2> QED BY <1>1, <1>4, <1>8, <2>1, OthersHaveMore
<1>9. MatchTemplate(p) = CHOOSE u \in matching : Best(u)
  BY <1>5, <1>7 DEF MatchTemplate
<1>10. Best(t) BY <1>8
<1>11. \A u \in matching : Best(u) => u = t BY <1>7, <1>8
<1> HIDE DEF matching, Best
<1> QED BY <1>7, <1>9, <1>10, <1>11 DEF p
-----------------------------------------------------------------------------
(* The invariant *)

Shape == typed \in Seq(Segments \cup Parts) /\ Len(typed) >= 1

(* What was printed is what is looked up for the path that was typed. *)
Printed ==
  path # NoPath =>
    /\ Last(typed) # Nothing
    /\ \E values \in [DOMAIN typed -> Values] : path = Fill(typed, values)
    /\ skeleton = BodySkeleton(path, Verb)

Inv == Shape /\ Printed

(* A suggestion is the beginning of a template, as long as what was typed. *)
LEMMA SuggestionIs ==
  ASSUME Shape, NEW v, NEW c \in Suggest(typed, v)
  PROVE  \E t \in Paths \ {<<Nothing>>} :
           /\ Accepts(t, v) /\ Continues(t, typed) /\ c = Candidate(t, Len(typed))
           /\ Len(typed) \in 1 .. Len(t)
           /\ c.segments \in Seq(Segments) /\ Len(c.segments) = Len(typed)
           /\ c.slash <=> (Len(typed) < Len(t) /\ t[Len(typed)] \notin Params)
           /\ \A i \in 1 .. Len(typed) : c.segments[i] = t[i]
<1>1. PICK t \in Paths \ {<<Nothing>>} :
        Accepts(t, v) /\ Continues(t, typed) /\ c = Candidate(t, Len(typed))
  BY DEF Suggest
<1> DEFINE n == Len(typed)
<1>2. n \in Nat /\ n >= 1 BY DEF Shape
<1>3. n <= Len(t) BY <1>1 DEF Continues
<1>4. t \in Seq(Segments) /\ Len(t) \in Nat BY PathFacts
<1> HIDE DEF n
<1>5. /\ SubSeq(t, 1, n) \in Seq(Segments) /\ Len(SubSeq(t, 1, n)) = n
      /\ \A i \in 1 .. n : SubSeq(t, 1, n)[i] = t[i]
  BY <1>2, <1>3, <1>4
<1>6. c.segments = SubSeq(t, 1, n) BY <1>1 DEF Candidate, n
<1>7. c.slash <=> (n < Len(t) /\ t[n] \notin Params) BY <1>1, Zenon DEF Candidate, n
<1> QED BY <1>1, <1>2, <1>3, <1>4, <1>5, <1>6, <1>7 DEF n

(* What the shell inserts is not empty. *)
LEMMA TextIsTyped ==
  ASSUME Shape, NEW v, NEW c \in Suggest(typed, v)
  PROVE  Text(c) \in Seq(Segments \cup Parts) /\ Len(Text(c)) >= 1
<1>1. c.segments \in Seq(Segments) /\ Len(c.segments) = Len(typed) /\ Len(typed) >= 1
  BY SuggestionIs DEF Shape
<1>2. c.segments \in Seq(Segments \cup Parts) BY <1>1
<1>3. Nothing \in Segments \cup Parts BY DEF Segments
<1> QED BY <1>1, <1>2, <1>3 DEF Text

(* Before anything is typed the invariant holds. *)
LEMMA InvInit == Init => Inv
<1>1. <<Nothing>> \in Seq(Segments \cup Parts) /\ Len(<<Nothing>>) = 1 BY DEF Segments
<1> QED BY <1>1 DEF Init, Inv, Shape, Printed

(* Typing and completing keep the invariant. *)
LEMMA InvNext == Inv /\ [Next]_vars => Inv'
<1> SUFFICES ASSUME Inv, [Next]_vars PROVE Inv' OBVIOUS
<1>1. Shape /\ Printed BY DEF Inv
<1>2. CASE Tab
  BY <1>1, <1>2, TextIsTyped DEF Tab, Inv, Shape, Printed
<1>3. CASE TypePart
  <2>1. PICK p \in Parts : typed' = [typed EXCEPT ![Len(typed)] = p] BY <1>3 DEF TypePart
  <2>2. typed' \in Seq(Segments \cup Parts) /\ Len(typed') = Len(typed)
    BY <1>1, <2>1 DEF Shape
  <2> QED BY <1>1, <1>3, <2>2 DEF TypePart, Inv, Shape, Printed
<1>4. CASE TypeSlash
  <2>1. typed' = Append(typed, Nothing) /\ Nothing \in Segments \cup Parts
    BY <1>4 DEF TypeSlash, Segments
  <2>2. typed' \in Seq(Segments \cup Parts) /\ Len(typed') = Len(typed) + 1
    BY <1>1, <2>1 DEF Shape
  <2>3. Len(typed) \in Nat BY <1>1 DEF Shape
  <2> QED BY <1>4, <2>2, <2>3 DEF TypeSlash, Inv, Shape, Printed
<1>5. CASE CompleteVerb
  BY <1>1, <1>5 DEF CompleteVerb, Inv, Shape, Printed
<1>6. CASE PrintSkeleton
  <2>1. Verb' = Verb /\ typed' = typed BY <1>6 DEF PrintSkeleton, Verb
  <2> QED BY <1>1, <1>6, <2>1 DEF PrintSkeleton, Inv, Shape, Printed
<1>7. CASE UNCHANGED vars
  BY <1>1, <1>7 DEF vars, Inv, Shape, Printed, Verb
<1> QED BY <1>2, <1>3, <1>4, <1>5, <1>6, <1>7 DEF Next, Done

(* The invariant holds in every reachable state. *)
THEOREM Invariance == Spec => []Inv
BY InvInit, InvNext, PTL DEF Spec

-----------------------------------------------------------------------------
(* What follows *)

(* The skeleton of a template is what the document says of its operation. *)
LEMMA SkeletonIs ==
  ASSUME NEW t \in Paths, NEW p, MatchTemplate(p) = t, NEW v \in Verbs
  PROVE  BodySkeleton(p, v) = IF v \in DOMAIN Document[t]
                                THEN BodyFields(Document[t][v]) ELSE <<>>
<1> DEFINE op == <<v, t>>
<1>1. op \in DOMAIN Bodies <=> v \in DOMAIN Document[t] BY DEF Bodies
<1>2. op \in DOMAIN Bodies => Bodies[op] = BodyFields(Document[t][v]) BY DEF Bodies
<1> QED BY <1>1, <1>2 DEF BodySkeleton


(* The invariant finds again what was completed. *)
LEMMA InvFinds == Inv => CompletedFindsItself
<1> SUFFICES ASSUME Inv, path # NoPath, typed \in Paths,
                    \A i \in ParamsOf(typed) : path[i] \notin Literals
             PROVE  /\ MatchTemplate(path) = typed
                    /\ skeleton = IF Verb \in DOMAIN Document[typed]
                                    THEN BodyFields(Document[typed][Verb]) ELSE <<>>
  BY DEF CompletedFindsItself
<1>1. PICK values \in [DOMAIN typed -> Values] : path = Fill(typed, values)
  BY DEF Inv, Printed
<1>2. typed[Len(typed)] # Nothing /\ skeleton = BodySkeleton(path, Verb)
  BY DEF Inv, Printed, Last
<1>3. MatchTemplate(path) = typed BY <1>1, <1>2, FilledIsFound
<1>4. CASE Verb \in Verbs BY <1>2, <1>3, <1>4, SkeletonIs
<1>5. CASE Verb \notin Verbs
  <2>1. DOMAIN Document[typed] \subseteq Verbs BY DocumentAssumption, PathFacts
  <2>2. <<Verb, typed>> \notin DOMAIN Bodies BY <1>5 DEF Bodies
  <2> QED BY <1>2, <1>3, <1>5, <2>1, <2>2 DEF BodySkeleton
<1> QED BY <1>3, <1>4, <1>5

(* In every OpenAPI document, a template that was completed and filled with    *)
(* names that are no API segments is the one whose skeleton is printed         *)
(* (apispec.go:26-68).                                                        *)
THEOREM CompletedCorrect == Spec => []CompletedFindsItself
BY InvFinds, Invariance, PTL

(* Below a suggestion with a slash there is something to suggest. *)
LEMMA SlashGoesOn ==
  ASSUME Shape, NEW v, NEW c \in Suggest(typed, v), c.slash
  PROVE  Suggest(Text(c), v) # {}
<1>1. PICK t \in Paths \ {<<Nothing>>} :
        /\ Accepts(t, v) /\ Len(typed) \in 1 .. Len(t)
        /\ c.segments \in Seq(Segments) /\ Len(c.segments) = Len(typed)
        /\ c.slash <=> (Len(typed) < Len(t) /\ t[Len(typed)] \notin Params)
        /\ \A i \in 1 .. Len(typed) : c.segments[i] = t[i]
  BY SuggestionIs
<1> DEFINE n == Len(typed)
           s == c.segments
           x == Append(s, Nothing)
<1>2. n \in Nat /\ n >= 1 BY DEF Shape
<1>3. t \in Seq(Segments) /\ Len(t) \in Nat BY PathFacts
<1>4. Text(c) = x BY DEF Text
<1>5. Nothing \in Segments BY DEF Segments
<1>6. /\ x \in Seq(Segments) /\ Len(x) = n + 1 /\ x[n + 1] = Nothing
      /\ \A i \in 1 .. n : x[i] = t[i]
  <2>1. s \in Seq(Segments) /\ Len(s) = n /\ \A i \in 1 .. n : s[i] = t[i] BY <1>1
  <2> HIDE DEF n, s
  <2>2. x \in Seq(Segments) /\ Len(x) = n + 1 /\ x[n + 1] = Nothing BY <1>2, <1>5, <2>1
  <2>3. ASSUME NEW i \in 1 .. n PROVE x[i] = t[i]
    <3>1. x[i] = s[i] BY <1>2, <2>1, <2>3
    <3> QED BY <2>1, <3>1
  <2> QED BY <2>2, <2>3
<1>7. n + 1 <= Len(t) BY <1>1, <1>2, <1>3
<1> HIDE DEF n, x
<1>8. SubSeq(t, 1, n) = SubSeq(x, 1, n)
  <2> DEFINE a == SubSeq(t, 1, n)
             b == SubSeq(x, 1, n)
  <2>1. a \in Seq(Segments) /\ Len(a) = n /\ \A i \in 1 .. n : a[i] = t[i]
    BY <1>2, <1>3, <1>7
  <2>2. b \in Seq(Segments) /\ Len(b) = n /\ \A i \in 1 .. n : b[i] = x[i]
    BY <1>2, <1>6
  <2> HIDE DEF a, b
  <2> QED BY <1>2, <1>6, <2>1, <2>2
<1>9. t[n + 1] \in Segments BY <1>2, <1>3, <1>7
<1>10. Starts(Nothing, t[n + 1]) BY <1>9, SegmentsAssumption
<1>11. Continues(t, x)
  <2>1. (n + 1) - 1 = n BY <1>2
  <2> QED BY <1>6, <1>7, <1>8, <1>10, <2>1 DEF Continues
<1>12. Candidate(t, Len(x)) \in Suggest(x, v) BY <1>1, <1>11 DEF Suggest
<1> QED BY <1>4, <1>12

(* The invariant leads on. *)
LEMMA ShapeLeadsOn == Shape => CompletionLeadsOn
<1> SUFFICES ASSUME Shape PROVE CompletionLeadsOn OBVIOUS
<1>1. ASSUME NEW t \in Offered, Continues(t, typed)
      PROVE  \E c \in Suggest(typed, verb) : Reaches(t, c.segments)
  <2> DEFINE n == Len(typed)
             c == Candidate(t, n)
  <2>1. t \in Paths \ {<<Nothing>>} /\ Accepts(t, verb) BY DEF Offered, Accepts
  <2>2. c \in Suggest(typed, verb) BY <1>1, <2>1 DEF Suggest
  <2>3. n \in Nat /\ n >= 1 /\ n <= Len(t) BY <1>1 DEF Shape, Continues
  <2>4. t \in Seq(Segments) /\ Len(t) \in Nat BY <2>1, PathFacts
  <2>5. c.segments = SubSeq(t, 1, n) BY DEF Candidate
  <2>6. Len(SubSeq(t, 1, n)) = n
    <3> HIDE DEF n
    <3> QED BY <2>3, <2>4
  <2>7. Reaches(t, c.segments) BY <2>3, <2>5, <2>6 DEF Reaches
  <2> QED BY <2>2, <2>7
<1>2. ASSUME NEW c \in Suggest(typed, verb)
      PROVE  /\ Starts(Last(typed), Last(c.segments))
             /\ c.slash => Last(c.segments) \notin Params /\ Suggest(Text(c), verb) # {}
             /\ ~c.slash => \/ c.segments \in Offered
                            \/ Last(c.segments) \in Params
                               /\ \E t \in Offered : Reaches(t, c.segments)
  <2> DEFINE n == Len(typed)
             s == c.segments
  <2>1. PICK t \in Paths \ {<<Nothing>>} :
          /\ Accepts(t, verb) /\ Continues(t, typed) /\ c = Candidate(t, n)
          /\ n \in 1 .. Len(t)
          /\ s \in Seq(Segments) /\ Len(s) = n
          /\ c.slash <=> (n < Len(t) /\ t[n] \notin Params)
          /\ \A i \in 1 .. n : s[i] = t[i]
    BY SuggestionIs
  <2>2. t \in Seq(Segments) /\ Len(t) \in Nat /\ n \in Nat /\ n >= 1 BY PathFacts DEF Shape
  <2>3. Last(s) = t[n] BY <2>1, <2>2 DEF Last
  <2>4. Starts(Last(typed), Last(s)) BY <2>1, <2>3 DEF Continues, Last
  <2>5. t \in Offered BY <2>1 DEF Offered, Accepts
  <2>6. Reaches(t, s)
    <3>1. s = SubSeq(t, 1, n) BY <2>1 DEF Candidate
    <3> QED BY <2>1, <2>2, <3>1 DEF Reaches
  <2>7. ASSUME c.slash PROVE Last(s) \notin Params /\ Suggest(Text(c), verb) # {}
    BY <2>1, <2>3, <2>7, SlashGoesOn
  <2>8. ASSUME ~c.slash, t[n] \notin Params PROVE s \in Offered
    <3>1. n = Len(t) BY <2>1, <2>2, <2>8
    <3>2. s = t
      <4>1. s \in Seq(Segments) /\ Len(s) = Len(t) /\ \A i \in 1 .. Len(t) : s[i] = t[i]
        BY <2>1, <3>1
      <4> HIDE DEF s, n
      <4> QED BY <2>2, <4>1
    <3> QED BY <2>5, <3>2
  <2> QED BY <2>3, <2>4, <2>5, <2>6, <2>7, <2>8
<1> QED BY <1>1, <1>2 DEF CompletionLeadsOn

(* In every OpenAPI document completion reaches every endpoint and offers no   *)
(* dead end (apispec.go:118-173).                                             *)
THEOREM LeadsOnCorrect == Spec => []CompletionLeadsOn
<1>1. Inv => CompletionLeadsOn BY ShapeLeadsOn DEF Inv
<1> QED BY <1>1, Invariance, PTL


=============================================================================
