------------------------------- MODULE Template -------------------------------
(***************************************************************************)
(* Texts with ${name} references (internal/runbook/capture.go) and the     *)
(* rule that keeps a captured value from changing what a path asks for.    *)
(*                                                                         *)
(* A text is what scanTemplate makes of a string: a sequence of pieces.  A *)
(* rendered string is a sequence of characters, of which only the slash,   *)
(* the dot and the other characters a path value may not contain are told  *)
(* apart.  Nothing is rendered twice, so a value with "${" in it is text.  *)
(***************************************************************************)
EXTENDS Naturals, Sequences, SequencesExt

CONSTANT Names  \* names of captures

Chars == {"plain", "dot", "slash", "query", "dollar"}

Char(c)   == [kind |-> "char", is |-> c]
Ref(name) == [kind |-> "ref", is |-> name]

(* "$${" is not a reference, and a "${" without its "}" is an error. *)
Escape == [kind |-> "escape", is |-> "dollar"]
Open   == [kind |-> "open", is |-> "dollar"]

Piece ==
  [kind : {"char"}, is : Chars] \cup {Escape, Open} \cup [kind : {"ref"}, is : Names]

Text == Seq(Piece)

Value == Seq(Chars)

References(t) == {t[i].is : i \in {j \in DOMAIN t : t[j].kind = "ref"}}

Terminated(t) == \A i \in DOMAIN t : t[i].kind # "open"

(* A map without the name gives the empty string. *)
Lookup(store, name) == IF name \in DOMAIN store THEN store[name] ELSE <<>>

Rendered(p, store) == IF p.kind = "ref" THEN Lookup(store, p.is) ELSE <<p.is>>

(* substitute: verbatim, and no value is scanned again. *)
Fill(t, store) ==
  IF t = <<>> THEN <<>> ELSE FlattenSeq([i \in DOMAIN t |-> Rendered(t[i], store)])

-----------------------------------------------------------------------------
(* Paths *)

(* strings.IndexAny(val, "/?#%"); "query" stands for the last three. *)
Unsafe == {"slash", "query"}

(* The segment from i to j of the path p is "." or "..". *)
DotSegment(p, i, j) ==
  /\ \A k \in i .. j : p[k] = "dot"
  /\ j - i < 2
  /\ i = 1 \/ p[i - 1] = "slash"
  /\ j = Len(p) \/ p[j + 1] = "slash"

HasDotSegment(p) == \E i \in 1 .. Len(p) : \E j \in i .. Len(p) : DotSegment(p, i, j)

Safe(value) == \A i \in DOMAIN value : value[i] \notin Unsafe

FaultyPathFills(t, store) ==
  \A n \in References(t) :
    Safe(Lookup(store, n)) /\ ~HasDotSegment(Lookup(store, n))

(* substitutePath: no value may have an unsafe character, and once anything   *)
(* was substituted the whole path is searched for "." and "..".               *)
PathFills(t, store) ==
  /\ \A n \in References(t) : Safe(Lookup(store, n))
  /\ References(t) = {} \/ ~HasDotSegment(Fill(t, store))
-----------------------------------------------------------------------------
(* A call as far as its references go.  texts: the query values, the header   *)
(* values and the body.                                                       *)
Plan == [path : Text, texts : SUBSET Text, tolerate : BOOLEAN, capture : Seq(Names)]

Captured(c) == {c.capture[i] : i \in DOMAIN c.capture}

Needs(c) == UNION {References(t) : t \in c.texts \cup {c.path}}

(* What Load promises and the Runner relies on: every name a call needs is    *)
(* captured by exactly one call, an earlier one whose failure ends the run.   *)
Closed(runbook) ==
  \A i \in DOMAIN runbook : \A n \in Needs(runbook[i]) :
    \E j \in 1 .. i - 1 :
      /\ n \in Captured(runbook[j]) /\ ~runbook[j].tolerate
      /\ \A k \in DOMAIN runbook : n \in Captured(runbook[k]) => k = j
=============================================================================
