--------------------------- MODULE LoaderInvariant ---------------------------
(* What loader.declared knows of the calls loaded so far, strong enough to be *)
(* inductive.                                                                 *)
EXTENDS Loader

(* A declaration is that of a loaded call, and the other way round. *)
DeclaredIsCaptured ==
  /\ \A n \in DOMAIN declared :
       \E j \in 1 .. Len(calls) : /\ n \in Captured(calls[j])
                                  /\ calls[j].tolerate = declared[n].tolerate
  /\ \A j \in 1 .. Len(calls) : Captured(calls[j]) \subseteq DOMAIN declared

CapturesAreDisjoint ==
  \A j, k \in 1 .. Len(calls) :
    \A n \in Captured(calls[j]) : n \in Captured(calls[k]) => j = k

NeedsAreMet ==
  \A i \in 1 .. Len(calls) : \A n \in Needs(Resolved(calls[i])) :
    \E j \in 1 .. i - 1 : n \in Captured(calls[j]) /\ ~calls[j].tolerate

Inv ==
  /\ TypeOK
  /\ inherited = doc.defaults.query
  /\ Len(calls) <= Len(doc.calls)
  /\ DeclaredIsCaptured
  /\ CapturesAreDisjoint
  /\ NeedsAreMet

(* Load ends with every call of the document. *)
LoadedIsWhole == phase = "loaded" => Len(calls) = Len(doc.calls)

(* The defaults were found consistent before the first call is layered on them. *)
DefaultsAreConsistent ==
  phase \in {"shape", "names", "call"} =>
    ~BothLists(List(doc.defaults.abortOn), List(doc.defaults.retryOn))
=============================================================================
