---------------------------- MODULE RunbookDocument ----------------------------
(***************************************************************************)
(* A runbook document after YAML has parsed it (internal/runbook/          *)
(* runbook.go, callSpec).  Every key the control does not depend on        *)
(* (method, retry, backoff, sizes, predicates) is only valid or not: the   *)
(* "fault" of a mapping names the first check it fails.                    *)
(***************************************************************************)
EXTENDS Template, FiniteSets

CONSTANTS
  Absent,       \* a key the mapping does not have
  Documents,    \* the documents that may be loaded
  CallNames,    \* names of calls
  QueryKeys,    \* keys of query parameters
  Spellings,    \* spellings of header names
  Canonical,    \* textproto.CanonicalMIMEHeaderKey
  Codes,        \* status codes
  Texts         \* the texts of paths, bodies, parameters and headers

Partial(keys, values) == UNION {[K -> values] : K \in SUBSET keys}

Optional(S) == S \cup {Absent}

Shared == [query : Partial(QueryKeys, Texts), headers : Partial(Spellings, Texts),
           body : Optional(Texts), tolerate : Optional(BOOLEAN),
           abortOn : Optional(SUBSET Codes), retryOn : Optional(SUBSET Codes),
           fault : {"none", "shape", "keys", "decode", "method", "capture", "references",
                    "file", "config", "predicate"}]

Defaults == Shared

(* raw: the text of the YAML node of name, which for an alias is the anchor  *)
(* and not the name it stands for (rawStringField).                          *)
CallSpec == [raw : Optional(CallNames), name : Optional(CallNames),
             path : Optional(Texts), capture : Seq(Names), own : Shared]

Document == [fault : {"none", "yaml", "documents"}, defaults : Defaults,
             calls : Seq(CallSpec)]

ASSUME TextsAssumption == Texts \subseteq Text

ASSUME DocumentsAssumption == Documents \subseteq Document

Differs(S) == \A value \in S : value # Absent

ASSUME AbsentAssumption ==
  Differs(CallNames) /\ Differs(Texts) /\ Differs(SUBSET Codes) /\ Differs(BOOLEAN)

ASSUME CanonicalAssumption ==
  /\ Canonical \in [Spellings -> Spellings]
  /\ \A s \in Spellings : Canonical[Canonical[s]] = Canonical[s]
=============================================================================
