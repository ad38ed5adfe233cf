------------------------------ MODULE Transport ------------------------------
(***************************************************************************)
(* The OpenSearch client (internal/osclient/client.go): which server a URL *)
(* names, which settings make no client, and what the transport adds to a  *)
(* request.                                                                *)
(***************************************************************************)
EXTENDS Settings

CONSTANTS
  Fold,       \* strings.ToLower on the host names there are
  BadFile     \* a CA bundle that cannot be read or has no certificate

NoPort == 0

(* A URL as url.Parse takes it apart; NoHost is what it finds in "es:9200". *)
URL == [scheme : {"http", "https", "none"}, host : DOMAIN Fold, port : Nat]

DefaultPort == [http |-> 80, https |-> 443, none |-> NoPort]

EffectivePort(u) == IF u.port # NoPort THEN u.port ELSE DefaultPort[u.scheme]

(* parseOrigin, and what matches compares. *)
Origin(u) == [scheme |-> u.scheme, host |-> Fold[u.host], port |-> EffectivePort(u)]

(* New: no scheme, or a CA bundle that is needed and of no use. *)
ClientFails(cfg) ==
  \/ cfg.endpoint.scheme = "none"
  \/ ~cfg.insecure /\ cfg.caCert = BadFile

FaultyAuthenticates(cfg, u) ==     \* takes any port of the host for home
  /\ cfg.username # Empty /\ cfg.password # Empty
  /\ Fold[u.host] = Fold[cfg.endpoint.host]

(* authTransport.RoundTrip, for every request of a chain of redirects anew. *)
Authenticates(cfg, u) ==
  /\ cfg.username # Empty /\ cfg.password # Empty
  /\ Origin(u) = Origin(cfg.endpoint)
=============================================================================
