------------------------------- MODULE MCUpsert -------------------------------
(* Upsert with two invocations of two attempts each, for different policies:    *)
(* one with --retry-when, one with --force and --success-when.                *)
EXTENDS Upsert, TLC

CONSTANTS a, b, w1, w2

MCWant == w1 :> a @@ w2 :> b
=============================================================================
