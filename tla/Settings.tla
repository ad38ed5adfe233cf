------------------------------- MODULE Settings -------------------------------
(***************************************************************************)
(* The settings of one invocation (internal/config): each is taken from    *)
(* its flag, the env file, the environment or a default.                   *)
(***************************************************************************)
EXTENDS Sizes

CONSTANTS
  Unset,             \* a flag not given, a variable not exported
  Empty,             \* the empty string
  Malformed,         \* what time.ParseDuration refuses
  DefaultEndpoint,
  DefaultSize        \* DefaultMaxBodyBuffer, a SizeText

ASSUME ValuesAssumption ==
  /\ Unset # Empty
  /\ \A v \in {Unset, Empty} : v # DefaultEndpoint /\ v \notin Int \cup BOOLEAN
  /\ Malformed \notin Int \cup {Unset, Empty}

(* Defaults panics otherwise. *)
ASSUME DefaultSizeAssumption ==
  /\ DefaultSize \in SizeText
  /\ DefaultSize.digits >= 0 /\ DefaultSize.digits * DefaultSize.unit <= MaxInt

EnvKeys == {"endpoint", "username", "password", "timeout"}

Given(v) == v \notin {Unset, Empty}

FaultyLayeredEnv(file, env) ==     \* an empty value in the file hides the environment
  [k \in EnvKeys |-> IF file[k] # Unset THEN file[k] ELSE env[k]]

LayeredEnv(file, env) == [k \in EnvKeys |-> IF Given(file[k]) THEN file[k] ELSE env[k]]

(* An exported but empty variable counts as not set. *)
LookupEnv(env, k) == IF Given(env[k]) THEN env[k] ELSE Unset

Defaults == [endpoint |-> Empty, username |-> Empty, password |-> Empty, timeout |-> 0,
             caCert |-> Empty, insecure |-> FALSE, maxBodyBuffer |-> ParseSize(DefaultSize)]

ApplyEnv(cfg, env) ==
  [k \in DOMAIN cfg |->
     IF k \in EnvKeys /\ LookupEnv(env, k) # Unset THEN LookupEnv(env, k) ELSE cfg[k]]

(* A flag that was given wins, empty or not. *)
ApplyFlags(cfg, flags) == [k \in DOMAIN cfg |-> IF flags[k] # Unset THEN flags[k] ELSE cfg[k]]

Resolved(flags, env) ==
  LET cfg == ApplyFlags(ApplyEnv(Defaults, env), flags)
  IN  [cfg EXCEPT !.endpoint = IF @ = Empty THEN DefaultEndpoint ELSE @]

(* A malformed variable is refused whether or not a flag would win over it, a *)
(* negative timeout only if it is the one that counts.                        *)
ResolveFails(flags, env) ==
  IF LookupEnv(env, "timeout") = Malformed THEN TRUE ELSE Resolved(flags, env).timeout < 0

(* ResolvePassword, where neither flag nor environment has one. *)
NeedsPassword(cfg) == cfg.password = Empty /\ cfg.username # Empty
=============================================================================
