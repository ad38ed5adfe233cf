------------------------------ MODULE Connection ------------------------------
(***************************************************************************)
(* From the command line to the wire: what every command does before its   *)
(* first request (internal/cli: runRequest, resolveConfig, newISMSession,  *)
(* runISMSet, runISMReapply, runRun), and what the client then makes of    *)
(* one request, its redirects and its retries (internal/osclient:          *)
(* BuildRequest, Replay, authTransport).                                   *)
(*                                                                         *)
(* Preparing does not look at the context: a signal is noticed when the    *)
(* first request is to be sent.                                            *)
(***************************************************************************)
EXTENDS Transport, Sequences

CONSTANTS
  Inputs,         \* command lines, with what they find around them: see Input
  Typed,          \* what the user may type when asked for a password
  Targets,        \* the URLs a server may redirect to
  MaxAttempts,    \* bound on the attempts of a request
  MaxHops,        \* the redirects that net/http follows
  NoRequest,      \* nothing is on the wire
  NoExit          \* the process is running

FaultyOrder(command) ==      \* one order, with the password before the predicates
  <<"name", "runbook", "env", "dryRun", "backoff", "size", "resolve", "password",
    "retryWhen", "successWhen", "client", "body", "policy", "query", "headers", "build">>

(* The steps of each command; those of resolveConfig and newClient go from    *)
(* "backoff" to "client".  "run" builds its requests later, call by call.     *)
Order(command) ==
  CASE command = "request" -> <<"env", "backoff", "size", "resolve", "retryWhen",
                                "successWhen", "password", "client", "body", "query",
                                "headers", "build">>
    [] command = "set"     -> <<"name", "body", "policy", "env", "backoff", "size", "resolve",
                                "retryWhen", "successWhen", "password", "client", "build">>
    [] command = "reapply" -> <<"name", "env", "backoff", "size", "resolve", "retryWhen",
                                "successWhen", "password", "client", "build">>
    [] command = "run"     -> <<"runbook", "env", "dryRun", "resolve", "password", "client">>

Commands == {"request", "set", "reapply", "run"}

Steps == UNION {{Order(c)[i] : i \in DOMAIN Order(c)} : c \in Commands}

ConfigKeys == DOMAIN Defaults

(* faults: the steps whose own argument is refused, such as an env file that  *)
(* is missing or jq that does not compile.  file and env: the variables of    *)
(* the env file and of the process.  tty: stdin is a terminal.  own: a header *)
(* Authorization of -H or of the runbook.                                     *)
Input(x) ==
  /\ x.command \in Commands
  /\ x.faults \subseteq Steps
  /\ DOMAIN x.flags = ConfigKeys \ {"maxBodyBuffer"}
  /\ x.size \in SizeText \cup {Unset}
  /\ x.command = "run" => x.size = Unset      \* it has no such flag
  /\ DOMAIN x.file = EnvKeys /\ DOMAIN x.env = EnvKeys
  /\ x.flags.timeout \in Int \cup {Unset}
  /\ {x.file.timeout, x.env.timeout} \subseteq Int \cup {Unset, Empty, Malformed}
  /\ {x.flags.endpoint, x.file.endpoint, x.env.endpoint} \subseteq URL \cup {Unset, Empty}
  /\ x.tty \in BOOLEAN /\ x.dryRun \in BOOLEAN
  /\ x.own \in BOOLEAN /\ (x.own => x.command \in {"request", "run"})
  /\ x.body \in {"none", "here", "stdin"} /\ x.len \in Nat

ASSUME InputsAssumption == \A x \in Inputs : Input(x)

ASSUME BoundsAssumption == MaxAttempts \in Nat \ {0} /\ MaxHops \in Nat

ASSUME AddressesAssumption ==
  /\ DefaultEndpoint \in URL
  /\ Targets \subseteq URL /\ \A target \in Targets : target.scheme # "none"

ASSUME NoValueAssumption ==
  /\ NoExit \notin 0 .. 130
  /\ \A to \in Targets : NoRequest # to

VARIABLES
  in,         \* the command line
  phase,      \* what the command is at
  at,         \* the number of the step it prepares
  cfg,        \* the settings
  asked,      \* what the user was asked for
  ctx,        \* the context
  attempts,   \* attempts of the request
  to,         \* the URL of the next request: the endpoint or a redirect's
  held,       \* the Authorization that request has before it gets to the transport
  keeps,      \* that request has the method and the body of the first
  hops,       \* redirects followed
  unread,     \* what the body reader of the next request has left
  wire,       \* the last request on the wire
  exit        \* the exit code

sending == <<attempts, to, held, keeps, hops, unread, wire>>
vars == <<in, phase, at, cfg, asked, ctx, sending, exit>>

Init ==
  /\ in \in Inputs
  /\ phase = "prepare" /\ at = 1
  /\ cfg = Defaults
  /\ asked = {}
  /\ ctx = "live"
  /\ attempts = 0 /\ to = DefaultEndpoint /\ held = "none" /\ keeps = TRUE
  /\ hops = 0 /\ unread = 0
  /\ wire = NoRequest
  /\ exit = NoExit

Exit(code) == phase' = "exited" /\ exit' = code

-----------------------------------------------------------------------------
(* Preparing *)

Step == Order(in.command)[at]

Preparing == phase = "prepare" /\ at \in DOMAIN Order(in.command)

Env == LayeredEnv(in.file, in.env)

Size == IF in.size = Unset THEN DefaultSize ELSE in.size

Flags == [k \in ConfigKeys |->
            IF k # "maxBodyBuffer" THEN in.flags[k]
            ELSE IF in.size = Unset THEN Unset ELSE ParseSize(in.size)]

Refused ==
  \/ Step \in in.faults
  \/ Step = "size" /\ ParseSize(Size) = OutOfRange
  \/ Step = "resolve" /\ ResolveFails(Flags, Env)
  \/ Step = "password" /\ NeedsPassword(cfg) /\ ~in.tty
  \/ Step = "client" /\ ClientFails(cfg)

Refuse ==
  /\ Preparing /\ Refused
  /\ Exit(1)
  /\ UNCHANGED <<in, at, cfg, asked, ctx, sending>>

DryRun ==
  /\ Preparing /\ Step = "dryRun" /\ in.dryRun
  /\ Exit(0)
  /\ UNCHANGED <<in, at, cfg, asked, ctx, sending>>

(* What a step needs the user for: the password, and a body from stdin. *)
Needs(what) ==
  \/ what = "prompt" /\ Step = "password" /\ NeedsPassword(cfg)
  \/ what = "stdin" /\ Step = "body" /\ in.body = "stdin"

Pass ==
  /\ Preparing /\ ~Refused
  /\ ~(Step = "dryRun" /\ in.dryRun)
  /\ \A what \in {"prompt", "stdin"} : ~Needs(what)
  /\ at' = at + 1
  /\ cfg' = IF Step = "resolve" THEN Resolved(Flags, Env) ELSE cfg
  /\ UNCHANGED <<in, phase, asked, ctx, sending, exit>>

Ask ==
  /\ Preparing /\ ~Refused
  /\ \E what \in {"prompt", "stdin"} :
       /\ Needs(what)
       /\ phase' = what
       /\ asked' = asked \cup {what}
  /\ UNCHANGED <<in, at, cfg, ctx, sending, exit>>

(* The user may type nothing: the password is empty then, and goes unused. *)
Answer ==
  /\ phase \in {"prompt", "stdin"}
  /\ IF phase = "stdin" THEN UNCHANGED cfg
     ELSE \E text \in Typed : cfg' = [cfg EXCEPT !.password = text]
  /\ phase' = "prepare"
  /\ at' = at + 1
  /\ UNCHANGED <<in, asked, ctx, sending, exit>>

AnswerFails ==
  /\ phase \in {"prompt", "stdin"}
  /\ Exit(1)
  /\ UNCHANGED <<in, at, cfg, asked, ctx, sending>>

-----------------------------------------------------------------------------
(* Sending *)

BodyLen == IF in.body = "none" THEN 0 ELSE in.len

FaultyFresh == unread      \* the reader of the request as it was built

(* Replay and net/http take a new reader from GetBody. *)
Fresh == BodyLen

FaultyBuilt ==         \* the credentials on the request itself
  IF cfg.username # Empty /\ cfg.password # Empty THEN "basic"
  ELSE IF in.own THEN "own" ELSE "none"

(* BuildRequest sets the caller's headers and leaves credentials to the       *)
(* transport.                                                                 *)
Built == IF in.own THEN "own" ELSE "none"

Prepared ==
  /\ phase = "prepare" /\ at \notin DOMAIN Order(in.command)
  /\ phase' = "attempt"
  /\ unread' = BodyLen
  /\ UNCHANGED <<in, at, cfg, asked, ctx, attempts, to, held, keeps, hops, wire, exit>>

(* send takes a clone, so an attempt starts from the request as it was built. *)
Attempt ==
  /\ phase = "attempt"
  /\ phase' = "send"
  /\ attempts' = attempts + 1
  /\ to' = cfg.endpoint /\ held' = Built /\ keeps' = TRUE /\ hops' = 0
  /\ unread' = Fresh
  /\ UNCHANGED <<in, at, cfg, asked, ctx, wire, exit>>

(* RoundTrip sends a clone: what it adds stays off the request that the next  *)
(* redirect is made from.  The body goes out as far as the connection takes   *)
(* it.                                                                        *)
Send ==
  /\ phase = "send" /\ ctx = "live"
  /\ phase' = "await"
  /\ wire' = [to |-> to, keeps |-> keeps, body |-> unread,
              authorization |-> IF Authenticates(cfg, to) THEN "basic" ELSE held]
  /\ unread' \in 0 .. unread
  /\ UNCHANGED <<in, at, cfg, asked, ctx, attempts, to, held, keeps, hops, exit>>

(* What net/http makes of a redirect.  307 and 308 keep method and body, the  *)
(* others end with a bare GET.  The headers go along, Authorization to the    *)
(* same host on any port and by any scheme, to another host at most where     *)
(* that is a subdomain, and once dropped it is gone.                          *)
Redirect ==
  /\ phase = "await" /\ hops < MaxHops
  /\ \E target \in Targets, keep \in BOOLEAN :
       /\ to' = target
       /\ keeps' = (keeps /\ keep)
       /\ unread' = IF keeps /\ keep THEN Fresh ELSE 0
       /\ held' \in IF target.host = cfg.endpoint.host THEN {held} ELSE {held, "none"}
  /\ hops' = hops + 1
  /\ phase' = "send"
  /\ UNCHANGED <<in, at, cfg, asked, ctx, attempts, wire, exit>>

(* An answer or a transport error: which of them is retried is RetryEngine's. *)
Retry ==
  /\ phase = "await" /\ ctx = "live" /\ attempts < MaxAttempts
  /\ phase' = "attempt"
  /\ UNCHANGED <<in, at, cfg, asked, ctx, sending, exit>>

Return ==
  /\ phase = "await"
  /\ \E code \in {0, 1} : Exit(code)
  /\ UNCHANGED <<in, at, cfg, asked, ctx, sending>>

(* The client sends nothing for a context that has ended. *)
Interrupted ==
  /\ phase \in {"send", "await"} /\ ctx # "live"
  /\ Exit(IF ctx = "deadline" THEN 124 ELSE 130)
  /\ UNCHANGED <<in, at, cfg, asked, ctx, sending>>

EndContext(cause) ==
  /\ ctx = "live"
  /\ ctx' = cause
  /\ UNCHANGED <<in, phase, at, cfg, asked, sending, exit>>

Signal == phase # "exited" /\ EndContext("canceled")

(* withTimeout: the clock starts when all is prepared, and 0 is no timeout. *)
Deadline == phase \in {"attempt", "send", "await"} /\ cfg.timeout > 0 /\ EndContext("deadline")

Command ==
  \/ Refuse \/ DryRun \/ Pass \/ Ask \/ Answer \/ AnswerFails
  \/ Prepared \/ Attempt \/ Send \/ Redirect \/ Retry \/ Return \/ Interrupted

Exited == phase = "exited" /\ UNCHANGED vars

Next == Command \/ Signal \/ Deadline \/ Exited

AsksTheUser == phase \in {"prompt", "stdin"}

FaultyWaiting == AsksTheUser \/ phase = "await"

(* For its user without regard to the context, for a server until it ends. *)
Waiting == AsksTheUser \/ (phase = "await" /\ ctx = "live")

Spec == Init /\ [][Next]_vars

FairSpec == Spec /\ WF_vars(Command /\ ~Waiting)

-----------------------------------------------------------------------------
Sending == phase \in {"attempt", "send", "await"}

(* What the command line and its surroundings say of a setting: the first of  *)
(* flag, env file, environment and default that says anything, where an empty *)
(* variable says nothing and an empty flag does.                              *)
Preferred(k) ==
  LET variable(layer) == IF k \in EnvKeys /\ layer[k] # Empty THEN layer[k] ELSE Unset
      said == <<in.flags[k], variable(in.file), variable(in.env), Defaults[k]>>
  IN  said[CHOOSE i \in 1 .. 4 : said[i] # Unset /\ \A j \in 1 .. i - 1 : said[j] = Unset]

(* Every request is sent with the settings that docs/cli.md:136-153 promises. *)
(* A password is asked for only where none was given, a command times out     *)
(* only by the timeout that counts, and settings are refused only for that    *)
(* timeout or for a variable that is none, whatever the flag says.  Where an  *)
(* empty --endpoint hides a variable, see FallsBackOnlyUnset.                 *)
ResolvedByPrecedence ==
  /\ Sending =>
       /\ \A k \in {"username", "timeout", "caCert", "insecure"} : cfg[k] = Preferred(k)
       /\ \/ in.flags.endpoint = Empty /\ Given(Env.endpoint)
          \/ cfg.endpoint = IF Preferred("endpoint") = Empty THEN DefaultEndpoint
                            ELSE Preferred("endpoint")
       /\ IF Preferred("password") = Empty /\ Preferred("username") # Empty
            THEN cfg.password \in Typed
            ELSE cfg.password = Preferred("password")
  /\ exit = 124 => Preferred("timeout") > 0
  /\ phase = "exited" /\ at \in DOMAIN Order(in.command) /\ Step = "resolve" =>
       \/ "resolve" \in in.faults
       \/ IF Given(in.file.timeout) THEN in.file.timeout = Malformed
          ELSE in.env.timeout = Malformed
       \/ Preferred("timeout") < 0

(* Resolve falls back to the default endpoint "only when neither the flag nor *)
(* OPENSEARCH_URL set an endpoint" (config.go:127-128).                       *)
FallsBackOnlyUnset ==
  Sending /\ cfg.endpoint = DefaultEndpoint =>
    \/ DefaultEndpoint \in {in.flags.endpoint, Env.endpoint}
    \/ ~Given(in.flags.endpoint) /\ ~Given(Env.endpoint)

(* A size counts for as many bytes as it says or is refused, and then it is   *)
(* one that no int64 holds; what FormatSize prints of it is read back as the  *)
(* same number (config.go:160-200).                                           *)
SizesAreExact ==
  LET exact == Size.digits * Size.unit
  IN  /\ Sending => cfg.maxBodyBuffer = exact /\ ParseSize(FormatSize(exact)) = exact
      /\ phase = "exited" /\ at \in DOMAIN Order(in.command) /\ Step = "size" =>
           "size" \in in.faults \/ Size.digits < 0 \/ exact > MaxInt

(* Nobody types a password for a command that is refused before it needs it:  *)
(* not for its name, its runbook or its policy, for an env file, for a        *)
(* setting or for jq (request.go:261-262), not for a dry run (run.go:59-61),  *)
(* and not where there is a password, nobody to authenticate or no terminal.  *)
(* The request command reads stdin for a body only when its settings make a   *)
(* client.  What the code checks later is asked for in vain, and is so here:  *)
(* the password for a client, a body, -q, -H or a URL that is no good, and    *)
(* the body for the last three of them; ism set reads its policy from stdin   *)
(* before it looks at any of its settings.                                    *)
NothingIsAskedInVain ==
  LET steps == {Order(in.command)[i] : i \in DOMAIN Order(in.command)}
      sound == /\ in.faults \cap steps \subseteq {"password", "client", "body", "query",
                                                 "headers", "build"}
               /\ Size.digits >= 0 /\ Size.digits * Size.unit <= MaxInt
               /\ LookupEnv(Env, "timeout") # Malformed /\ Preferred("timeout") >= 0
  IN  /\ "prompt" \in asked =>
           /\ sound /\ "password" \notin in.faults
           /\ in.tty /\ ~(in.command = "run" /\ in.dryRun)
           /\ Preferred("password") = Empty /\ Preferred("username") # Empty
      /\ "stdin" \in asked /\ in.command = "request" =>
           sound /\ "client" \notin in.faults /\ ~ClientFails(cfg)

(* Along every chain of redirects, from one host to the next, back home or to *)
(* another port, and in every retry after it, the credentials are on the      *)
(* requests to the endpoint's scheme, host and port, however these are        *)
(* spelled, and on no other (docs/cli.md:163-165).  What a request brings     *)
(* along from the one before it has no part in that.                          *)
CredentialsStayAtHome ==
  wire # NoRequest =>
    LET default == IF wire.to.scheme = "https" THEN 443 ELSE 80
        spelled == {default, NoPort}      \* the ports that say nothing more than the scheme
        home == /\ wire.to.scheme = cfg.endpoint.scheme
                /\ Fold[wire.to.host] = Fold[cfg.endpoint.host]
                /\ \/ wire.to.port = cfg.endpoint.port
                   \/ {wire.to.port, cfg.endpoint.port} \subseteq spelled
    IN  wire.authorization = "basic" <=> home /\ Empty \notin {cfg.username, cfg.password}

(* Whatever an earlier attempt or a redirect has read of the body, a request  *)
(* that keeps the body carries all of it (request.go:43-46,                   *)
(* docs/architecture.md).                                                     *)
EveryRequestIsWhole == wire # NoRequest /\ wire.keeps => wire.body = BodyLen

(* A signal or the timeout ends the command, unless it waits for its user.    *)
InterruptEndsUnlessAsking == ctx # "live" ~> phase = "exited" \/ AsksTheUser
=============================================================================
