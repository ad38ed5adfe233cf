----------------------------- MODULE MCConnection -----------------------------
(* Connection over the command lines that differ from a plain one in a way    *)
(* that matters: one setting through all its layers, one fault, one size, one *)
(* client, each of them with and without somebody to ask.                     *)
EXTENDS Connection

At(scheme, host, port) == [scheme |-> scheme, host |-> host, port |-> port]

MCFold == [h \in {"es", "ES", "other"} |-> IF h = "ES" THEN "es" ELSE h]

MCDefaultEndpoint == At("https", "other", 9200)

Es == At("https", "es", NoPort)

MCTargets == {At("https", "ES", 443), At("https", "es", 9200), At("http", "es", NoPort),
              At("https", "other", NoPort)}

MCDefaultSize == [digits |-> 2, unit |-> Kilo * Kilo]

NoVars == [k \in EnvKeys |-> Unset]

NoFlags == [k \in ConfigKeys \ {"maxBodyBuffer"} |-> Unset]

Plain == [command |-> "request", faults |-> {}, flags |-> [NoFlags EXCEPT !.endpoint = Es],
          size |-> Unset, file |-> NoVars, env |-> NoVars, tty |-> FALSE, dryRun |-> FALSE,
          own |-> FALSE, body |-> "none", len |-> 0]

LoggedIn == [NoFlags EXCEPT !.endpoint = Es, !.username = "admin", !.password = "secret"]

Asking == [Plain EXCEPT !.flags = [LoggedIn EXCEPT !.password = Unset], !.tty = TRUE]

Layered(base, k, flag, file, env) ==
  {[base EXCEPT !.flags[k] = f, !.file[k] = d, !.env[k] = e] : f \in flag, d \in file, e \in env}

ByLayers ==
  Layered(Plain, "endpoint", {Unset, Empty, Es}, {Unset, Empty, At("http", "es", 80)},
          {Unset, Empty, At("https", "es", 9200)})
  \cup Layered([Plain EXCEPT !.env.password = "secret"], "username",
               {Unset, Empty, "admin"}, {Unset, Empty, "filed"}, {Unset, Empty, "exported"})
  \cup Layered(Asking, "password",
               {Unset, Empty, "secret"}, {Unset, Empty, "filed"}, {Unset, Empty, "exported"})
  \cup Layered(Plain, "timeout",
               {Unset, 0, -1, 1}, {Unset, Empty, Malformed, 2}, {Unset, Empty, Malformed, -3, 3})

ByFault ==
  {[base EXCEPT !.command = c, !.faults = f, !.body = b, !.dryRun = d] :
     base \in {Plain, Asking, [Asking EXCEPT !.tty = FALSE]}, c \in Commands,
     f \in {{}} \cup {{s} : s \in Steps}, b \in {"here", "stdin"}, d \in BOOLEAN}

BySize ==
  {[base EXCEPT !.size = [digits |-> n, unit |-> u]] :
     base \in {Asking, [Plain EXCEPT !.body = "stdin"]},
     n \in {-1, 0, 1, 3, 4, 5, 31, 32, 63, 127, 128, 255, 256}, u \in Units}

ByClient ==
  {[Plain EXCEPT !.flags = [NoFlags EXCEPT !.endpoint = e, !.caCert = ca, !.insecure = k]] :
     e \in {Es, At("none", "es", NoPort)}, ca \in {Unset, BadFile, "ca"}, k \in {Unset, TRUE}}

BySending ==
  {[Plain EXCEPT !.command = c, !.flags = LoggedIn, !.body = "here", !.len = n] :
     c \in Commands, n \in {1, 2}}
  \cup {[Plain EXCEPT !.command = c, !.flags = f, !.own = TRUE] :
          c \in {"request", "run"}, f \in {LoggedIn, Plain.flags}}

MCInputs == ByLayers \cup ByFault \cup BySize \cup ByClient \cup BySending
=============================================================================
