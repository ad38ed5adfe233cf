-------------------------- MODULE ConnectionInvariant --------------------------
(* What is known of a command at each of its steps, strong enough to be        *)
(* inductive.                                                                  *)
EXTENDS Connection

Chosen == Resolved(Flags, Env)

(* The steps behind. *)
Behind(step) ==
  \E i \in DOMAIN Order(in.command) : i < at /\ Order(in.command)[i] = step

(* The steps behind and the one at hand. *)
Reached(step) == Behind(step) \/ (at \in DOMAIN Order(in.command) /\ Step = step)

Shape ==
  /\ in \in Inputs
  /\ at \in Nat \ {0}
  /\ phase \in {"prepare", "prompt", "stdin", "attempt", "send", "await", "exited"}
  /\ Sending => at \notin DOMAIN Order(in.command)

(* The settings are the chosen ones from when they are resolved, and only the *)
(* password may come from the user.                                           *)
SettingsFollow ==
  Behind("resolve") =>
    /\ DOMAIN cfg = ConfigKeys
    /\ \A k \in ConfigKeys \ {"password"} : cfg[k] = Chosen[k]
    /\ IF Behind("password") /\ NeedsPassword(Chosen)
         THEN cfg.password \in Typed
         ELSE cfg.password = Chosen.password

(* The user is asked in the step that needs it, by a command that got there. *)
AskedInStep ==
  phase \in {"prompt", "stdin"} =>
    at \in DOMAIN Order(in.command) /\ Needs(phase) /\ ~Refused

AskedWithReason ==
  /\ "prompt" \in asked =>
       /\ Reached("password") /\ "password" \notin in.faults
       /\ NeedsPassword(Chosen) /\ in.tty
  /\ "stdin" \in asked => Reached("body")

(* Nothing that was refused is behind. *)
NothingRefusedBehind ==
  /\ \A step \in in.faults : ~Behind(step)
  /\ Behind("size") => ParseSize(Size) # OutOfRange
  /\ Behind("dryRun") => ~in.dryRun
  /\ Behind("resolve") => ~ResolveFails(Flags, Env)
  /\ Behind("client") => ~ClientFails(cfg)

RefusedAtHand ==
  phase = "exited" /\ at \in DOMAIN Order(in.command) /\ Step \in {"size", "resolve"} =>
    Refused

(* The deadline is one that was asked for. *)
DeadlineWasSet ==
  /\ ctx = "deadline" => Behind("resolve") /\ cfg.timeout > 0
  /\ exit = 124 => ctx = "deadline"

NothingOnTheWire == phase \in {"prepare", "prompt", "stdin"} => wire = NoRequest

(* Requests go to the endpoint or where a redirect says, and none brings     *)
(* credentials to the transport that puts them on.                            *)
HeaderIsClean ==
  /\ phase = "send" => to \in Targets \cup {cfg.endpoint}
  /\ held # "basic"

ReaderIsFresh == phase = "send" /\ keeps => unread = BodyLen

Inv ==
  /\ Shape
  /\ SettingsFollow
  /\ AskedInStep
  /\ AskedWithReason
  /\ NothingRefusedBehind
  /\ RefusedAtHand
  /\ DeadlineWasSet
  /\ NothingOnTheWire
  /\ HeaderIsClean
  /\ ReaderIsFresh
  /\ CredentialsStayAtHome
  /\ EveryRequestIsWhole
=============================================================================
