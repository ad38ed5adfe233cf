# osapi in TLA+

A verification project for osapi, the OpenSearch command line client of this
repository. Paths without a directory are files under `src/internal/` of the
package named beside them; `docs/...` are the repository's docs.

1. [The system](#the-system)
2. [Modules](#modules)
3. [Runs](#runs)
4. [Fairness](#fairness)
5. [Proofs](#proofs)
6. [Where code and docs disagree](#where-code-and-docs-disagree)
7. [What is not modelled](#what-is-not-modelled)
8. [Plan](#plan)

## The system

osapi is a process that lives for one command. Nothing is kept between two
invocations; what makes it hard is time (a signal or `--timeout` may end the
context between any two steps), the server and the network, other clients of
the same server, and the rules that decide what a response means.

| component | state | operations | hard behaviour | what makes it correct |
| --- | --- | --- | --- | --- |
| retry engine (`retry/retry.go`, `classify.go`) | attempt number, the attempt's response, error and body, the context | `Do`: attempt, buffer, classify, back off, again | context ending between two checks; ownership of bodies; an over-cap or broken body; a body to drain that never ends; endless jq | exact budget; one open body at most, its bytes in order; the documented rule is what is reported; an interrupt is never masked; it returns |
| backoff (`retry/backoff.go`) | none | `Duration` | int64 and float64 at large attempt numbers, which `--retry -1` reaches | no wrap, the cap, the jitter window up to rounding |
| predicates (`retry/predicate.go`) | compiled jq | `Match` | an error, no end | errors count as not satisfied, the context stops it |
| runbook loader (`runbook/runbook.go`) | defaults, `declared` captures, calls so far | `Load`, `loader.call` | layering of defaults, which are shared by the calls; header spellings; references to what may be unset | what loads cannot send an unset reference; no call has a parameter of another; nothing valid is refused |
| templates and captures (`runbook/capture.go`) | none | `scanTemplate`, `substitute`, `substitutePath`, `extractCaptures` | values that join up to a dot segment; half-done captures | the path keeps its shape |
| runner (`runbook/run.go`) | store of captures, counters, call at hand | `Run`, `runCall`, reporting | tolerated failures, interrupts racing them, bodies on eight exits | stops where it must; the summary accounts for all calls |
| `osapi run` (`cli/run.go`) | the two above | load, settings, run | three causes, three exit codes | exit code and summary agree; signals end it, but for a prompt |
| `osapi` (`cli/request.go`) | the engine, stdout | settings, `Do`, copy the body | the prefix read ahead; copy errors after a failure | stdout is the body; exit code; a signal ends it once the request is built |
| `osapi ism set` (`cli/ism_policy.go`, `osclient/upsert.go`) | what the GET saw | GET, compare, conditional PUT, retries | two requests instead of one; lost answers, late requests, failover | no lost update, no needless write |
| `osapi ism reapply` (`cli/ism_reapply.go`) | the list of explain, results so far | explain, change_policy per index, merge, judge | acts on an old list; fails half-way | only listed indices; answers accounted for |
| settings (`config/`) | flags, env file, environment, defaults, what the user types | `Resolve`, `LayeredEnv`, `ResolvePassword`, `ParseSize`, `FormatSize` | four layers and two kinds of empty; sizes at the end of int64 | each setting from the layer the docs name; a size is exact or refused |
| preparing (`cli/request.go`, `ism.go`, `run.go`) | the step at hand, the context | each command's own order of checks, the prompt, stdin | a prompt or stdin before something that is refused anyway; neither sees the context | nobody is asked for what an earlier check refuses; a signal ends what does not wait for its user |
| OpenSearch client (`osclient/client.go`, `request.go`) | the URL of the request, the Authorization it brings along, what its body reader has left | `RoundTrip`, `BuildRequest`, `Replay` | redirects that leave the origin and come back, or stay on the host and change port; a body that is half read | credentials stay at home; each request carries the whole body |
| API paths and completion (`apispec/`, `cli/completion.go`) | the generated tables, what is typed | `SuggestPaths`, `MethodsFor`, `MatchTemplate`, `BodyFields` | templates above others, templates that tie | completion reaches every endpoint and no dead end; what it builds is found again |

They interact by calls: both `osapi` and `ism` go through `doWithRetry` into
`Engine.Do`, the runner builds an engine per call, all of them share one context
made by `signal.NotifyContext` (`cmd/osapi/main.go:20`) and `withTimeout`
(`cli/run.go:107`), and `exitCode` reads the error that comes back up.

`PROJECT.json` lists the hazards, each at its line, with the properties that
would catch it.

## Modules

```
Outcome ── RetryEngine ┬ RetryRefinement ── RetryInvariant ┬ RetryProofs
                       │    └ INSTANCE RetryContract       │
                       └ RequestCommand ───────────────────┘
Backoff ── BackoffProofs
Template ┬ RunbookDocument ┬ Loader ── LoaderInvariant ── LoaderProofs
         │                 └──────────┐
         └ Runner ┬───────────────────┴ RunCommand (INSTANCE Loader) ─┐
                  ├ RunnerInvariant ──────────────────────────────────┼ RunnerProofs
                  └ RunnerRefinement (INSTANCE RunContract) ──────────┘  (INSTANCE LoaderProofs)
Sizes ── Settings ── Transport ── Connection ── ConnectionInvariant ── ConnectionProofs
Apispec ── Completion ── CompletionProofs
Upsert ── UpsertInvariant ── UpsertProofs
Reapply ── ReapplyProofs
```

`MC...` modules give the constants their values; every `.cfg` belongs to the MC
module of its component. A definition called `Faulty...` is a plausible mistake
that stands next to the definition it gets wrong. No specification uses one: they
show that a property notices the mistake.

**Outcome**: what one response comes to, as pure operators: status rules,
predicates, how many bytes `bufferBody` reads in wrapping arithmetic. A body is
a length, whether it breaks off, whether it is JSON, and what each predicate
makes of it. `RuleNumber` is the reference: the table of `docs/retry.md:20-29`,
written from its condition column alone.

**RetryEngine**: `Engine.Do`, one action per step between two looks at the
context. `pc` is the point reached in the loop of `retry.go:123-205`; `body`
follows the response body from the socket to the caller: `stream` is what a
reader of it gets, byte by byte, `ahead` how many of these bytes `bufferBody`
holds, `end` how the socket ended. `Release` is `closeAttempt`: a buffered body
is closed at once, any other goes through the point "drain", where
`io.Copy(io.Discard, ...)` waits for the server (`Drain`) and may fail. When the
outcome stands before that, `result` has it already. `EndContext` is a signal or
the deadline, at any point. Each attempt may get any response, any error, or an
error together with a response.

**RetryContract** is the abstract specification: what the doc comment of `Do`
promises, without bodies, statuses or predicates. **RetryRefinement** has the
mapping and `ImplementsContract`.

**Backoff**: `retry.Duration` for attempt 1, 2, 3, ... with int64 as a constant
width. The jitter is float64 arithmetic, which rounds (`1 - 0.9` is
0.09999999999999998, and a large `int64` loses its last bits): the product is any
within one part in `Precision` of the exact one, and a product out of range is
whatever the processor converts it to (amd64 and arm64 differ).

**Template**: a text is the sequence of pieces `scanTemplate` finds, a string
the sequence of its characters as far as paths tell them apart. `Closed` is the
promise of `Load` that the runner relies on.

**RunbookDocument**: what a document is once YAML has parsed it. What control does
not depend on (retry settings, sizes, jq) is one `fault` per mapping.

**Loader**: `Load`, one action per check of the document and one per call
(`RejectCall`, `AcceptCall`). `Checks` has the order of the checks in
`loader.call`; the first that fails is the error. `inherited` is the map of
parameters in the defaults, which every call is decoded onto: `InheritedAfter`
is what the next call finds in it.

**Runner**: `Runner.Run` with `reportOutcome`, the drain, the captures and the
summaries. `Do` is reduced to what RetryContract promises: a success, a failure
with or without a response, a net timeout, a context error once the context has
ended.

**RunContract** is its abstract specification, from docs/runbooks.md:154-171: calls
in document order, none sent once the run has been ended, a halt at the first
failure that is not tolerated, an interrupt that no call tolerates. It has no
requests, captures, bodies or counters. **RunnerRefinement** has the mapping: what is
over are the outcome lines before `idx`, and a call is cut short when its error is
the context's. A call that answers after the end of the context still counts
(`Succeed`), as in the code.

**RunCommand** is a Runner that gets its runbook from a Loader, through `runRun`
up to the exit code; the constant `Runbooks` of Runner has no part in it. The
properties of loading are checked here, for the documents that run and for many
more that are only loaded (`Executed`, a bound of the model).
**RequestCommand** is a RetryEngine with the root command around it, which
follows `body` on to stdout. All that precedes the first request is one step
there that succeeds or is refused; Connection has its detail. Their own
definitions for the whole command are called `CommandInit`, `CommandNext`,
`CommandSpec` and `CommandWaiting`.

**Sizes**: `ParseSize` and `FormatSize` in wrapping integers; a text is its
digits and its unit. **Settings**: the four layers of a setting as operators
with the names of the code (`LayeredEnv`, `ApplyEnv`, `ApplyFlags`, `Resolved`).
**Transport**: which origin a URL names, which settings make no client, and
which requests `RoundTrip` puts Basic auth on.

**Connection** composes the three: a command line, with the files, variables and
terminal around it, goes through the steps of its command in their order
(`Order`, one sequence per command), each of which may be refused (`Refuse`),
may need the user (`Ask`, `Answer`) or passes; then one request is attempted,
redirected and retried. Two things go from hop to hop and are state: what the
reader of the body has left (`unread`) and the Authorization header of the
request before the transport sees it (`held`), which net/http copies along to the
same host, whatever its port and scheme, and may copy to a subdomain. A request
starts with the header of `-H` or of the runbook (`Built`); credentials are on
the clone that `RoundTrip` sends, never on the request. Which answers are retried
is RetryEngine's question; here any may be.

**Apispec**: the generator's tables (which paths, verbs, content) and the
lookups, over segments; `Document` stands for the OpenAPI document. **Completion**
is a session at the prompt: Tab, typing, completing the verb, names for the
hints, and `--body-skeleton` for the result.

**Upsert**: any number of `ism set` invocations against one policy. The server is
external and modelled from what the code relies on: each write takes the next
`_seq_no`, a conditional PUT is checked against `_seq_no` and `_primary_term`, a
PUT without them only creates (`e2e/ism_test.go:133-149`), a failover may lose
the write nobody was told of. Requests are lost, answered late and delivered
after their sender gave up. The engine judges the response an attempt ends with,
and that is a choice here where a predicate decides: with `--success-when` the
answer to a failed GET, a conflict or a failed PUT may count as success, and with
either predicate a success as something to retry (`OfSuccess`, `OfFailure`).

**Reapply**: `ism reapply` against a record of which policy manages which index,
which other tools change. The sorted list that the code walks is a set here whose
least member is next (`Current`), and the answers are merged as they come; the
code merges them after the last, and nothing looks at the sum before.

## Runs

| run | states | question |
| --- | --- | --- |
| `retry_engine` | 560 317 | budget, bodies, the reported rule, interrupts; refinement of RetryContract; does the loop return? |
| `retry_timeout` | violation | is a timeout retried? |
| `backoff` | 49 138 | the delays against the documented formulas, rounding included |
| `runner` | 6 197 | what is sent, what the summary says; refinement of RunContract |
| `run_command` | 63 323 | what loads is closed and no call has another's parameters, what is refused has a reason; loading and running composed; exit codes; does a signal end it? |
| `request_command` | 13 173 | stdout byte by byte, exit codes; does a signal end it? |
| `connection` | 332 058 | precedence, sizes, prompts, credentials and bodies along redirects; does a signal end it? |
| `endpoint_fallback` | violation | is the default endpoint only for when none is set? |
| `completion` | 16 434 | dead ends and lost endpoints of completion; is the completed path found again? |
| `upsert` | 1 338 310 | lost updates, repeated writes, false conflicts, false success |
| `reapply` | 1 070 982 | which indices, in which order, what is accounted for |
| `reapply_race` | violation | does a foreign index keep its policy? |

Bounds, and why they are enough:

- `MaxAttempts = 3` in the retry runs with `maxRetries` in `{-1, 0, 1, 2}`: used
  up at once, after one and after two retries, and a budget that never is. What
  an attempt leaves behind is gone after one more, so three attempts show every
  influence of one on the next. `WakeUp` is where counting stops.
- `IntMax = 4` and bodies of zero to two bytes: empty, at the cap of one byte,
  one over, unlimited, and the cap whose increment wraps. Every configuration
  is taken with and without each predicate and with `abort-on`, `retry-on` or
  neither.
- `Backoff`: int64 cut to seven bits, eight attempts, so that linear and
  exponential delays pass the end of the range; jitter in tenths with samples
  below, in and above `[0, 1)`. `Precision = 50` makes the rounding of float64,
  one part in 2^53 per operation, large enough to move a delay at this width.
- `Runner`: three calls, two captures of which the second may fail, a tolerated
  call, a path that joins two values; values with a dot, a slash, a query
  character and the empty one.
- `RunCommand`: the documents that run (`Executed`) have two calls under each
  combination of own and inherited tolerance. Those that are only loaded have
  three, because a reference needs a producer, a consumer, and a call between or
  after them: all combinations of twelve defaults, six producers, eleven
  consumers and five third calls, plus each fault. A parameter leaks from a
  second call to a third.
- `Upsert`: two invocations for different policies, two attempts each, two writes
  beyond the first, one failover. One has `--retry-when`, the other `--force` and
  `--success-when` and a policy the server completes with defaults, so the
  unchanged hook never recognises it. A third writer is
  covered by `Foreign`. Invocations end and nothing follows, so deadlock is not
  checked here; it is in every other run.
- `Connection`: `MaxHops = 2`, to leave the origin and come back, and
  `MaxAttempts = 2`, because an attempt leaves to the next only what is left in
  the reader. The redirects go to another spelling of the home, to another port
  and another scheme of its host, and to another host. `MaxInt = 127` and `Kilo = 4`: every unit has digits that fit, that
  just do not, and whose product wraps to a positive number. The command lines
  are families that vary one thing at a time (a setting through all its layers, a
  fault per step, a size, a client, a body, an Authorization of its own), as different settings do not meet in
  the code.
- `Completion`: `MaxSegments = 4`, one more than the longest template of an
  instance with every shape of the real table, two templates that tie among them.
- `Reapply`: three indices in scope and one outside it, two policies, two moves
  by other tools, two attempts per request.

Type invariants and inductive invariants were checked by TLC when they were
written and are proved since (see [Proofs](#proofs)), so they are no properties
of the runs. `retry_engine`, `run_command`, `request_command` and `connection`
check liveness too and run with fairness; the others have none. A run's
properties are stated, with the doc they come from, in the module they are about.

## Fairness

`Do`, `Run` and the commands are one goroutine that goes on whenever it can: weak
fairness of "a step of the program that does not wait for anybody". What waits is
named `Waiting` in each module, `CommandWaiting` in the two commands: for an
answer, for the rest of a body that is buffered, drained or copied, and in Runner
for a jq expression too. There is no fairness for the server, so it may stay
silent for ever, or send the headers of a 503 and never end its body. Once the
context has ended the transport and gojq return, so a wait is fair then.

Nor is there any fairness for the user, whatever the context says: `io.ReadAll`
of stdin and the password prompt do not look at it. Connection counts both
phases as waiting; RunCommand its step "settings" unless it is a dry run, and
RequestCommand its step "prepare", which have the prompt and stdin in them. That
stdout is read is assumed.

With it TLC checks that an ended context ends the loop (`EndedContextReturns`);
that it ends `osapi run` unless the user is being asked, and the request command
from when its request is built (`InterruptEndsTheCommand` of either); that it
ends what precedes the request unless the user is asked
(`InterruptEndsUnlessAsking`); and that with a finite budget only a server that
never answers or never ends a body, or an endless predicate, keeps `Do` from
returning (`FiniteBudgetReturns`).

## Proofs

All theorems hold for every value of the constants that satisfies the module's
assumptions: any status lists, any responses, any runbook, any number of calls.

**RetryProofs** (from `ConfigsAssumption`, `ResponsesAssumption`,
`ErrorsAssumption`, `MaxAttemptsAssumption`, `IntMaxAssumption`). `TypeOK` is not
inductive by itself: that a response exists where it is judged (`HasResponse`)
is needed first. `Inv` adds where the body is at each point
(`BodyFollowsResponse`), that the buffer is what `bufferBody` reads of this
response (`BufferFollowsResponse`), how much of the budget is used
(`WithinBudget`), where the loop was when the context ended (`EndIsRecorded`) and
which rules of the table are already behind (`RuleSoFar`). One lemma per part
proves that each action keeps it. The hardest is `RuleSoFar`: it ties the
read limit, its overflow and the empty buffer to the table's conditions
(`DecodedIsEvaluable`). From `Inv` follow `TypeCorrect`, `BudgetCorrect`,
`AbandonedCorrect`, `BodyCorrect`, `ResultCorrect` and `InterruptCorrect`.
`Refinement` proves that every step maps to a step of RetryContract or to a
stutter; `HasResponse` and `WithinBudget` are what it needs. `ResultUsable` is
what the callers of `Do` go by, the Runner's `DoSucceeds` and `DoFails` among
them: a success has its response, a context error has none.

The same module proves the two safety properties of RequestCommand (`StdoutCorrect`,
`ExitCodeCorrect`). Its `CommandInv` keeps `Inv` of the engine up to the exit:
the copy closes the body, which the engine says is open. That stdout is
the body, byte by byte, then comes from `BodyFollowsResponse`: the stream of a
body that is open or drained is what the server sent, because the prefix read
ahead, put before the remainder, is the stream again, whatever the cap
(`RestitchedIsTheStream`).

**BackoffProofs** (`DurationAssumption`, `DenAssumption`, `PrecisionAssumption`,
`BackoffAssumption`):
`TypeCorrect`, `BasePositive`, `BaseCorrect`, `DelayCapped`, `JitterCorrect`, at any
integer width and any number of attempts. `BaseCorrect` compares the loop of
doublings with the power of two in the documented formula. The provers know
nothing of `2 ^ n`; `PowerOfTwo` gets its recurrence from the number of subsets of
`1 .. n`, by a bijection between those with `n` and those without. The jitter window rests on bounds of the integer
quotients between which the rounded and truncated product lies, and on the largest
factor staying below two with its rounding (`PrecisionAssumption`), so that the
product is in range. `LinearInRange` shows that
the guard `attempt > MaxInt64/initial` comes before every product that would wrap.

**LoaderProofs**: `TypeCorrect`, `Invariant`, `ClosedCorrect`, which is
`LoadedIsClosed` for every set of documents, `RejectedCorrect` and `LeakCorrect`.
The invariant says that the parameters every call is decoded onto are still those
of the defaults, that `declared`
has exactly the captures of the calls so far, with their tolerance, that no two
of these calls share one, and that every need of a call is met by an earlier
call. `LayeredResolves` carries the argument: every text that is sent, whichever
of the two mappings and spellings it comes from, was resolved.

**RunnerProofs** (from `RunbooksAssumption`, which is what `ClosedCorrect`
proves of the loader, `ValuesAssumption` and `NoPathAssumption`): `TypeCorrect`,
`Invariant`, `Refinement`, `StopsCorrect`, `BodiesCorrect`, `ReferencesCorrect`, `SummaryCorrect` and `PathCorrect`. `Passed` says
that the calls behind are ok or tolerated and that the captures of an ok call are
in the store; together with `Closed` this gives that no reference is unset.
`Counted` says how the counters relate to the calls behind; the summary's sum
follows by counting the sets of calls it names. `PathCorrect` is about the pieces of
a text: `FillCounts` goes along them and adds up the separators each contributes.
The induction is the lemma `Induction`, over a set of numbers, since a theorem with
an operator for a parameter cannot be used; it rests on the library's
well-foundedness of `<`. `Refinement` has one step per action: those within a call
map to a stutter or to `CutShort` (`WithinStep`), the others to the action of the
same purpose. It needs that only a refused call ends without a path (`Begun`), or
an interrupt could be reported of a call that was never sent; `FillTyped` says
that a filled path is one. `StopsCorrect` is about the state of the contract that
Runner implements.

The same module proves the safety properties of RunCommand, for every set of
documents (`LoadCorrect`, `OnlyLoadedCorrect`, `RunExitCorrect`), without `RunbooksAssumption`: that
the runbook is closed comes from the loader. `LP` is the instance of LoaderProofs
whose lemmas are cited, and the lemmas `Same...` say that RunCommand's `Loading` is
that loader. `CommandInv` says that the runner has not begun before the document is
accepted (`Fresh`), and has both invariants at every point; `HowItEnded` relates
the summary to the error and the context, from which the exit code is made.

**ConnectionProofs** (from `InputsAssumption` and the assumptions of Settings and
Transport): `Invariance` and one theorem for each of the five safety properties of
the run, for any command lines, redirects and attempts. `SettingsFollow` says that
from the step "resolve" on the settings are the chosen ones and that only the
password may come from the user; `NothingRefusedBehind` that no step behind was
refused. Whether a check comes before a prompt is then a matter of the order of
the steps, one case per command. `HeaderIsClean` says that no request brings
credentials to the transport, whatever redirects and retries made it; with it,
and with `SameOrigin`, which spells out the comparison of origins for URLs with a
scheme (`AddressesAssumption`, `EndpointFacts`), each request has them exactly at
home. That a size is exact is the division test of `ParseSize`, over
integers of any width.

**CompletionProofs** (`SegmentsAssumption`, `DocumentAssumption`,
`TypingAssumption`): `Invariance` and both properties of the run, for any document. For
`CompletedFindsItself` the argument is that any other template that matches the
filled path has strictly more parameters, so the one that was completed is the
most literal.

**UpsertProofs**: `Invariance` and all four properties of the run, for any number
of invocations, predicates, attempts, late requests and failovers. The invariant says that
the pair of `_seq_no` and `_primary_term` names one document, that nobody holds
one from the future (`UpsertInvariant`), and that what a conflict was answered
for is covered by a change since the GET.

**ReapplyProofs** (`ReapplyAssumption`): `Invariance`, `OnlyListedCorrect` and
`MergedCorrect`, for any number of indices, retries and moves by other tools. What
is listed and not in the queue is done (`Done`); it lies below all that is left
(`InOrder`), the answers so far count it exactly (`Accounted`), and nothing else
but the request at hand has changed anything (`OnlyInTurn`).

Model-checked only: the liveness properties, which are beyond the prover. Every
invariant that a run checks is stated by a theorem.

## Where code and docs disagree

Three are runs that TLC ends with a counterexample; `PROJECT.json` has the quotes.

- `retry_timeout`: a dial or DNS timeout satisfies
  `errors.Is(err, context.DeadlineExceeded)`, so it ends the loop
  (`retry.go:213`) although docs/retry.md:22 lists timeouts as retried.
- `reapply_race`: an index moved to another policy after explain is moved back.
- `endpoint_fallback`: `--endpoint ""` takes the default endpoint also when
  OPENSEARCH_URL is set, because `Resolve` looks at the merged setting
  (`resolve.go:62`); config.go:127-128 names the default only for when neither
  sets an endpoint. `ResolvedByPrecedence` leaves the case out.

The others were met while modelling and have no run of their own; the models do
what the code does in each of them:

- Truncation takes a jittered delay of 1ns to zero, and an uncapped delay near
  the largest int64 leaves the range of the conversion (`backoff.go:36`), although
  docs/retry.md:109-111 says that a positive delay can never collapse to zero.
  `JitterStaysInWindow` says where it does stay.
- `rejectDuplicateNames` (`runbook.go:223`) compares the text of a YAML node,
  which for an alias is the anchor, so two calls of one name may load although
  docs/runbooks.md:69 calls a name unique (`SameName` in Loader).
- A net timeout that races the end of the context is a failure to one question
  and the interrupt to the next (`run.go:180`, `run.go:47`, `main.go:45`): the
  call has an outcome line although the summary says interrupted, and the exit
  code may be 1 (the exception `err # "timeout"` of `ExitCodeTellsHow`).
- `drainDiscard` drops its error, so an interrupt that cuts the drain of the last
  call short goes unnoticed and the run completes (`run.go:347`, `Drain` in
  Runner).
- A jq error that is not the context's is returned as it is even if the context
  has ended since, so `ism reapply` exits with 1 (`ism_reapply.go:159`,
  `JudgeErred` in Reapply).
- A malformed OSAPI_TIMEOUT is refused although `--timeout` is given, which by
  docs/cli.md:140 overrides it (`ResolveFails` in Settings). `ResolvedByPrecedence`
  names it as one of two reasons for which settings are refused.
- request.go:261-262 compiles the predicates before the password is asked for, so
  that nobody is asked in vain. The client, the body, `-q`, `-H` and the URL are
  still looked at after the prompt, and `ism set` reads its policy from stdin
  before its settings: `NothingIsAskedInVain` says what it leaves out.
- `--header "Authorization: ..."` is replaced by Basic auth at the configured
  origin when user name and password are set, although docs/cli.md:177 says that
  a header is sent as given.
- `FormatSize` need not print what was typed: `1024KiB` becomes `1MiB`. The
  number is the same, which is what `SizesAreExact` says.
- apispec.go:57-59 says that a tie of two templates never arises in practice. It
  does for names that are also segments of the API, such as
  `/_nodes/stats/stats`; `CompletedFindsItself` leaves such names out.

## What is not modelled

- The text of URLs: joining paths, merging query parameters and headers, dropping
  userinfo. Reading `@file` is a step that may be refused.
- TLS, proxies and the User-Agent; dotenv files, durations and flags as text (a
  malformed one is a fault).
- The generated API tables as data, placeholders and layout of skeletons, flag
  declarations, the text of reports and plans.
- YAML, jq, JSON and HTTP themselves.
- The bytes of numbers: how `renderScalar` spells a captured number.
- An explain answer longer than the page asked for.

## Plan

Done: the modules above, in this order: the engine and its contract, backoff,
loader, runner, their composition, Upsert, the request command, Reapply,
settings with sizes, transport and preparing, API paths and completion; and the
proofs of all of them.

Left, in order of weight:

1. Runner over RetryContract instead of its outcomes.
2. Connection in place of the one step "prepare" of RequestCommand.
