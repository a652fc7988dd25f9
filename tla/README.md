# A TLA+ model of DDC

DDC serves text generation from a swarm of machines.  A **coordinator** (TypeScript, one
Node.js process) keeps registries of what is out there, decides which launcher should run
which model's pipeline, and forwards requests; **launchers** and **node agents** (C++) run
the processes that generate.  This directory models the parts of it whose correctness
depends on the order of things: interleavings between awaits, lost and abandoned calls,
expiry, failures in mid-stream, a page whose answers arrive out of order, and algorithms with
many indices.  TLC checks the models
on small instances; TLAPS proves all their safety properties, and all three refinements, for
every value of the constants.

Paths below are relative to the repository; `ppm` is
`coordinator/src/pipeline_pool_manager.ts`, `server` is `coordinator/src/server.ts`, `app` is
`coordinator/public/app.js`.

## 1. Inventory

| component | state | operations | talks to | what makes it correct |
|---|---|---|---|---|
| pipeline tracker | per model an array of entries: launcher, driver, compute nodes, `assembling`/`warm`/`failed` | add, remove, mark failed | read and written by requests and the background loop | one owner per launcher, one owner per reservation |
| pool manager | its timer, a re-entrancy flag, the frame of a running pass | `runOnce`: heartbeat drivers, allocate, health-check, scale down | tracker, registries, launchers (HTTP, 60 s timeout) | plans stay true across awaits; failed entries are reaped; no pre-emption |
| cold start | one in-flight promise per model, the frame of each assembly | `ensurePipelineReady`, `assemblePipeline` | same, on the request path | joins instead of racing; reserves before its first await; drops the reservation on every way out |
| request routing | none but the frame of a request | `/generate` (pool first, then cold start, then registry), `/v1/chat/completions` (registry) | tracker, registries, node agents (120 s timeout) | answers with the right model or fails; marks failed drivers; nothing unsafe forwarded; no cut reply told as whole |
| launcher host | the one child agent | `POST /pipeline`, `DELETE /pipeline`, one call at a time | coordinator, agent process | the last call decides what runs |
| node, launcher and peer registries | maps with a time of last contact | register, heartbeat, list, deregister | everyone | expired is gone, pruned or not; one entry per endpoint |
| reputation, demand | counters per node; timestamps per model | votes, `isTrusted`; record, count | registries, pool manager | trust survives re-registration; the window is exact |
| streaming wire | writer flags per connection | write chunk/usage/done/error/JSON; read frames; relay | engine → agent → coordinator → client | one ending per response, the right one |
| inference engine | llama.cpp contexts | greedy and speculative completion | draft and target models | speculative = greedy, fits the batch, terminates |
| client SDK | none | one call per route; `generateStream` | coordinator | an answer, a refusal and "I do not know you" are told apart; a cut stream is no reply |
| safety rules and classifier | the compiled rules | load a file, classify a text | gate of every generation, `/classify` | a rule matches what its text means and nothing else; no rules, no start |
| dashboard | the page: poll answers, conversation, model list, controls | poll, send, read a reply, reset, check, save token | coordinator (HTTP), the operator | shows what is; every turn gets one reply; a cut reply is no whole one; one model per conversation |
| federation, catalog, authentication, start-up | a token; the rest is counted anew for each call | `/capacity`, `/catalog`, the check of each request, `main` | peers (2 s timeout), everyone | who has the secret gets in; the counts settle |
| the rest | — | prompt formatting, OpenAPI, spawning, JSON helpers, RPC server | | stateless or one-time; see section 9 |

**What is hard.**  The coordinator is single-threaded but every `await` is a point where any
other handler runs, and `assemblePipeline`, `allocate` and `tearDown` hold state across
several of them.  A launcher works off calls in arrival order, and an abandoned call
(`AbortSignal.timeout`) is not taken back.  All registrations are soft state.  Streams end
in three ways that look alike on the wire.  Heartbeats come from the same loop that waits for slow
launchers.  The page polls on a timer without waiting for its last poll.  `PROJECT.json` lists each hazard at its line
with the properties that watch it.

## 2. Modules

```
PoolState      state of the pool, tracker operations, calls to launchers
 ├ ColdStart     ensurePipelineReady, assemblePipeline      (server)
 │   └ Generate    routing and forwarding of requests        (server)
 ├ PoolManager   runOnce: allocate, tryAssemble, tearDown    (ppm)
 ├ LauncherHost  POST/DELETE /pipeline at the launcher       (core/src/launcher_main.cpp)
 └ Registries    expiry, ejection, re-registration
PipelinePool   composes them; invariants and liveness    ── refines ──▶ LauncherLease
 ├ MCPipelinePool → PoolClaims   (instances; what the comments say and the code does not keep)
 └ PipelinePool_proofs    owners of launchers and reservations; the lease
     └ PoolAgents_proofs  what the launchers run
PoolClock             the same loop on a clock: heartbeats, ages, slow calls (ppm)
 └ PoolClock_proofs
PoolAllocation        planAllocations, desiredPipelineCount (ppm)
 ├ MCPoolAllocation
 └ PoolAllocation_proofs
SoftState             three registries, reputation, demand ── refines ──▶ EagerRegistry
 ├ MCSoftState
 └ SoftState_proofs
TokenStream           gate, forward, node server, relay, client
 ├ MCTokenStream
 └ TokenStream_proofs
SafetyRules           rules files, their expressions, the classifier
 └ Dashboard            the page, and the coordinator as the page meets it (app, server, main)
     ├ MCDashboard → DashboardClaims
     └ Dashboard_proofs
SpeculativeDecoding   complete_speculative               ── refines ──▶ GreedyDecoding
 ├ MCSpeculative
 └ SpeculativeDecoding_proofs
```

Operators keep the source's names (`AddEntry` is `PipelineTracker.addEntry`, `ColdStartBegins`
the part of `assemblePipeline` up to its first await, and so on); `PROJECT.json` "map" gives
the lines of every definition.  Definitions marked *Mutant* are plausible bugs: they are used
in place of the definition that follows to see that a property notices, and are no part of the
model.

### The pipeline pool (PoolState … PipelinePool)

| variable | code |
|---|---|
| `entry` | `PipelineTracker`: id → entry with model, position in its pool, launcher, state, compute nodes, `curId` |
| `cold` | per model the frame of `assemblePipeline` across its awaits: phase, `tracked`, the old launcher, the reservation |
| `tick` | the frame of `runOnce`: phase, plan still to carry out, models and entries still to check |
| `req` | what a request is doing: waiting for a cold start, forwarded by which route, what it met |
| `servesModel`, `up`, `ejected`, `listed` | `NodeRegistry` (drivers, compute nodes), `ReputationTracker`, `LauncherRegistry` |
| `agent`, `commands`, `reply` | a launcher's child process, the calls on their way to it, the answers on their way back |

A step is everything the event loop runs between two awaits.  Abstractions, each of which
only adds behaviours:

- *Time.*  Registrations expire at any moment (faults `expire`, `lapse`, `node`), calls
  may time out at any moment.  Heartbeats are what would prevent an expiry, so they need no
  action.  SoftState has the clock of one registry, PoolClock that of the loop.
- *A driver is its launcher.*  A launcher spawns its agent at a fixed port and nodeIds are
  hashes of endpoints, so every driver of a launcher has one id.
- *launcherIds* are the flag `curId`: does the id noted in an entry or claim still resolve?
  `LauncherRegisters` clears it, as re-registration mints a new id.
- *Choices.*  Which warm entry is used (least recently used), `selectNode` ties, the ranking of
  compute nodes, the order of the plan and the demand (any count from 1 to the ceiling) are
  left open; PoolAllocation is the exact computation of a plan.
- *Calls.*  `CallLost` is a connection that fails, `OnTimeout` a caller that gives up
  while the call stays queued or running.  Bound: `MaxOrphans` abandoned calls at a time.
- *Idleness.*  An entry may be idle whenever no request routed through it is in flight: with
  a grace of five minutes and a 120 s request timeout, one in flight is never idle.
- A request meets the agent that runs at its launcher when it connects.

### planAllocations (PoolAllocation)

The function as a state machine that visits models by descending demand and, within a model,
launchers in registry order.  `claimed` holds names of launchers, ids and endpoints, as the
code's set does; a pool may hold a launcher under an id that no longer resolves.  The run starts
from every demand and every pool over three models and two launchers, which is every case of two
models contending for one launcher, one of them at its ceiling.

PoolManager takes any sequence of claims for which `IsPlan` holds.  That this is what the function
computes is a theorem about both modules, `PlanAllocationsPlans`.  They see the world differently: the pool's launchers are
machines, of which the registry lists some, and the function goes through those it lists.  So the theorem is about an instance of
PoolManager over a set `Machines` that contains PoolAllocation's `Launchers`, in any state of the pool
that the function's inputs were read from (`Linked`).

### The loop on a clock (PoolClock)

PipelinePool lets a registration expire at any moment; whether it *may* depends on time, and that is this
module.  Per model one pipeline, on a launcher of its own.

| variable | code |
|---|---|
| `starting` | the cold starts that await their launcher, each with its reservation (`claimedLauncherIds`) |
| `entry`, `used`, `failing` | the pool entry, the age of `lastUsedAt`, the time since `markFailed` |
| `seen`, `sound` | the age of the driver's `lastSeenAt`; whether its compute nodes are active and all its nodes trusted |
| `timer`, `pass` | `setInterval`; the frame of `runOnce`: the call awaited and for how long, the active and idle entries as read when the pass began; `"late"` is a stop whose entry a cold start has replaced meanwhile |
| `excused` | history: pipelines that were new or unsound since the pass began |

`TimerFires` is `runOnce` up to its first await: it heartbeats every pooled driver that is still
registered, reads who is active and who is idle, and goes on to the first entry to take down.  A
timer that fires during a pass is skipped, as the code skips it.  A pass may pass over any model
whose launcher it does not get; who gets one is PoolAllocation's subject.  Nothing forces a call to end
but `SlowestCall`, and a pass does not end while time passes, only between two ticks.

A cold start begins when a request finds no usable pipeline and ends at any time later: it pools a new one in place of what it
found, failed or expired, in whatever phase a pass is by then, or it fails and marks what it found.  Its agent may be gone
already, because a stop came behind its `POST`; that it then waits for a request to find out is the finding of
section 6, and here only a pipeline whose agent is dead.

`CallsAreShort` is the assumption of `HealthyStays`: two calls for each pipeline of *another* model, one more, an interval
and the timer's lateness fit into the registry's timeout.  The one more is the stop of a pipeline that a cold start has
replaced while it lasted; without it TLC finds the violation.  The code cannot keep it against a launcher that hangs
for its whole 60 s; `README.md:744` discloses that, and TLC finds the violation at once when `SlowestCall` is
raised.

### Soft state (SoftState, EagerRegistry)

One module for the three registries and the demand window, `kind` chosen in the initial state; `kind`
decides ids (hash or random), whether a registration refreshes by endpoint, and whether there is a
deregistration.  A map is a function from ids to an endpoint and an age.  `register` scans it, prunes what it
passes and stops at the first match; the order of the scan, insertion order in the code, is that of the random ids,
which are numbered as they are issued.  Times are ages, saturated one above the limit they are compared with.  The clock
does not go back.  `lately` and `disgraced` are history for the properties: how many requests came within so many
ticks, and whom the last vote left untrusted.  An endpoint is registered in two spellings, with and without a slash, and
`Normalized` is what the code makes of them.

Each call ends in what a caller of `SwarmClient` is told (`answer`): 204 is yes, 404 no, and a 401 is
neither but an exception, so that a node with a stale token does not take itself for forgotten.
`ListActive` leaves out nodes that reputation distrusts.

`EagerRegistry` is the specification: a registry where what expires disappears
at once.  The code's lazily pruned maps implement it, answers included, with one exception that the
specification admits: the answer of `deregister` tells whether an expired peer had been pruned.  That
nothing expired is ever revived is part of it.

### Token stream (TokenStream)

A request from the checks of its body to the client's last frame.  A body may be rejected before the
classifier is asked; which bodies are is left open.  The node is `HttpServer::run`: one
connection at a time, and a `ResponseWriter` whose four flags decide what reaches the wire.
`/generate` relays frames unread; chat reads them with `readSseFrames` and writes its own.  Frames
are whole or absent (every reader drops an unfinished one), a piece is the text of a token; the
one text that matters is the one that spells the sentinel.  `Complete` and `Reads` are the client:
`SwarmClient.generate`, `generateStream`, and a chat client that requires `[DONE]`.
`include_usage` adds a chunk that no property tells apart and is left out.

Every place of `/generate` that answers 502 is a definition of its own that marks the driver for itself
(`StreamRefused`, `NotAStream`, `AnswerRefused`, and the two catches `StreamThrows`, `AnswerThrows`), so that one of them could forget to;
`BadGateway` is that answer, told apart from the refusals of the coordinator.  The sixth place, for a JSON body whose text is no
string, is not reached with the node's builds and is left out.  A connection that is gone may have been reset (`ConnectionFails`: `read()` rejects,
the catch marks and what was not read is lost) or may end in order behind its last frame (`StreamEnds`: nobody is marked), and the model allows both.

### Safety rules (SafetyRules)

A text is a sequence of characters, an expression a sequence of character classes.  `CompileTerm` is the
code's: escape, widen apostrophes, widen white space (each run of spaces becomes one class,
`Collapsed`), word boundaries.  `Test` says that there are places in the text where a match begins and where each class
ends.  `Classify` runs the expressions.  `Mentions` is the reference it is compared with: it knows no expressions, only that a
term is found where the text *reads* like it, whatever the case, the apostrophe and the amount of white
space, and where no word of the text is cut in two (`InsideWord`).  That is not what `\b` asks for: `\b` wants a word on one
side.  So the two agree on terms that begin and end in a word (`WordEnds`), and on others the code may miss what
the reference sees, never the reverse: `warning sign!` is not found before a space, as the comment at `safety_rules_loader.ts:118` and a
test say.  `VerdictIsExact` therefore bounds an answer from both sides, by the categories it must name and those it may.
Both are about terms that have no white space but spaces (`TermChars`): a tab in a term is
compiled as it stands and found in no text that has a space there, and `safety_rules_loader.ts:28` says how terms are
written.  Expressions given by the operator are sequences of classes,
enough for what the code does with them, which is to compile and test them.

### Dashboard

| variable | code |
|---|---|
| `world` | the coordinator: whether it runs, its catalog, rules and token, active nodes here and at peers |
| `token` | the page's `sessionStorage` |
| `polls`, `status` | the frames of `refreshStatus` with the answers they hold; the count and the table |
| `chat` | `chatHistory`, `modelLocked`, `latestCatalog`, the model list, the controls and the rows of the conversation (`dom`) |
| `request` | the frame of `sendChatMessage` across its awaits |
| `checks`, `verdict` | the frames of `classifyPrompt`, the verdict shown |

A step is what a browser runs between two awaits.  `BuildChatPrompt` is the set of messages resent, by
position; their wording is left out.  `dom` is kept apart from `history` because the
page rebuilds rows on some paths and patches the last one on others.  The `ending` of a message,
`asked` and the `flagged` of a check are history for the properties; no code reads them.  The
three panels are used in behaviours of their own (`panel`), as they share the token and the model list
only; the conversation has one poll at a time, because that is what brings it a new list.  A
coordinator answers, restarts with another catalog, another rules file and another token, and crashes
with every connection; a peer that fails to answer counts for nothing.  `GET /capacity` and
`GET /catalog` are two requests, and the second counts its own nodes before it awaits the peers.
What the node does during a reply is TokenStream's; here a stream has pieces and one of four endings.
The page goes on with frames that come behind an error frame (`app.js:206-223`); by `OneEnding` there are none, so the model's
reply ends with that frame.

### Speculative decoding (SpeculativeDecoding, GreedyDecoding)

The loop of `complete_speculative` with `resolve_speculative_acceptance`.  The target is a table
from contexts to tokens, the greedy sampler; the draft guesses anything.  A prompt has any length, `lookahead` either sign,
and the sum of the guard is taken modulo `SizeValues`, as `static_cast<size_t>` has it.  What llama.cpp does with a batch larger than
`n_batch` is an action of its own, `Aborts`.  `GreedyDecoding` is
`completeStreaming`'s loop: one decode, one token; it may fail at any time, so the refinement says which tokens come and where
a success ends, not when a context is too long.

## 3. Runs

| run | instance | asks |
|---|---|---|
| PoolOneLauncher | 2 models, 1 launcher, 1 request, every fault but ejection, 1 abandoned call | a warm entry's launcher never runs another model (`WarmServesOwnModel`); a pool-routed request never meets other weights (`PoolRouteServesModel`); assemblies never race at a launcher (`AssembliesNeverRace`); a reservation is always one assembly's in flight (`ReservationsOwned`) |
| PoolTwoLaunchers | 2 models, one with a ceiling of 2, 2 launchers, no faults | `LauncherExclusive`; a pool outgrows its ceiling by one claim of a pass at most (`CeilingOverrunByOne`); the pool implements `LauncherLease` (`LeaseSpec`) |
| PoolProgress | 2 models, 1 launcher, expiry, ejection, lost calls, fairness | `FailedReaped`, `WaitingResumed`, `ReservationsEnd` |
| PoolAllocation | 3 models with ceilings 2, 1 and 0, 2 launchers, demand 0–3 at 2 per pipeline | `NoPreemption`, `NoDoubleClaim`, `Planned`, `BusiestFirst` |
| PoolClock | 2 pipelines, cold starts at any time; interval 3, lateness 1, registry timeout 10, grace 11, calls up to 2, 1 fault | `HealthyStays`, `FailedGoneSoon`, `IdleGoneSoon` |
| SoftState | 2 endpoints in 2 spellings, timeout 2, window 3, 3 ids, 3 votes each way, 3 requests | TypeOK, `OneEntryPerEndpoint`, `TrustSurvives`, `DemandIsWindowed`, `EagerSpec` |
| Speculative | all targets over contexts of 3 tokens that differ in a table of 81, n_predict 4, batch 5, prompts of 1, 2 and 6, lookahead 2, 0, −1 and −3 | `NeverAborts`, `GreedyTokens`, `RoundsPay`, `GreedySpec`, `Ends` |
| TokenStream | 2 requests of 18 and more cases each, replies of 0, 2 and 3 tokens | `OneEnding`, `CompleteIsWhole`, `OnlySafeForwarded`, `BadGatewayMarks`, `EveryRequestEnds` |
| Dashboard | 2 catalogs, 4 rules files, 3 tokens, 31 prompts; 2 polls in flight and 2 changes of the world, or 3 messages, 1 poll and 1 change, or 2 checks and 1 change | `ScreenShowsHistory`, `EveryTurnAnswered`, `CutIsFlagged`, `OneModelPerConversation`, `VerdictIsExact`, `AnswersCome`, `StatusConverges` |
| ClaimPreemption, ClaimReplacement, ClaimTruncated | as small as shows it | what a document or comment says and the code does not keep: section 6 |

**Why the bounds are enough.**  Two models and one launcher are every way to contend for a
launcher, with the entry of one model, the reservation of the other, a pass and a cold start all in
play; two launchers add swaps and replacement on another machine, and a ceiling of two a pool with
an entry behind the first.  `PipelineIds` bounds the entries *in use*, not those ever made: an
id that nobody holds may be used again.  3 ids with one launcher and 4 with two are enough that no step is ever disabled
for want of one: one more id reaches no new state.  One request is enough for the pool, because requests influence each other only
through the pool; it can be any number of requests one after the other.  The faults of PoolOneLauncher
and the second launcher of PoolTwoLaunchers do not fit into one run; the safety properties
of both are proved for all instances, with all faults (section 5).  A limit of two ticks shows both sides of each
comparison of SoftState, and an age between.  Two requests at a node are what the single-threaded server needs: one that
is served and one that waits.  A tick of PoolClock is a third of the interval of ten seconds; interval and
timeout keep about the code's proportion of one to three, and the timeout is the least `CallsAreShort` allows. The grace, five
minutes in the code, only has to exceed the timeout. The one fault is a pipeline that breaks or an agent that dies in use; an
agent may also be dead from the start.  Two pipelines are one that is taken down or built while the other waits for its
heartbeat.  The history window of the page is 2 messages for 6, so that a run's third
message pushes the first out; the prompts put between the letters of a term whatever a rule must tell apart.
Pool runs use symmetry in ids, launchers and nodes, with invariants
and one refinement; PoolProgress, which has liveness, uses none.

Deadlock is checked except where the system really stops: when all models are planned for
(PoolAllocation), when the function has returned (Speculative), when all requests are answered and
the node is gone or idle (TokenStream).

## 4. Fairness

- *Pool* (`Fairness`): weak fairness of the background loop (a timer that is never cancelled), of each
  cold start's next step (an await that is answered or times out), of launchers working off calls
  (each ends: `waitForAgentHealthy` gives up) and of a forward ending (120 s timeout).  None for requests,
  registrations, votes or faults.
- *Speculative*: one thread runs on.
- *TokenStream*: a body is checked, the two timers of the coordinator fire, and a passed request is forwarded, because the
  cold start it may await comes back, which is `WaitingResumed`.  None for the node, the engine or
  the classifier: that a request ends must not depend on them.
- *Dashboard*: the poll timer is never cleared; a coordinator that runs answers (it gives peers and classifier
  two seconds, a node two minutes) and a browser tells the page what became of each of its requests.  None for the user,
  for restarts or for the swarm, and none for a single poll: any of them may be the last to arrive.
- *PoolClock* has invariants with a time bound in place of liveness: its clock cannot pass the
  moment at which the timer or a call is overdue.

## 5. Proofs

All are checked by TLAPS for every value of the constants that satisfies the modules' named assumptions; all
theorems about behaviours are of `Spec`, without fairness.  What they assume of the constants is little: models, launchers and requests are
sets of any size with a value outside for *none* (launchers finitely many), a catalog lists no model twice, times and bounds are natural numbers
with the positive ones positive, a token is in the target's table, prompts and terms are sequences of characters and a term has no
white space but spaces (`TextsAssumption`).  `CallsAreShort` is the one that says something
about the world; section 2 explains it.

**PipelinePool_proofs**: `TypeCorrect`, `LaunchersExclusive`, `ReservationsHaveOneOwner`, `CeilingOverrun`, `ImplementsLease`.
`LauncherExclusive` is not inductive: that a cold start's swap leaves one entry on a launcher depends on
what `tracked` is by then, and that a pass finds no reservation it did not make depends on the positions
in the arrays and on the pass's copy.  `IInv` is `TypeOK` with

- `Ordered`: positions are a numbering of each pool (so *the first entry* is one entry);
- `ColdSound`: a running cold start has its reservation in the pool, of its own model; its `tracked`,
  if still pooled, is of its model and no reservation; an idle one has nothing;
- `Exclusive`: `LauncherExclusive`;
- `Owned`: each reservation is a cold start's or the pass's;
- `TickSound`: what the pass holds in its copy is never a reservation; while it awaits an assembly its
  entry is one, and not a cold start's.

The argument goes handler by handler (one lemma per action); both handlers run through several
entries between awaits, so `PassSound` states the same of the intermediate array, and the lemmas
on `AddEntry`, `RemoveEntry`, `MarkEntryFailed` say what each does to `Pooled` and to positions.
`CeilingOverrunByOne` has an invariant of its own above these (`CInv`).  A cold start begins only while its model's pool is empty, but
the claims the pass still holds for the model count too; so besides the bound, it says that a pool with nothing standing has no more claims
than its ceiling (`Fits`).  Both are carried through the entries a pass goes over between awaits (`FitAll`), where the bound survives
because each claim that leaves the plan adds at most one entry.
The refinement needs one thing more (`LInv`): the claims a pass has yet to carry out are on distinct launchers, and
none is the launcher whose assembly it awaits.  Then each action is a step of the lease or a stutter, several leases
ending in one step where a handler removes several entries.

**PoolAgents_proofs**: `AssembliesDoNotRace`, `WarmLaunchersServeTheirModel`, `PoolRoutesServeTheirModel`.  Who holds a
launcher says nothing of what runs there, since abandoned calls are still waiting.  `AInv` is `IInv`,
`PoolRouteServesModel` and four statements about the queues of calls: nobody awaits two calls
(`AwaitedOnce`); an awaited call is the one its caller's frame stands at, and no `POST` behind an awaited `POST` is
for another model (`CallsSound`); an answer that has not been processed is still true
(`AnswersSound`); and a launcher whose entry nobody is assembling any more runs that model or nothing, and no
call in its queue will change that (`LandedSound`).

**PoolClock_proofs**: `FailedPipelinesGo`, `IdlePipelinesGo`, `HealthyPipelinesStay`.  A bound on an age is a bound on what the
loop does meanwhile, so the invariant counts the calls a pass may still make: `Left(m)` is the time the pass may still
spend on its call in hand and on pipelines other than m's, `Since(m)` what has gone by since it took notice of m's, `Ahead(m)` what is left until m's
has been stopped.  `CInv` bounds each age by these, and says that the snapshot a pass works with is of pipelines
that were as it says when it began (`Snapshot`).

**PoolAllocation_proofs**: `NeverPreempts`, `NeverClaimsTwice`, `PlansAreFull`, `BusiestIsServedFirst`, `PlanAllocationsPlans`.  The first two need that
`claimed` contains the names the pools started with and those of every claim.  The others need how far each
model is filled and what the loop still owes the one it visits (`Counted`, `Filled`), that a launcher a short model could
have used has been handed out or is still before the loop (`Exhausted`), that the loop goes by demand (`InOrder`), and that no
launcher handed out to a less busy model hosts a model left short (`Refused`).  `PlanAllocationsPlans` starts from the last state of the
loop: from `claimed`, the claims are on launchers no pool names; from the counts, no model has more than its ceiling leaves.

**SoftState_proofs**: `SoftStateTypes`, `EndpointsEnteredOnce`, `SilenceClearsNoRecord`, `DemandIsExact`, `RegistriesAreEager`.
`RInv` says that ids in a map were issued, that one endpoint has one entry *expired ones included* (so that a
registration that meets its own expired entry finds only one), that a record is by id and a node's id by endpoint, and that for
every age the requests younger than it are the end of the list, which is why dropping a prefix forgets none that
counts.  The refinement maps the map to its live entries, and shows each loop over the map, whatever it prunes on
its way, to leave the live entries as one eager step does.

**TokenStream_proofs**: `StreamTypes`, `TheGateFailsClosed`, `EveryBadGatewayMarks`, `OneAnswerOneEnding`,
`CompleteRepliesAreWhole`.  `SInv` accounts for every frame sent: what the node's writer has sent is the head, the pieces so
far and at most one ending, each tied to a flag (`Written`); what the coordinator has made of it is a prefix of that, or the
chunks of a prefix, or one answer (`Replied`).  The node only adds frames (`Grows`), so the two halves do not
disturb each other.  `CompleteIsWhole` then is about the first sentinel in what the client got: it is the writer's, or a
piece that spells it.

**Dashboard_proofs**: `TheScreenShowsTheHistory`, `EveryMessageIsAnswered`, `CutRepliesAreFlagged`, `ConversationsKeepTheirModel`.
Whose turn it is, and whether the last row is the *thinking* one, depends on a local of `sendChatMessage`: whether
the message that grows has been pushed (`request.added`).  `DInv` says, in terms of it, that roles alternate and the history is
even unless a reply is awaited that has no row, that the rows are those of the history (with the *thinking* row in
that case), that an ending other than `[DONE]` has its flag, and that a model once used is locked.

Of the prompt check, `VerdictsAreExact`: `VInv` says of each check what state it is in and of each answer that it is exact for the
rules in force when it was given.  What makes an answer exact is `TermsAreFound`: the expression of a term finds a text only where `Mentions`
says, and there whenever the term begins and ends in a word.  Text and term are each brought into canonical form, which keeps the first character of each
run of white space (`Kept`); `Where(x, i)`, a rank among the positions kept, is how far the canonical form is at position i of x.  The compiled
classes stand one for one with the canonical form of the term (`CompiledTerm`).  From a match, the place in the canonical text
rises by one with each class, because a class of white space begins where a run begins: behind a letter, or at a boundary
(`FoundReads`); conversely each place of the canonical text has a position in the text where a class can end (`PlaceOf`), and there the
match stops (`ReadsFound`).  Boundaries are the same in both (`BoundaryReads`), and a term that begins and ends in a word puts one at
each end of its place (`WordsEndThere`).  The categories are each named
once because their first occurrences are as many as they are (`UniqueOnce`).

**SpeculativeDecoding_proofs**: `NeverAborting`, `TokensAreGreedy`, `EveryRoundPays` and
`ImplementsGreedy`, the refinement, for prompts of any length and every `lookahead`.  The invariant adds that what the guard let through fits unless
`lookahead` is negative (`GuardHolds`, `GuardIsExact`), that the rest of a round is what the
target picks after the tokens so far (`RoundIsGreedy`), that it fits, and that it pays.

Where an argument needs the first frame or the first entry of some kind, it takes it from a least-element lemma (`LeastOf`)
that follows from `NatLessThanWellFounded`; no proof rests on an induction scheme.

**Only model-checked**: liveness (`FailedReaped`, `WaitingResumed`, `ReservationsEnd`, `Ends`,
`EveryRequestEnds`, `AnswersCome`, `StatusConverges`), which is beyond the prover.

## 6. Where the code and its comments differ

Each is a run that TLC ends with a counterexample; `PROJECT.json` "findings" quotes the text.

- **ClaimPreemption** (server:433).  A cold start of model A replaces `tracked`, an entry with launcher l1,
  by one on l2, and awaits `POST` at l2.  Meanwhile the pass tears `tracked` down, and model B is
  assembled on l1.  The cold start then stops l1, by the endpoint it noted, and kills B's agent.
  `README.md:721` says a launcher that backs a live pipeline is never killed for another model.
- **ClaimReplacement** (server:317).  The launcher of the entry to be replaced counts as free.  The pass is in
  the middle of tearing that entry down; its `DELETE` arrives behind the cold start's `POST` and stops the
  agent just started: a warm entry with nothing behind it.
- **ClaimTruncated** (app:270).  The connection of a reply is reset after its first piece, because the
  coordinator goes away.  The catch block adds a message only if nothing had arrived; otherwise what has arrived stays as
  it is, unflagged, and the next prompt hands it to the model as a whole reply.  `README.md:1155` says a partial reply is
  flagged; it is where the body ends cleanly (`CutIsFlagged`).

Further observations, without a run:

- *Pool.*  A launcher that lapsed and registered again between two assemblies has another launcherId than the one
  noted, so a cold start may take it for another machine and stop the agent it just started there (server:433).  A plan
  has claims for two models: while the first is awaited, a request cold-starts the second on another launcher, and the pass
  then carries out the second claim as well, since `tryAssemble` looks again at the launcher but not at the model's pool (ppm:520).
  By one claim a pool may exceed `maxPipelines`, which `README.md:708` calls the ceiling on what is kept warm, and by no more:
  `CeilingOverrunByOne`.  A healthy entry that joins a pool while a
  pass awaits a teardown may be torn down, since the pass works with the active nodes and the time it read before; that is what
  `HealthyStays` excuses as new.  A forward that fails late marks every entry that names its driver, also one
  assembled since.  Chat completions and `/generate` after a cold start select by registration and may meet a
  launcher that runs another model by now (`README.md:751` and `:756` disclose it; `PoolRouteServesModel` is about the pool
  route only).  `README.md:674` still says that concurrent assemblies are not deduplicated, which they are.
- *Speculative decoding.*  `lookahead` is an int and the guard's sum a `size_t` (inference_engine.cpp:268).  A negative one wraps: a
  context up to that much too long passes the guard and aborts the process at the draft's decode, and one that fits
  throws at `reserve`.  No caller in the repository passes one; `NeverAborts` states it as the exception.
- *Streams.*  A token whose text is `[DONE]` ends a streamed reply early (`CompleteIsWhole` states it as the one
  exception); a node that dies in mid-stream of `/generate` ends the stream without its driver being marked; a
  character split over two tokens is garbled by streaming (bytes are not modelled).
- *Dashboard.*  A message the classifier blocked stays in the history without a flag of its own, is sent again with
  each later turn and blocks those too until it leaves the window (app:92).  A check may be overtaken by another, and the
  older verdict is shown last (app:303).  A message sent before the first poll came back locks an empty
  model list (app:167).

## 7. Mutants

For each property of a passing run one definition is replaced by a plausible bug: a check dropped at commit
time (`GivenUpUnchecked`), reservations left out of the claimed launchers (`WarmLaunchers`), a reservation kept
on failure, an off-by-one in the prediction index, a heartbeat that revives the dead, an endpoint registered as it is
written, a finish chunk made up for a cut stream, a timer as slow as the timeout it must beat, a failed pipeline left to
expire, a poll that moves a conversation to another model, a catch block that reports a reply twice.  Each makes
TLC find the property violated under the run's own bounds.

## 8. State and plan

Done: the pool with all its actors, its specification `LauncherLease`; planAllocations and its tie to the pool;
the loop on a clock; soft state with what its callers are told; speculative decoding; the
token stream; the safety rules; the dashboard with federation, authentication and restarts; the proofs of section 5,
which cover each safety property that a run checks.

What would come next: the driver's own start-up (spawn, health check, self-registration as steps); the bytes of a piece, for
the split characters; and stronger claims for chat completions, once the code selects through the pool there.

Theorem modules reach no recursive operator; the models are written with sets and functions for that reason.

## 9. Not modelled

- *Pure functions over data*: prompt formatting, JSON escaping and parsing, selector ranking and the grouping of nodes
  by locality: no state, and each input stands alone.  The bearer check of the C++ agents is a copy of the
  coordinator's, which Dashboard has.
- *Constant documents*: the OpenAPI description and static files.
- *Agents' start-up, process spawning, RPC server*: one-time or operating-system calls; their outcomes appear as results of launcher
  calls.  All coordinator state is in memory, so a restart is the initial state with launchers that still run
  agents; the launchers' first `POST` or `DELETE` replaces those.
- *llama.cpp*: a function from contexts to tokens; its failures are `Throws`, `HandlerThrows`, `NodeDies`.
