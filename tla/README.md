# TLA+ models and proofs for PoC-Automation-Laboratory

The laboratory turns a form ("these machines, these components, this
framework") into a provisioned host with a sample application on it. A Streamlit
page posts the form to a FastAPI service; a Celery worker runs a supervisor that
calls two agents, one that writes and runs an install script and one that
generates, builds and deploys an application; Redis carries what the page is
shown meanwhile. Nearly all of it is sequential Python, and what is hard about
it lies where it is not: several processes writing one run's keys, a reader that
follows them over a stream, runs that share files, scripts and image tags, and
long pipelines in which every step may fail after the ones before it took
effect.

This directory holds the models of those parts, the TLC configurations that
check them and the proofs of the most important results. Paths are relative to
the repository's root.

## 1. The system

| Component | State | Operations | Interacts with |
|---|---|---|---|
| Run store, `runtime_bus.py` | per run: hash (`status`, `event_seq`, result, error), event list, pub/sub channel | `initialize_run`, `append_event`, `set_status`, `set_result`, `set_failed`; reads `get_run`, `get_events`, `replay_events`, `stream_events` | written by handler and task, read by the SSE endpoint |
| Event scope, `eventing.py` | the callback of the current context | `emit_event`, `set/reset_event_callback` | agents -> `append_event`; swallows its exceptions |
| Celery task, `apps/supervisor_tasks.py`, `apps/celery_app.py` | the worker's control point | reserve, acknowledge, `run_supervisor_task` | broker, run store, supervisor |
| HTTP API, `apps/supervisor_api.py` | none of its own | `run-async`, run status, SSE events; `plan`, `run`, `graph`, `chat` | run store, broker, supervisor |
| UI run monitor, `ui/run_monitor.py`, `ui/api_client.py` | session: shown events, last event id, announcement | `consume_active_run_stream` | API over HTTP/SSE |
| Supervisor graph, `Supervisor/agent.py` | graph state (missing requirements, executed, outputs, path) | plan, dispatch, build_infra, generate_app, finalize | both agents, event scope |
| Request validation, `Supervisor/validation.py` | none | `check_missing_info`, `has_infra_request`, `has_app_request` | supervisor |
| Infra agent, `InfraAutoSetting/` | script file per host, script cache in Redis | resolve versions, resolve/build/repair script, write, validate, ssh | LLM, Redis, remote host |
| Sample application agent, `SampleAppGen/` | `generated_apps/<app_id>`, `artifacts/<app_id>.jar`, image tags, graph state | plan, generate, validate, repair, `build_code`, `docker_build` | LLM, build tools, docker, remote host |
| UI form and chat, `ui/form_logic.py`, `ui/chat_ui.py` | widgets | form -> request | API |
| Shared helpers, templates, scripts, tests | none | file writing, text, logging | |

What makes each correct, and where it is hard:

- **Run store and task.** An event is numbered, stored and published by three
  Redis commands; two executions of one task interleave them; each command may
  be refused, or take effect although the client sees an exception; a worker
  may die anywhere. Correct means: the list is ordered by id, what is published
  is stored, a terminal status is final and says one thing, a failure is
  explained by the last event, and an accepted run ends unless its worker died.
- **Stream and monitor.** `stream_events` replays, then subscribes, then reads
  the status *before* each message and acts on it *after*. Correct means: the
  session shows each event once and in order, announces a run only when it is
  over, and its announcement is the final state.
- **Sample application agent.** The directory, the jar and the image tags are
  shared by all runs with one application id, the validator looks at memory for
  contents and at the disk for existence, the repair loop must end, and each
  packaging step may fail. Correct means: what is shipped is what was validated
  last, success means delivered, failure gives a reason, the cleanup list names
  what is left behind, and every run ends.
- **Infra agent.** The script path is shared by runs against one host, the cache
  entry by runs with one key, and a script passes three checks that object to
  different things. Correct means: a run takes over only what was made for a
  request like its own, a model's script is checked before it is stored, what a
  run sends is what it validated for itself, and a failure is reported as one.
- **Form, validation and supervisor.** Which components and which framework were
  asked for is decided by callbacks of the widgets, by sanitizers, by the form's
  rules, by `check_missing_info`, by the plan, by the dispatch and by each agent,
  one after the other. Correct means: they agree, nothing is done that was not
  asked for, nothing runs for a blocked request, and summary, events and
  executions tell of the same failures.
- **File plan.** Which files make up a project is stated by the model's plan, by
  `ensure_required_file_plan`, by the template map, by `code_validator` and by
  the templates' own imports. Correct means: they agree, so that a project is
  rejected only for what a model planned or wrote, and finds what it imports.

`PROJECT.json` lists every hazard at its line with the properties that cover it.

## 2. Modules

| Module | Models | Role |
|---|---|---|
| `RunLifecycle` | what a watcher of a run may rely on | abstract specification |
| `RunBus` | `runtime_bus.RunEventStore`, `eventing.emit_event`, the `run-async` handler, broker and task | detailed; implements `RunLifecycle` |
| `RunStream` | `AsyncRunEventStore.stream_events`, the SSE endpoint, the UI's loop | EXTENDS `RunBus`: writer and reader composed |
| `BoundedRepair` | draft, judge, revise at most `MaxRepairs` times, deliver | abstract specification of three components |
| `SampleApp` | `SampleAppGen/agent.py`, `tools.py` | detailed; implements `BoundedRepair` for each run |
| `FilePlan` | `SampleAppGen/plan_builder.py`, `code_validator`, the templates | one run of the same agent, with the rules that `SampleApp` abstracts to a verdict; implements `BoundedRepair` |
| `InfraApply` | `InfraAutoSetting/agent.py`, `cache.py`, `tools.py` | detailed; `_build_script` implements `BoundedRepair` |
| `RequestForm` | `ui/chat_ui.py`, `ui/form_logic.py`, `Supervisor/validation.py` | state of the form; operators from form to request to missing fields |
| `SupervisorRun` | `Supervisor/agent.py` | EXTENDS `RequestForm`: form and supervisor composed |
| `RunLifecycleProofs`, `RunBusProofs`, `RunStreamProofs`, `BoundedRepairProofs`, `SampleAppProofs`, `FilePlanProofs`, `InfraApplyProofs`, `SupervisorRunProofs` | | theorems |
| `MCRunBus`, `MCRunStream`, `MCSampleApp`, `MCFilePlan`, `MCInfraApply`, `MCSupervisorRun` | | finite instances |

How they compose: `RunStream` adds the reader to the writer of `RunBus`. The
supervisor inside `RunBus` is any sequence of events and a result or an
exception, which is what `SupervisorRun` produces; `SupervisorRun` takes each
agent as a success or a failure, which is what `InfraApply` and `SampleApp`
produce; `SampleApp` takes a file's quality as given, which `FilePlan` spells
out. The layers are not joined in one module: the product of their states is
out of TLC's reach, and each is already nondeterministic in everything it takes
from the one below.

### RunBus

One run; every key holds the run's id, so runs do not interact. `job` is the
hash, `log` the list, `channel` everything published, `broker` the number of
task messages in the queue. Each process (the HTTP handler, each worker slot)
has a control point `pc`, and `append_event`'s local `event_id` is `eid`. Redis
executes one command at a time, so a command is one action: `append_event` is
`Incr` (HINCRBY), `Push` (RPUSH), `Publish`. What the client sees of a command
is separate from what it did:

- `"refused"`: no effect, the client raises;
- `"lostReply"`: it took effect, the client raises;
- `"resent"`: it took effect and the client sends it again;
- `"republished"`: the same for the task message, which is then in the queue
  twice.

A slot takes the next message whenever it has none (`Free`), also after a task
that has ended or died, so a task handed out twice may be executed by two slots
at once or by one slot twice.

`HandlerOf` says where an exception takes a process, as the code's `try` blocks
have it: `emit_event` swallows it, the handler answers 500, an exception in
`set_result` leads to the `except` branch, one in that branch kills the task.
The supervisor inside the task is any sequence of events followed by a result
or an exception. An event is its id and the place it was recorded from
(handler, callback, except branch); texts and timestamps are left out.

### RunStream

Adds the session: `Connect`, `Replay`, `YieldReplayed`, `Subscribe`, `Poll`,
`GetConfirmation` / `GetMessage` / `GetNothing`, `SendDone`, `ReadStatus`,
`ReadEvents`, and `Drop` for whatever ends a stream early. Server and browser of
one stream are joined by one ordered connection, so a yield is delivered in the
same step and `Drop` may come after any of them. `get_message` returns `None`
for the confirmation of the subscription, which costs one round of the loop:
`GetConfirmation`. `blind` and `replayedTo` are history variables; no action
reads them. `Above` is the loop of `replay_events` and `get_events` over the
slice LRANGE returned, a recursive function over its length.

### SampleApp

All runs of the module use one application id (runs with other ids share
nothing). A file's content is who wrote it, in which repair round, and what
validator and compiler will say of it; a tree on disk, in the jar or in an image
is a function from paths to contents. The graph's nodes are split where another
run can come between: `ClearProject`, `WriteSpec`, one `WriteFile` per file,
`ValidateFiles`, one `RepairFile` per file, `ChooseCommand`, `RunBuild`,
`CopyArtifact`, `BuildImage`, `LoadImage`, `StartContainer`, with the failures
of each. `BuildIssues` is what `_parse_build_issues` can make of a failed
build: the files the compiler names, the pseudo path `BUILD`, or nothing.
`LoadImageFails` and `StartContainerFails` may have taken effect: ssh can end
with an error after the remote command did its work. The `docker run` is the
model's own, with the plan's image name replaced as a text: `starts[r]` says
whether it names that image (`"own"`) or another (`"other"`), which starts
`Foreign`. `Raises` is an exception anywhere; `run()` turns it into a result that
has lost the graph's state. `meddled[r]` is a history variable: another run wrote
something shared while `r` was at work on it.

### FilePlan

One run, undisturbed. A file is its name; of a text counts only what
`code_validator` looks for (`Marks`): an entry point, a mention of
`jakarta.validation`, the starter for it, broken Python, the start command of a
Dockerfile, a `sh -c` in its place. `TemplateText` says which marks each template has, `Answers` which a
model may produce for a file, the empty text of an unanswered request included.
`PlanSpec` is a plan of the model, `Normalized` (`Sanitized`, then `Required`),
`FallBack` the fixed plan, which the code neither sanitizes nor completes.
`ValidateFiles` and `RepairFiles` follow the graph: issues carry the path they
are reported on, which for some is a pseudo path that no planned file has.
`BuildSucceeds` and `BuildFails` stand for everything after acceptance.
`asked` is a history variable: the entry points the model's own plan declared.

### InfraApply

Runs share `cache` (Redis) and `file` (one path per host). A script is the
request it was written for, its author (model or template) and its traits: what
`_basic_guard`, `_validate_script_content` or `code_validator` could object to;
`ContentIssues` and `CodeIssues` are the two lists of objections. `Key` is what
the cache key is computed from, after version resolution. A request has the
traits (`pasted`) that its own words give to the deterministic script, which
pastes them in unquoted or quotes them twice (agent.py:508, 570, 573). The write of the file
is two steps (`OpenFile` truncates, `WriteFile` writes), so that another run may
read it empty; `ValidateFile` reads it, and `Send` reads it again. `Expire`,
`CachePut` and `CacheMiss` include a Redis that is away. `ExecuteFails` leaves
open, for each of ssh's codes, whether anything was sent: a host that cannot be
reached is reported as a script that failed. `meddled[r]` is a
history variable: another run wrote the file since `r` did.

### RequestForm and SupervisorRun

`selected`, `version`, `instances`, `framework`, `frameworkVersion`, `apps` are
the widgets that a callback writes; the others are chosen when the form is
submitted (`Entries`). `SetComponent` and `SetFramework` are the widgets'
own edits, `SelectComponents` and `SelectFramework` the callbacks that follow a
selection. `Refused` are the form's rules, `BuildUserRequest` the request after
the sanitizers, `Missing` the list of `check_missing_info`.

`SupervisorRun` submits such a request, or takes one from the API
(`ApiRequests`), as `plan`, `run` or `chat_reply`, and goes through the graph:
`BeginPlan`, `EndPlan`, `Dispatch`, `SkipInfra` or `CallInfra`, `InfraReturns`,
`CallApp`, `AgentSkips` or `AppReturns`, `Finalize`, `AnswerRun` / `AnswerPlan`.
Each emits its events. `generated` is a history variable: the application agent
did not skip.

## 3. Runs

Every `.cfg` sets `CHECK_DEADLOCK FALSE`: a run of the program ends, and then
nothing more happens; that ends are proper ends is what the liveness properties
say.

| Run | Instance | Shows |
|---|---|---|
| `bus_clean` | 2 slots, 4 events, 2 refused commands, 2 crashes | ordered list, final and consistent verdict, end unless the worker died, refinement of `RunLifecycle` |
| `bus_twice` | 2 slots, 4 events, 1 redelivery, 2 faults (refused, lost reply, task published twice), 1 crash | ids stay unique, published events are stored, although the order of the list is lost |
| `stream_clean` | 1 slot, 4 events, 1 refusal, 1 crash, 1 drop | the announcement is final, only events between replay and subscription can be skipped, a connected session hears of the end |
| `stream_lost_reply` | 1 slot, the task in the queue once, 3 events, 2 commands refused, with lost reply or resent, 1 crash, 1 drop | failures stand and are explained; the session shows an event once, in order and only if stored, and announces only ended runs |
| `sample_alone` | 1 run, 3 files (1 template), every quality, 2 repairs, both frameworks, over an earlier run's leftovers | ends, failure is reasoned, refinement of `BoundedRepair` |
| `sample_shared` | 2 runs, 1 file, good or flawed, 1 repair, 2 seconds | with two runs writing the same files and tags: an undisturbed run ships what it validated, success is delivered, cleanup lists name what is left but by a failed load or run |
| `file_plan` | all requests; no plan, or a plan of at most 2 of 10 files; every text; 2 repairs | but for completed and Maven boards, a rejection is due to the model's plan or words; what templates import is planned |
| `infra_apply` | 2 runs on one host, 3 requests that resolve to one version (two with one key and another package of Java, one without sudo that spoils the deterministic script), 3 kinds of draft, 1 repair, old cache entries that one of the checks refuses | scripts fit, but for Java on Amazon Linux; a model's scripts are checked; undisturbed, what is sent was validated; failures are reported; ends; refinement of `BoundedRepair` |
| `supervisor` | the form with 2 components, at most 1 instance, at most two blank texts; 13 API requests, sent while the form is untouched; 3 kinds of call | form, validator, plan, agents and report agree; every call is answered |

Why these bounds are enough to see the hard cases: two slots and one redelivery
are what it takes for two `append_event`s to interleave, and four events let one
of them overtake the other between handler and verdict; two faults cover a fault
in the task and another in the branch that handles it; one drop covers a return
with a stale id. In `SampleApp` two repairs give a first round, a last round and
the exhausted budget; three files give a repair that touches some and not
others; two clock values let two runs share a tag or not. In `InfraApply` two
runs on one host are what it takes for one to write between the other's check
and its ssh; the first two requests differ from the third
in one part of the key, so that a key without it mixes them up, and from each
other in what the key lacks; the drafts are one objection of each check;
one of the runs may use sudo, since the runs may change places, a dry run starts
without old entries, and an old entry that passes all checks is what the runs
themselves store (`MCInit`); one repair gives a round and the exhausted budget. In `SupervisorRun` one
component with a Java dependency (Tomcat) and one without (Apache) differ in
every rule; two blank texts are enough because each rule looks at one
field, or at the two credentials together; and what is sent to the API owes
nothing to the form, so it is not sent again in every state of it (`MCNext`). In `FilePlan` two proposed files are
what it takes for a file of a board beside an entry point of another name, and
the ten are one for each combination of rules (template or not, in a board or
not, named as an application or not, dropped or not). `sample_shared` uses
the symmetry of the two runs, which is sound because it checks invariants only;
one file is enough there, because what is at stake is whose tree lies in the
shared places, not which of its files.

`MaxEvents`, `MaxFaults`, `MaxCrashes`, `MaxRedeliveries`, `MaxDrops` and
`MaxClock` are bounds of the model that guard the actions they count;
`MaxRepairs` is the code's own `max_repairs`.

### Disagreements with the documentation

Three runs check a sentence of the documentation that the code does not keep,
and TLC shows how:

- `stream_done`: README.md:65 promises that every stored event reaches the UI
  over SSE. An event published between the replay and the SUBSCRIBE, or still
  waiting when a terminal status was read, is never sent before the done frame
  (`runtime_bus.py:160`). The UI's final read of the whole run makes up for it,
  which is `AnnouncementIsFinal`.
- `sample_fastapi`: SampleAppGen/AGENT.md:5 lists FastAPI as supported. Its
  build has no command and still has to produce a jar, so it always ends in
  `E_ARTIFACT_MISSING` (`SampleAppGen/tools.py:243`).
- `supervisor_blank_framework`: AGENT.md:26 says that a node without a request
  skips. `has_app_request` takes a blank framework, the default of
  `UserRequest`, for no request; the agent skips only for the word `none`, and
  generates an application the plan called skipped
  (`SampleAppGen/agent.py:118`).

Properties that hold with an exception name it, and the exception is a finding
of its own:

- `VerdictIsDue`, `BoardUnderMaven`: a Spring board built with Maven, the default,
  is rejected: its templates use `jakarta.validation`, `pom.xml.tmpl` lacks the
  starter, the issue lies on the path `build.gradle|pom.xml`, which no repair
  reaches, and both files come from templates anyway. SampleAppGen/AGENT.md:47,112
  has such projects in mind; the property leaves their verdict open.
- `VerdictIsDue`, `BoardCompleted`: a board whose `BoardApplication.java` the
  planner adds has two entry points, that one and the one the plan declared
  before, or the main class that is added as well. It is the planner's doing, not
  the model's.
- `VerdictIsDue`, `WrongPlan`: the model's plan declares two entry points itself,
  or calls one a template that is none, which keeps `MainClass` out. Without a
  model the fixed Spring plan has an empty `SampleAppApplication.java`, which is
  rejected as `WrongWords`.
- `ScriptFitsRequest`, `AcrossAmazon`: the cache key knows the package manager, the
  package of Java depends on the `os_type` (`InfraAutoSetting/agent.py:602-612`).
  A run for RHEL takes over what a run for Amazon Linux stored, with
  `java-*-amazon-corretto-devel`, and the checks accept either; AGENT.md:28 of the
  agent has the cache for the same request.
- `ShippedIsValidated`: a `docker run` of the plan that names another image than
  the plan's is executed as it is (`SampleAppGen/agent.py:391-396`), and its
  success is the run's.
- `LeftoversAreListed`: what a `docker load` or `docker run` that was reported as
  failed left on the target is on no cleanup list
  (`SampleAppGen/agent.py:425-440`); the image is listed after a success only.
- `PlannedIsClosed`: `main.py` imports the board of a FastAPI project that has
  none.
- `SubmittedLacksOnly`: the form lets through what the supervisor then finds
  missing: a blank SSH user, nothing chosen, no Java for Tomcat or Kafka, a blank
  log directory.
- `ChosenIsChecked` says nothing of the deterministic script, which no content
  check sees before it is stored: for a pinpoint version that needs quoting,
  `InfraAutoSetting/agent.py:570` quotes it twice and `bash -n` fails. It is
  stored and then rejected by `code_validator` after that, and meets the content
  checks only when a later run finds it in the cache.
- `ChosenIsChecked`: a script is cached before `code_validator` has seen it, so
  that one that uses sudo where it is forbidden is rejected again by every run
  with its key until it expires.

A build that fails without output (a build that was killed) yields no issue and
ends a run with its repair budget unused (`SampleAppGen/agent.py:488`), against
SampleAppGen/AGENT.md:8; `BuildFails` of `FilePlan` and `BuildIssues` of
`SampleApp` have that case.

`FailureStands` rather than `TerminalIsFinal` is what survives lost replies: a
`set_result` that raises after it took effect makes the task overwrite a success
with a failure.

A task that is executed twice, because its message was published again or held
beyond the visibility timeout, starts the second time with the status `running`
(`apps/supervisor_tasks.py:24`), whatever the first came to. `FailureStands` and
`AnnouncedIsOver` are violated as soon as `stream_lost_reply` is given the fault
`"republished"`, and `FailureIsExplained`, `VerdictIsConsistent` and the order of
the list do not survive two slots at once. No document says that a task is
executed once; these properties are stated for a task that is in the queue once,
and `bus_twice` checks what remains.

## 4. Fairness

`RunBus`: weak fairness of the handler and of each slot; a Python process goes
on with its next statement, and redis-py's calls return or raise. Nothing forces
a fault, a crash or a redelivery. `RunStream`: weak fairness of the stream's own
steps and of the first connection, which follows the POST in the same script
run; a return after a drop depends on the user, so `EndIsAnnounced` excepts it.
`SampleApp`: weak fairness of each run's steps; subprocesses and LLM requests
have timeouts. `InfraApply`: weak fairness of each run's steps, for the same reason
(`bash -n` and ssh are called with timeouts); nothing makes a cache entry
expire. `SupervisorRun`: weak fairness of the graph's steps, not of the user.
`FilePlan` is checked for safety only; that its loop ends is `EveryRunEnds` of
`SampleApp`. That the repair loop ends follows from its count, not from
fairness: a mutant without the count violates `EveryRunEnds`.

## 5. Proofs

`tlapm` checks all of the eight proof modules. Nothing is assumed but the named
`ASSUME`s of the models (bounds are naturals, the handler is not a worker, `None`
is no content and no tree, ...) and, where a theorem says so, a hypothesis on the
constants: which faults are considered and whether a task is handed out twice.
The invariants and measures of the detailed modules below were checked by TLC
on their instances before they were proved.

**RunBus**, for any number of slots and events:

- `TypeCorrect` and `PublishedStored` hold with every fault and redelivery.
  `PublishInv` strengthens the latter: a process about to publish has its event
  in the list.
- `IdsUnique` holds with redeliveries, crashes, refusals and lost replies, as
  long as the client sends no command twice (`NoResend`). `UniqueInv`
  strengthens it: stored and drawn ids are at most the counter, and a drawn one
  differs from all that are stored and belongs to one process until it is.
- `SingleTask` says that the task is in the queue once and that no command is sent
  twice. Then `SingleInv` is inductive: `Token` (exactly one process holds the
  run: the handler before `delay`, the message, or the one slot that took it;
  without it two appends could interleave), `Numbered` (ids of the list grow and
  stay below `event_seq` and the id being stored) and `Explaining` (at
  `set_failed` the last event is the failure's). From it: `IdsInOrder`,
  `ReplayNeverRepeats`, `FailuresExplained`, `FailuresStand`, the last two
  with lost replies included; and `IdsArePositions`, where before the first
  fault the counter is the length of the list, plus one while an id is being
  stored.
- `CleanFaults` says that a command that raises had no effect. Then `CleanInv`
  adds `Recorded`, which ties the hash to the holder's control point, and gives
  `VerdictsConsistent`, `Finality` and `Implementation`: `RunBus` implements
  `RunLifecycle` under `status <- job.status`.
- `AcceptedIsHeld` needs none of these hypotheses: once the API has answered, the
  run is over, or the broker has its task, or some slot is past `idle` and not
  `ended` (a dead one counts). `SlotsKeep` is the argument: a slot that stops has just made the
  status terminal, one that crashes before the acknowledgement gives the message
  back, and whatever else it does leaves it at work. It is the safety half of
  `EndsUnlessWorkerDied`.

**RunLifecycle**: `PromisesKept` (ids grow along the log, a failure is explained
by its last event) and `OnlyForward` (the status moves forward, events are only
added, above all others, and nothing follows a terminal status) say what the
abstract specification is worth to a watcher; with `Implementation` they hold of
`RunBus`.

**RunStream**, for any slots, events, faults and drops:

- `StreamIsBus`: a step of the watched system is a step of `RunBus` or leaves its
  variables alone, so that all theorems above hold of the composition. Those
  about the session take `SingleInv`, `CleanInv`, `PublishedIsStored` from there.
- Lemmas about the replay. `Above` is defined by recursion; `CollectsExists`
  shows that the function exists and `AboveEquation` unfolds it. What it returns
  (`AboveKept`: the entries above `n`, in order; `AboveAll`: all of a list that is
  above `n` throughout) is an induction over the list. The library's induction
  theorems take an operator; `LeastNumber` and `Climb` state the same of a *set*
  of numbers, which the provers can use.
- `OrderInv` (until the final read, ids on the screen grow up to `uiLast`) gives
  `ShownInOrder`, `StoredInv` (what is yet to be yielded is stored, too)
  `ShownStored`; both with every fault and redelivery.
- `Settled`: when the status is terminal, some slot is past the point where it
  could say `running`. It makes `OverStaysOver` hold although a lost reply can
  turn a success into a failure, and `SeenInv`, which says of every later point
  of the UI's loop that the status it read is still terminal, inductive:
  `AnnouncedOver`. Both need `SingleTask`: a second hand-out of the task starts
  the run again.
- `FinalInv` needs `CleanFaults`, and `Finality` then carries what was read to
  the announcement: `AnnouncementFinal`.
- `SkippedOnlyThen` needs to know that the channel is the list, but for the event
  between RPUSH and PUBLISH (`ChannelFollows`, of `RunBus` alone), and that ids
  are positions. `SkipInv` then says, for every point of the stream, up to which
  id everything is on the screen or passed while the session subscribed.

**BoundedRepair**: `RoundsBounded` (nobody rejects a draft there is no round left
for), `VerdictsHold` and `RepairsRunOut`: `MovesLeft`, at most `3 * MaxRepairs + 3`,
falls with every move. With `ImplementsDraft`, `ScriptIsABoundedRepair` and
`FilePlanIsABoundedRepair` this bounds all three repair loops.

**SampleApp**, for any set of runs, file plan, templates and budget:

- `SampleTypeCorrect` needs `BudgetLeft`: a repair is entered with budget left,
  so that the round it ends in is still in range.
- `Own` and `Shared` frame a step of one run for the others: it leaves theirs
  alone, and if it touches what is shared, runs at work are marked `meddled`.
- `Sound` (for undisturbed runs): from the last file generated to the image,
  disk and memory agree; no jar exists before this run built one; jar, image and
  remote image are that tree. It is needed because `ShippedIsValidated` only
  looks at the end of the pipeline.
- `Honest` (for all runs): files are complete after generation, accepted in the
  packaging, the image exists before it is shipped, and success is only claimed
  at the end. `ImagesStay` carries it over other runs' steps: tags are only ever
  overwritten with trees.
- `RunsInv`, the conjunction, is inductive and gives `ShipsWhatItValidated`,
  `SuccessIsEarned`, `FailureIsAccountedFor` and, with a lemma per action group
  that names the step of `BoundedRepair` taken, `ImplementsDraft`.
- `Leftovers` gives `CleanupIsComplete`. `Booked` and `Traced` say of a run that
  what bears its name is on its cleanup list; that alone is not inductive, since
  a run archives whatever jar it finds. `Apart` adds that, unless runs mixed
  their files, a run at work finds none of another run, not even of one that has
  ended: `ClearProject` removed them.
- `SampleStepsRunOut`: `StepsLeft`, at most `8 * MaxRepairs + 12`, falls with every
  step of a run, or the step takes one file off those its node has to write.

**FilePlan**, for any files of the model's, any plan, any texts and any budget:

- `Complete` says what normalization and the fixed plan have in common
  (`NormalizedIsComplete`, `FallbackIsComplete`): descriptor, Dockerfile and an
  entry point or a declared one are planned, and a board that is touched is
  whole. `TextsFit` says that every file has its template's text or one a model
  may write; `WriteFits` that writing keeps it so. `Routed` ties the node to the
  verdict on what is on disk.
- `ApiVerdict` and `SpringVerdict` judge such a project; `NormalizedDeclares` and
  `FallbackPlanDeclares` tie the entry points it declares to those the model
  asked for. They give `VerdictsAreDue`; `CompleteIsClosed` gives `PlansAreClosed`. The plans
  are sets of any size here, where TLC has two files.
- `FilePlanIsABoundedRepair` names the step of `BoundedRepair` for every action.

**InfraApply**, for any runs, requests, drafts and budget:

- `ScriptsInv` ties what a run holds, and what the cache holds under each key, to
  the request it was made for; it is needed because a run takes over what
  another stored. It gives `ScriptsFit` (`KeySeparates`: what requests with one key have in
  common) and, with `Taken`, which keeps what `CacheHit` checked for as long as
  the script is in use, `ChosenAreChecked`.
- `FileInv` says of every host's file that it is empty or some run's script, and
  of a run nobody meddled with that it is its own and accepted: `SentAreValidated`.
  `OutcomesAreTold` goes over the ends.
- `BuildInv` relates round and control point; `ScriptIsABoundedRepair` follows.
- `StepsRunOut`: `StepsLeft`, at most `2 * MaxRepairs + 8`, falls with every step
  of a run and with nobody else's.

**SupervisorRun**, for any components, instances, entries and API requests:

- `FormInv` carries the types of the form and that a request from the form was
  built from it and refused by no rule: `FormAndSupervisorAgree` and, with
  `CallInv` (what has been executed is what the routes so far allow),
  `PlansAreDone` and `FormsAreServed`.
- `ReportInv` says for every point of the graph which events have been written,
  word by word (`CallWords`, `PlanWords`, ...), and that the failures in the
  executions are those in the events; `AnswerMeant` carries it to the answer.
  It gives `ReportsAreTrue`.
- `AnswersComeNearer`: of the steps of a call, nine at most, each takes it nearer
  to its answer, and there is one answer (`AnsweredAtEnd`).

Every invariant and every action property of the passing runs is a theorem.
Model-checked only is liveness, which is out of the prover's reach:
`EndsUnlessWorkerDied`, `EndIsAnnounced`, `EveryRunEnds`, `EveryCallAnswers`, and
the fairness half of the sample agent's `ImplementsBoundedRepair`. For the agents
and the supervisor the measures above are one half of it (whoever goes on comes
to an end); that nobody gets stuck before, ENABLED, and the step from both to
"eventually" are TLC's.

## 6. Not modelled

- Undecodable JSON in Redis and the deletion of a run's keys: no code of the
  repository produces either.
- Prompts, texts of messages and notes, rendering, logging, the HTTP client of
  the LLM: an answer of the LLM is any content of the considered marks,
  traits or qualities, or none.
- The shell text of install scripts, and their effect on the host: a script is
  what its checks could say of it.
- `docker run`'s port failover (`SampleAppGen/tools.py:463-502`) is one step of
  `SampleApp`: success, or failure with or without a container left behind.
- A second submission while the page still watches a run
  (`ui/chat_ui.py:348`): `RunStream` has one run.
- A host without `bash`, or a `bash -n` that does not answer: both checks swallow
  the exception and go on without it (`InfraAutoSetting/tools.py:104`).
- `network_policy` and `additional_request`, which reach the prompt of a script but
  not the key of the cache.
- What the board templates do: they are copied into generated applications and
  do not run here. `FilePlan` knows what they import and contain.
- Scripts and tests.

## 7. Plan

In order of importance:

1. `DockerRun`: the port failover, at most three retries, the containers and
   ports it leaves behind, with two runs against one host.
2. Two runs under one session: `RunStream` with a store per run.
3. Proofs: that without an injected fault or crash a slot always has a step to
   take until its run is over, as a state predicate that spells the guards out.
4. `SupervisorRun` with the agents' own outcome codes, as a step towards a
   refinement of the supervisor inside `RunBus`.
