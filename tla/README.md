# Enterprise Sim: TLA+ models, checks and proofs

Enterprise Sim plays organisational scenarios (a design review, the sale of
merchandise, ...) over a simulated enterprise and renders the documents that the
simulated people would have left behind.  This directory holds TLA+ models of
the parts of the program whose correctness is hard to see and hard to test, the
TLC configurations that check them, and theorems that TLAPS proves for every
value of their constants.  Every definition is translated from the code; the
`map` of `PROJECT.json` names the lines behind each.

To check a module: `tlc -config MCRunAssembly.cfg MCRunAssembly`; to prove one:
`tlapm CalendarProofs.tla`.

## 1. The system

A run goes through four layers.  A builds a world (people, teams, projects) from
a configuration and a seed.  B, the scheduler, plays the scenarios of the
projects over a window and leaves an event log.  C renders the deliverable
events of the log with a language model.  D assembles the run directory.  Around
it lie jobs (runs that can be paused, resumed and extended), the graph explorer
(an Electron application whose sidecar process supervises jobs), and tools that
work on finished runs (benchmarks, reconstruction, data products, evaluations).

| component | state | operations | interacts with | hard about it | what makes it correct |
|---|---|---|---|---|---|
| working calendar `core/sim/calendar.py` | none | `is_working`, `next_working_start`, `advance`, `next_free_slot` | called by all of layer B | boundaries: closing time, nights, days off, empty and over-long slots | the loops return, and return the earliest free slot, the instant after the last tick of work |
| scheduler `core/sim/scheduler.py` with `event_queue`, `clock`, `busy_map`, `journal` | queue, clock, journal, bookings, instance ids seen, conditions fired, issues | seeding, popping, executing an instance (steps, effects, comments), dispatching events, milestones and conditions, deriving calendars | writes the world graph; its log is the input of layer C | instances are executed to their end ahead of the clock; cascades; one-shot triggers; the edge of the window; the cap | nothing is enqueued in the past or twice, ids are unique, working hours, dependencies, double bookings flagged, nothing due forgotten, every run ends |
| role resolver `core/sim/resolver.py` | none; writes relationships, loads and affinities into the world | filters, exclusion, cap, ranking, sampling, reinforcement | called for each instance | every call changes what later calls rank by | candidates respect every constraint, weights account for the calls |
| world graph `core/world/graph.py` | nodes, edges, events and their indexes | add, neighbours, query, projection | written by A and B, read by C | a projection is a view of the past of a graph that is changed in place | a view of an earlier instant keeps its elements, and what they hold but the weights of affinities |
| world builder `world_builders/` | the world, slugs, affinities | departments, teams, people, goals, initiatives, projects; pages | reads the configuration and archetypes | names made unique in different ways, a raise in the middle | the chart is a tree, teams are staffed, only clashes raise |
| render pool `core/llm/client.py`, `cache.py`, `assembly/corpus.py` | response cache, cost tracker, counter | `generate_many`, `_call`, `get`, `put`, `record` | threads share all of it and the sink and control of a job | interleavings; ceiling checked and recorded apart; failures while others run | each artifact reported once, bounded overspend, reported implies cached, quiet end |
| job worker `jobs/worker.py`, `state.py`, `control.py`, `progress.py`, `extend.py` | `state.json`, `control.json`, `progress.jsonl`, the cache | run or resume, copy the parent's cache, pause, fail, finish | run as a process by the manager or a user | kills, signals, broken pipes between any two steps; a cache that is the job's own, its parent's or nobody's | the ledger adds up, claims no more than the snapshot; nothing is paid for twice while the snapshot is there |
| job manager `sidecar/jobs/manager.ts` | the workers it supervises | create, start, pause, cancel, delete, list, watch, update the configuration | the Runs view calls it; it writes the files the workers write | the sidecar exits and returns without memory; cancel reads, awaits and writes | final states are final; one worker at a time |
| explorer requests and stores `sidecar/index.ts`, `renderer/` | pending requests, subscriptions, view state | request, stream, cancel | renderer and sidecar over a socket | stale answers after an await; a watch that subscribes after it has replayed | everything awaited is answered; at rest the view shows what is |
| evaluations `evals/`, `sidecar/evals/` | question set, proposals, run metadata | generate, add, remove, propose, review, run, cancel | CLI processes and the sidecar share the files | coroutines that share a list; a cancel at any await; two commands on one file | ids unique, each question answered once, no answer lost |
| templates `templates/`, registry `core/registry/` | template directories, registered names | scaffold, edit, validate, list, discover | an agent edits while the CLI validates; runs import the directory | three processes read the directory apart; a failed import keeps what it registered | a verdict is what the directory deserves; valid templates can be run |
| authoring `authoring/` | none | SDK, lint, playbook suite, lowering, conformance tests | produces scenarios for the scheduler | three readings of one playbook; hand-written graph searches | what passes lint runs as lint saw it |
| data products `data_products/` | specification, files of a run | author, lint, sample, link, materialize, ask, patch | reads the world; a model answers | the data is redrawn, the files rewritten, runs cut short and repeated | the files describe the data beside them; specifications only grow |
| reconstruction `reconstruct/` and benchmark `benchmark/` | chunks, mentions, clusters, graphs, scores | print, chunk, extract, resolve, build, align, ask | reads pages, writes graphs | union-find over pairs, a greedy alignment, closures computed in three ways | nothing lost or invented, fair scores, one answer |
| processes with a lifecycle, producers, exporters, configuration, CLI | none that is shared | formatting, declarations, argument parsing | | | section 7 |

## 2. Plan

Most important first; all of it is written:

1. `WorkingCalendar`, its two loops, and the proofs that the loops compute what
   the rest of the project calculates with;
2. `Scheduler` on that calendar; `RunAssembly`, the scenarios of a run over one
   world; `SchedulerProofs`: every safety property of both, for every scenario;
3. `RenderPool`, the threads of one render; `JobLedger` (abstract) and `JobRuns`
   (worker, manager, user, the copy of a parent's cache), which implements it;
   `RenderPoolProofs` and `JobRunsProofs`, their safety and the refinement;
4. `Explorer`, requests and stores over the socket, and `EvalRuns`, with
   `ExplorerProofs` and `EvalRunsProofs`;
5. `WorldGraph`, `WorldBuild` and `Resolver` (layer A and what layer B writes back),
   with `ResolverProofs`;
6. `Playbooks` and `Authoring`; `DataSpec` and `DataRun`;
7. `Corpus`, `Reconstruct`, `Fidelity`, `Ontology`, over the worlds of `WorldBuild`;
8. `Templates` with the registry, and `TemplatesProofs`.

Composition.  `Resolver` extends `WorldBuild`, which extends `WorldGraph`;
`Reconstruct` builds a world with the actions of `WorldBuild`, prints it with
`Corpus`, and asks the result with `Ontology` and `Fidelity`; `Authoring` extends
`Shipped`, which extends `Playbooks`; `DataRun` extends `Scenarios`, which extends
`DataSpec`; `RunAssembly` plays
several scenarios of `Scheduler`, which extends `WorkingCalendar`.
Modules with theorems reach no recursive operator; `Reconstruct` declares one, for
a property that TLC alone checks.

## 3. Modules

**`WorkingCalendar`** has no variables.  An instant is a natural number of ticks
and instant 0 the midnight before a Monday; a day has `DayLen` ticks, of which
`DayStart..DayEnd-1` are working ticks if its weekday is in `WorkDays`.  The
resolution of a tick is up to who gives the constants, so that what is proved for
all of them holds at the microseconds of a Python `datetime`.  `Advance` and
`NextFreeSlot` are stated by what they return: the instant just past the h-th
working tick, the least start of a free slot.  Time zones and the arithmetic of
floating point hours are left out.

**`FreeSlotSearch`, `AdvanceSearch`** are the loops of `next_free_slot` and
`advance`, one action per pass, one behaviour per call.

**`Scheduler`** is `Scheduler.run`.  `Init` is the seeding (`_seed_queue`,
`_seed_condition_ticks`); `PopTick`, `PopFiring`, `Settle` and `TripCap` are a
turn of `_drain`; the other actions are the body of `_run_instance`, one for each
thing that changes state: `PlaceStep` (anchor, first booking, time of the event),
`BookActor` for each of the other actors, an effect at a time, `EmitStep` (journal and
reactions), the comments one at a time, `EndStep`.  The people of a role are a sequence
in which one may come twice: nothing forbids it of a bind (`scheduler.py:472`) or of a
selector that is not distinct (`resolver.py:377`).  An actor who does is booked twice for
one event; one who comments on a step draws the same again, and `append` raises at the
first comment (`CommentRaises`), unless the first turn led to none (`CommentsNoMore`).  The program is sequential, so that the
steps of an instance follow each other; what TLC explores is the choice of
scenario, window, arrivals, people and comments, and the order of items of equal
time and priority, which the code settles by the spelling of ids.  Seeded draws
are choices, which drops determinism as a property.  `since` is a history
variable: the simulated time of the latest write of each property.  Imperative
processes (`impl`) and `Spread` windows other than a step's are left out.

**`RunAssembly`** is the first phase of `build_corpus` around it, and the validator at
the end of a run.  `Play` is a step of the scheduler of the scenario that is on;
`Gather` takes over its journal, calendars and issues under the ids of its
initiative, and `NextScenario` makes the next scheduler, on the world as it is.
`SweepBooking` is a turn of the loop of `_scheduling_conflicts`.  Rendering comes
between the two in the code and is the subject of `RenderPool`.

**`RenderPool`** is one call of `generate_many`.  A task walks through `check`
(`should_pause`), `lookup` and `call`, `ceiling`, `record`, `put` for each
producer, then `count`, `apply`, `forward` for each artifact; a step between two
of these is a place where the code holds no lock.  `Collect`, `Propagate` and
`Close` are the caller, which takes results in the order of tasks inside a
`with ThreadPoolExecutor`.  The price of a request is fixed; the history
`billed` counts answers of the provider, recorded or not.

**`JobLedger`** is what `docs/EXPLORER_RUNS.md` promises of a job; **`JobRuns`**
is the code: the directory (`request`, `state`, `pauseFile`, `ceiling`, `cache`),
up to `MaxStarts` worker processes, the manager's map of what it supervises
(`sup`) and a cancel it may be in the middle of.  `layout` says where the answers are
kept: in a directory of the job's own, which only a run that took none over gets
(`jobs/cli.py:179`); in that of the run it extends, inherited with the configuration
(`extend.py:52`), where nothing is copied and all goes when the parent's job is deleted
(`DeleteParent`, `manager.ts:200`); in another that the user names, to which the parent's
is copied when it is empty (`CopyLook`, `CopyFile`, `CopyContents`: a file is there, empty,
before its contents are, `torn`); or nowhere, for the form of the explorer writes null for
a field left empty (`store-runs.ts:340-343`).  What jobs that extend one parent at the same
time do to the directory they share is left out.  A worker renders its artifacts one by one; several at once are the subject of `RenderPool`.  Processes die at
any step (`Kill`), SIGTERM sets a flag or ends them depending on where they are
(`Terminate`), and a worker whose reader has gone fails when it next reports.
User actions have the guards of the buttons in `JobList.tsx`.  It is assumed that
`uv run` passes a signal on, that a pid is not reused, and that no one runs
`job run` by hand beside the explorer.  The refinement maps `status` to what the
list shows (`View`), `rendered` to the cache, and `covered` to a sidecar that has not
exited and a snapshot that is there.

**`Explorer`** has the renderer's state (`ui`, one record of the stores' slots), the
socket in both directions (`up` is part of `req`, `down` a queue), the requests
with the place each handler has reached (`req[id].at`), and one job with its
worker, its stdout and `progress.jsonl`.  A handler runs up to its next await; a
step between two awaits is one action, for JavaScript runs it so.  `Receive` is
`rpc.ts` taking one message, and whatever the store does with it.

**`EvalRuns`** has the question file (`Lines` reads it as commands do), commands
that read it and write it back later, the conversation that proposes questions,
and one evaluation: `run` is its metadata, progress and the coroutines of
`run.ts`, which share `next` and the list of what is done.  The Python runner
(`evals/runner.py`) is the same run answered by one process that the sidecar reads.

**`WorldGraph`** is the store as a value (`++` merges two functions as `@@` of `TLC`
does; `Projection` gives nodes and edges with what they hold, as `graph.py:387-421` copies
them); **`WorldBuild`** walks through `_WorldBuilder.build` (`plan` is what it has left
to do), with draws as choices; **`Resolver`** makes up to `MaxCalls` calls of `resolve`
on the result, each one a step, while time goes on between them.  `calls` is a history
variable: what was asked, when, and who was drawn.

**`Playbooks`** holds what lint, the test kit and the lowering read off a
playbook; **`Shipped`** has the five that come with the program (two plugins, three
patterns) in the words of the SDK.  **`Authoring`** takes one of these or a generated
one, and walks `lint_playbook` through its three graph searches, a
node or an edge at a time in any order (the code iterates over sets of strings),
then the suite, the lowering, and chains of activations as the scheduler would
set them off.

**`DataSpec`** is the static part of a data scenario (lint, deltas, links, columns,
views); **`Scenarios`** has the five that ship, with all their variables, tables, views
and questions, coefficients and wording left out (`numeric` stands for numeric, count
and binary; no question of theirs is left without rows by one sample); **`DataRun`** is `_run_scenario`: author, generate questions, and per
iteration snapshot, sample, materialize, evaluate, patch.  `disk` is the run
directory; a run may be cut short anywhere (`Again`) and repeated into it.

**`Corpus`** prints pages and reads them (chunker, structural reader, parser of
envelopes), **`Reconstruct`** is the pipeline (`Extract` a chunk at a time, `Compare`
a pair of mentions at a time, with the union-find of `resolve.py`), **`Fidelity`** the
alignment and counts, **`Ontology`** the three ways a graph is asked.

**`Templates`** has the directory (`disk`), and two validations that may run at once,
each with the registry of the process it is in: the import by itself, the import
beside the packages, lint, tests, a dry run beside all other templates, and the
rewrite of `template.json`.  `Scaffold`, `Edit`, `Garble` and `DeleteTemplate` are what
users and agents do in between.

Mutations.  An operator whose comment says "a mutation ..." (`SkipConflictToNextDay`,
`StoreNothing`, ...) is a wrong version of the definition after it.  Each property of
the runs is refuted by the one `PROJECT.json` names, so that none of them holds
whatever the code does; several parts of a conjunction have one of their own.

## 4. Runs

| run | instance | bounds, and why they are enough |
|---|---|---|
| `free_slot` | days of 5 ticks, 3 of them working, Monday, Wednesday and Thursday worked; 15 starts, slots of 0 to 4 ticks, up to two bookings of length 0, 1, 3 and 6 | two bookings can overlap, touch, nest and share a start; a slot is empty, short, a day long, too long |
| `advance` | all starts of a week, up to 9 ticks of work on 4 working days | work ends inside, at and after closing, over nights and days off |
| `scheduler` | programs of one of six scenarios, or of two or three of eight; three windows, `MaxEvents = 12` | each trigger kind, effect kind, forced and empty slots, comments past the window, a cycle, a misordered process, a person who acts or comments twice; two scenarios that book one person, share a document, or are the same; the cap is above what the finite scenarios emit and is reached by the cycle |
| `render_pool` | three scenarios of two, one and no deliverable events, two threads, four requests of prices 1 and 2, ceiling 2, one retry; an earlier segment has cached nothing, all but one artifact of the first scenario, or everything | the third task waits for a thread; two threads can be at the ceiling at once, and a task can be paused, fail or pass the ceiling while the other is at any point |
| `job_runs` | two artifacts; a directory of the job's own, the full one of its parent, another that one artifact is copied to, none; two worker starts, one kill, one exit of the sidecar, the parent's job deleted, two ceilings (below the estimate, below the cost); 783,072 states | the directory can go at any step; a job is paused, killed or failed at any step, also while it copies, and resumed; a worker the manager has forgotten runs beside the one it supervises; a third worker matters only after a second exit of the sidecar (section 5) |
| `explorer` | one job of one artifact, two runs, six errands of the user of two to four requests, seven requests in all (a select issues two) | any two operations of the stores that share a slot meet: two selects, a select and a resume, chats and evaluations with their cancels, loads and a diff, the catalog and a scaffold |
| `evals` | two generated questions, one proposal that reads the same whenever it is made, two coroutines, two commands of which each runs at any time, one turn of the chat | each coroutine can hold a question while the other ends, is cancelled or waits; both commands can have read the file before either writes |
| `world` | eight configurations, good and clashing, one name for all people, two archetypes of one and two teams; three calls of the resolver at up to three instants, capacity 1 or none | every clash the builder can meet, namesakes everywhere; a pair is picked, picked again, and seen from before |
| `authoring` | the five playbooks that ship, and 4842 generated ones: three steps with all dependencies, three activations with all graphs of events, two or three activations that differ in what they declare, emit and apply | components inside and across each other, a cycle reached late, two processes of one name, roles of one name |
| `products` | specifications of one population and one table with up to two of eight questions, and the five scenarios that ship with theirs; a graph with two namesakes, a team and a project; one repair, three iterations, two runs of the same directory; rows counted as the program bounds them | a patch that helps, clashes, does not exist, or comes one iteration late; a longer run before a shorter one |
| `knowledge` | one department of two teams, the second of one or two people, three names, a goal and one under it, up to two files beside the pages, thresholds 0 to 2, a reading with a short form, a repetition, an unknown type, two entities of one form | headings that skip levels, code fences, namesakes on one page, a merge that a later one joins; companies without namesakes in which a page lists someone who leads nothing and reports to a lead who reports to the head, so that what is read back has unstarred rows and printed `reports_to`, and a chain of managers has two links, where the closure is not the base relation (goals and initiatives nest one deep in whatever the builder makes, `builder.py:310-329`) |
| `templates` | two templates, two validations at a time (symmetric), two changes, five drafts of a plugin | any two changes fall between any two steps of a validation; a template may register a name of the other, a built-in one, or half of what it means to |

Bounds that are the models' own, in guards: `MaxStarts`, `MaxKills`, `MaxRestarts`
(`JobRuns`), `MaxRequests` and the budgets (`Explorer`), `MaxTurns`, `MaxCommands`,
`MaxReview` (`EvalRuns`), `MaxCalls`, `MaxTime` (`Resolver`), `MaxRuns` (`DataRun`),
`MaxChanges` (`Templates`).  `MaxEvents`, `MaxRetries`, `MaxRepairs`, `MaxIterations`,
`MaxRows` and `MaxPasses` are the program's.  `CHECK_DEADLOCK FALSE` stands in every
configuration: a call returns, a run ends, a user may leave things alone.

Properties (each is stated with its reason in the module):

- `free_slot`: `SearchSound` (`NothingSkipped`, `FoundIsEarliest`), `SlotReturns`.
- `advance`: `WorkSound` (`WorkConserved`, `ResultIsAdvance`).
- `scheduler`: `QueueSound` (the clock never has to go back, nothing that
  has run waits to run); `JournalSound` (ids unique whoever comes twice in a role, working hours, replies,
  dependencies, double bookings flagged, bookings explained: the conformance
  invariants I1, I2, I4 where they hold); `EveryReactionRuns`; `ReportSound` (the sweep finds double
  bookings exactly, each is of two scenarios or forced, nothing dangles, nothing
  is dated before the window, ids of two scenarios never meet); `Finishes`.
- `render_pool`: `AccountsSound` (`ReportsOnce`, `OvershootBounded`,
  `SnapshotCoversReports`), `EndSound` (`QuietEnd`, `OutcomeExplained`),
  `NothingPaidAgain`, `Ends`.
- `job_runs`: `SpendsOnce` (`PaysOnlyForLostCalls`, `ParentReused`, `OneRenderer`),
  `LedgerSound` (`LedgerWithinSnapshot`, `LedgerAddsUp`), `KeepsPromise` (the
  refinement of `JobLedger`), `CancelSignals`.
- `explorer`: `StoresAgree` (whatever a watch missed or was told twice, the
  projection of a job at rest is what `state.json` says; one evaluation is open),
  `EveryRequestSettles`.
- `evals`: `EvalSound` (ids unique, done means complete), `CancelKeepsAnswers`,
  `LeavesRunning`.
- `world`: `OrgSound`, `CallsAccounted`, `PastElementsKept` (a view of an earlier
  instant, contents included: only affinities gain weight), `BuildsUnlessClash`.
- `authoring`: `SearchesExact` (against the textbook definitions), `RunsAsLinted`,
  `SuiteSound` (P3 against runaways, P2 and lint on one graph, P5's world, and
  `ShippedSound`: the shipped playbooks pass everything and run as they read),
  `ChecksEnd`.
- `products`: `SamplerTrustsLint`, `ArtefactsAgree`, `LoopConverges`
  (`StopsForAReason`, `BanksAnswered`: a shipped scenario has all its questions
  answered in two iterations), `SpecsGrow`.
- `knowledge`: `PagesKept`, `GraphSound`, `FairScore`, `AnswersAgree`.
- `templates`: `VerdictHolds`, `CatalogFaithful`, `ValidDirectoryRuns`.

`PaysOnlyForLostCalls` and `OneRenderer` are stated for at most one exit of the
sidecar: after a second one two workers can render at once (`OnlyIncompleteCalls`,
section 5).  They are about a job that has a directory: `PaysOnlyForLostCalls` allows
one more payment where it was the parent's and has been deleted, and `LedgerWithinSnapshot`
and the refinement end there.  `TypeOK` is proved for the loops of the calendar, the scheduler, the render
pool, the jobs, the evaluations, the explorer and the templates, and for the builder and
the resolver in the form of `Store` (section 6); the other modules state theirs for the
reader.

Fairness.  The loops of the calendar, the scheduler, the builder and the checks of
a playbook are sequential code that runs until it returns: `WF` of their steps.  A
thread of the pool and the caller get on: `WF` per task and of `Caller`; a model
call answers or fails in `RenderPool`, for the client sets a timeout.  In `JobRuns`
workers and manager get on, a model call need not (`Call` and `Fails` are not fair),
and nobody need press a button.  In `Explorer` the renderer takes what arrives,
each handler gets on (`WF` per request: the event loop starves none), and so do
workers and their supervisors; in `EvalRuns` the sidecar does.  `DataRun`,
`Reconstruct` and `Templates` state safety only and assume nothing.

## 5. Where documents and code differ

TLC refutes each of these.  To see a counterexample, put the name in place of the
properties of the module's configuration; `ClaimsScheduler.cfg` (module `MCScheduler`)
has those of the scheduler, and `MCJobRuns.cfg` ends with what to change for those of
jobs.

| claim | said in | what the code does |
|---|---|---|
| `InWindow`, `ChildAfterParent` | `authoring/testkit.py:580-581` (I1, I2) | the window bounds the anchor of a step, not its slot (`scheduler.py:447`); a step with `parent_step` alone does not wait for it (495-510) |
| `LintCleanRuns` | `authoring/lint.py:18-20` | a step that follows one declared later raises (`scheduler.py:500`); so does a person drawn or bound twice to the role that comments (638): lint checks neither `distinct` nor binds |
| `ConditionFromThePresent`, `ConditionHonoured` | `core/sim/spec.py:312` | conditions see the world ahead of the clock (422); a firing past the window uses the condition up (742) |
| `ProjectionHonest` | `core/world/graph.py:388-389` | properties and weights are changed in place, and a view of the past shows the later ones |
| `CalendarsDisjoint` (`RunAssembly`) | `core/sim/scheduler.py:755`, `assembly/validation.py:14-18` | each scenario has a busy map of its own (`scheduler.py:333`, `corpus.py:237`): two that share a person double-book them, and nothing is forced |
| `LedgerNotBehindStream` (`RenderPool`) | `jobs/worker.py:241-245` | counted in one order, applied in another |
| `RaisesBeforeItRuns` (`RenderPool`) | `core/llm/client.py:12-13` | the ceiling is checked after the answer (296-314) |
| `PauseSeen` (`RenderPool`) | `jobs/control.py:67` | a thread between another's note of the mtime and its reading goes on |
| `LedgerKeepsSpend` | `docs/EXPLORER_RUNS.md:47-51` | the segment of a killed worker is never entered |
| `CacheMandatory` | `docs/EXPLORER_RUNS.md:36-40` | the form writes null for an empty cache directory, which disables the cache: a resumed job pays again (`store-runs.ts:340-343`) |
| `ParentPaysForAll`, `SelfContained` | `docs/EXPLORER_RUNS.md:184-186` | a copy that a kill cuts short is never completed (`jobs/extend.py:132`); by default there is none (line 117 of the same document says so): the child shares the directory, which goes with the parent's job, and pays for everything again |
| `ClosingPauses` | `docs/EXPLORER_RUNS.md:106-107` | closing the app leaves jobs interrupted (`sidecar/index.ts:252`) |
| `CancelAwaits`, `DeleteRemoves` | comments at `manager.ts:178`, `:194` | a worker from before a restart is not awaited, and writes its directory again |
| `PauseSignals` | comment at `manager.ts:164` | `job pause` prints to stderr only, `runJson` rejects, the timer is never set |
| `OnlyIncompleteCalls` | `docs/EXPLORER_RUNS.md:39-40` | after two restarts two workers render at once |
| `NothingMissed` (`Explorer`) | `docs/EXPLORER_RUNS.md:227` | a watch subscribes after an await: lines in between are lost to it (`manager.ts:253`) |
| `ProposalsDistinct` (`EvalRuns`) | `sidecar/evals/propose.ts:19-22` | two proposals of one turn that read the same both enter the review |
| `CleanOrComplete` (`EvalRuns`) | docstring of `run_eval`, `evals/runner.py` | the stream starts before the question file is read again, which can fail |
| `OnlyFinishedScored` (`EvalRuns`) | `docs/EXPLORER_EVALS.md:92-93` | a question the cancel interrupts is scored with the empty answer (`run.ts:79-146`) |
| `SkillFormAccepted` (`Authoring`) | `skills/author-playbook/SKILL.md` | lint wants `create_node:Type`, the skill and I5 `create:Type` |
| `JudgedByItsProducer` (`Authoring`) | `authoring/testkit.py`, `_check_i5` | the first process that emits the type is asked, whichever ran |
| `GuardsReachTheScheduler` (`Authoring`) | `authoring/lint.py:638` | the lowering drops the `when` that lint takes for a guard |
| `ValidViewsRun` (`DataRun`) | `data_products/views.py:141-149` | the dry run types a dimension of the graph as a number |
| `SnapshotsOfThisRun` (`DataRun`) | `docs/DATA_PRODUCTS.md:124` | snapshots of a longer earlier run stay |
| `SameNameSameNode` (`DataRun`) | `data_products/linking.py:87-93` | each column numbers its namesakes in its own order |
| `IdsDistinct`, `NamesakesKeptApart` (`Reconstruct`) | `reconstruct/resolve.py:415`, `:27-29` | a suffix can meet another label; namesakes in one block are merged |
| `SupportIsChunks`, `SplitsCounted` (`Reconstruct`) | `reconstruct/build.py:164`, `fidelity.py:20-24` | support counts triples; a split whose second half has another type is not counted |
| `HealthyListed` (`Templates`) | comment at `templates/catalog.py:54` | a broken template keeps the names it registered, and a healthy one is left out |
| `ReimportSafe` (`Templates`) | comment at `templates/validate.py:285` | the first import runs without the packages, the second beside them |
| `ValidMeansRunnable` (`Templates`) | `docs/EXPLORER_TEMPLATES.md`, section 4 | playbooks are never tried beside each other |

Seen while modelling, without a claim of their own: the template catalog is never
invalidated (`invalidateCatalog` has no caller); a chat that is cancelled frees its
slot at once, and its late end clears that of the next one; replies to two loads
can be applied out of order; a request open when the sidecar dies stays pending
(`rpc.ts` has no `onclose`); a slug that is deleted and scaffolded again keeps the
verdict of the old one on its card; an evaluation whose run directory cannot be
loaded stays `running`; a generated question with an unknown population in its gap
makes every later patch be refused; a graph dimension whose type matches nothing
raises in the middle of the loop.

## 6. Proofs

`CalendarProofs` derives, from `CalendarAssumption` alone, what the operators of
the calendar return: a next working instant exists and is the least one
(`NextWorkingStartIsNext`), so is a free slot (`NextFreeSlotIsEarliest`, for
finitely many bookings and a slot not longer than a day), working ticks add up
over adjoining intervals (`WorkAdds`), `Advance` returns the only instant after
the last tick of work (`AdvanceIsEnd`, `AdvanceUnique`).

- its search: `SearchSkipsNothing`, `SearchFindsEarliest`,
  `SearchProgresses`.  The inductive invariant is `TypeOK` with
  `NothingSkipped`: the position is a working instant, and no start between the
  request and the position is free.  A conflict may be skipped to its end
  because a slot of the same length that starts before the end of the first
  overlapping booking, but not before the position, overlaps it too.
- its count: `AdvanceConservesWork`, `AdvanceLoopReturnsAdvance`.  The
  invariant `CountInv` adds to `WorkConserved` that the position is a working
  instant while work remains, and just past one when none does.
- `SchedulerProofs`: `SchedulerTypeOK` and `SchedulerQueueAhead`, from
  `SchedulerAssumption` and `CalendarAssumption`.  `StateInv` is their inductive
  invariant: what waits lies ahead of the clock; the bookings are finitely many
  (else `next_free_slot` need not find one); the instance being executed began
  at the clock, and whatever of it has a time (ends of steps, the event) is not
  before it.  The lemmas on `StepBase`, `EventTime` and `StepEnd` take this from
  those on the calendar.
  The other safety properties have each an invariant of its own that every step
  keeps from a state of `StateInv`.
  `WaitingInv`: what is scheduled waits once or has run, which gives
  `SchedulerNeverQueuedAgain`, and with `ReactionInv`, that the reactions to every
  event are scheduled, `SchedulerEveryReactionRuns`.  `IdInv`: the events of the
  instance being executed belong to its earlier steps, to the current one, or
  are comments of people, or with numbers, that come before the current ones,
  which gives `SchedulerUniqueEventIds`: no assumption is made on who fills a role; a
  comment is posted only by someone who has had no turn in the step before (`FirstTurn`),
  and where one comes again the run raises or goes on without a comment.  `JournalInv` gives
  `SchedulerWorkingHours`; `OverlapsFlagged` is inductive as it is, given that a
  slot that fits a day is placed where it is free; `BookingInv` excepts the
  bookings of a step whose event is about to be logged.  `ReplyInv` keeps the
  comments of the step that may be replied to in the journal.  `AfterInv` relates
  the ends of executed steps to the instants of their events, and needs `IdInv`,
  for only with unique ids is there one event to relate an end to.

  Three lemmas describe what one step may do to the queue (`QueueChange`), to the
  journal (`JournalChange`) and to the instance (`RunChange`); the step of each
  invariant is a case analysis on one of them.  The assumptions on scenarios are
  checked by lint: unique step ids, `after` and `parent` that name steps of the
  process, roles that exist.  `after` need not name an *earlier* step; the run then
  stops with `ValueError` (`StepRaises`).
- `SchedulerProofs`, runs of several scenarios: `AssemblyQueueSound`,
  `AssemblyJournalSound`, `AssemblyReactionsRun` and `AssemblyReportSound`, from
  `AssemblyAssumption` besides.  `PlayInv`, the
  conjunction of the invariants above, holds of each scenario from its start in any
  world that scenarios before it may have left, not only in the fresh one of `Init`;
  its steps are those of `Spec`.  `AssemblyInv` adds what is gathered: the ids of a turn
  carry its number, so that taking over a journal never meets an id that is there; a
  calendar holds only what its scenario booked; nodes are dated by the events that made
  them.  Of the sweep it says that the bookings seen come before those left, one person at
  a time, that the furthest end seen is remembered, and that each row is a clash and each
  clash between bookings that were seen is covered by rows.
- `RenderPoolProofs`: `RenderInvariants`, and from it `Accounts`, `Ending` and `PaidOnce`,
  for any tasks, threads, prices, ceiling and cache.  Each part of the invariant speaks of
  one thing the threads share: where a task is and which of its producers it has behind it
  (`PlaceInv`), the cache against that (`CacheInv`), the counter (`CountInv`), the stream,
  whose numbers are those counted less those on their way (`StreamInv`), the pool's slots
  (`PoolInv`), the money, and how the call ends (`EndInv`).  Of the money `SpendInv` says
  that with the tasks that have passed the check of the ceiling and not recorded their
  answer the cost still stays under the ceiling and a price for each other thread; a task
  can pay for a key that is cached only if another task asks for the same (`PaidInv`).
- `JobRunsProofs`: `JobInvariants`, from it `JobSpendsOnce` and `JobLedgerSound`, and
  `JobKeepsPromise`, the refinement of `JobLedger` step by step.  What the invariant
  `JobInv` needed beyond the properties: the
  ledger names only workers that entered themselves; a manager supervises every worker
  whose pipe is intact, so that while the sidecar watches at most one is alive; a worker
  has reported a *prefix* of the artifacts, and the snapshot covers the prefix, for a
  count of them alone is not inductive; a restart forgets at most one worker; a worker
  calls the provider only where what was billed has been lost, or the directory with it
  (`LostForGood`); the money billed is that of
  the segments entered, of the live worker and of the answer in its hands.  Each action
  of `JobRuns` is a step of `JobLedger` under `View` or leaves it alone; after an exit of
  the sidecar, or without a snapshot of its own to keep, the job is not `covered`, and
  `JobLedger` allows more.
- `EvalRunsProofs`: `EvalInvariants`, `EvalsSound`, `EvalsKeepAnswers`, for any texts,
  commands, coroutines and turns.  `SetInv`: the set in the file and what each command is
  about to write have no repetition, since `AppendAccepted` reads the file again before
  it writes.  `SharedInv`: what lies before the shared index is answered or in a coroutine's
  hands, and a coroutine that has returned has seen the end or the signal, so that
  `done` is said only when all are answered.  `StreamInv`: what the renderer was told is
  a prefix of what the Python process selected.
- `ExplorerProofs`: `ExplorerInvariants`, `ExplorerTypes`, `ExplorerStoresAgree`, for
  any jobs, runs, budgets and numbers of requests.  `ReplyInv`: a message on its way
  belongs to a request that waits for it, one reply each.  `WatchInv`: the watch that the
  store awaits is of the selected job, and no `unwatch` names it.  `GoneInv`: once that
  watch goes on to `state.json` the worker has gone for good, unless the renderer has a
  `start` or the `list` after it open (`Pending`), and the reply of that `list` begins
  another watch.  `ShownInv`: when the watch has read `state.json` and no watch of the
  job, ended or not, has it still to read, what is on its way to the projection ends in
  what `state.json` says now, or something of another job gets in.  The last clause is
  what the property's `from \subseteq {j}` excepts: a watch that is ended while it replays
  still sends what it replays.

- `ResolverProofs`: `WorldTypes`, `SoundOrg`, `AccountedCalls` and `PastKept`, for any
  archetypes, configurations, selectors, capacities and numbers of calls.  The inductive
  invariant is `Store`, `Org`, `Running` and `Caps`.  `Store` types the world: the id of an
  edge is made of what it joins, the id of a node tells its type, and nobody calls before
  the world is built.  `Org` is about the builder.  Its first part, `Chart`, says how the
  nodes that are there relate (who belongs where, who leads, who reports to whom, who
  staffs what) without a closure: a chain of managers has two links at most, and so ends at
  the head.  `Chart` alone is not inductive, for each task relies
  on those before it; `Agenda` says what may be left in `plan` given what is there: teams
  only of departments that have been opened, heads after the first team, projects after
  heads, whoever is employed has a head now or has one planned, affinities last.  `Weighing`
  says that the affinity gathered so far counts the projects two people share.  `Running`
  takes over when the affinities are written: a weight is the teams and the projects that
  are shared and the draws since.  `Caps` gives the capacity: no relationship is there
  before the first call, each leads to the anchor of a call, and a call that draws a person
  more than once adds one edge, not several.  `PastKept`, an action property of
  a view with its contents, holds because a new edge is dated with its call, and an edge that
  was there keeps all but the weight of an affinity, which `_reinforce` raises in place
  (`Heavier`).  It is about the builder and the resolver; effects of activations overwrite
  properties, and a view of the past shows the later value (`ProjectionHonest`, section 5).
- `TemplatesProofs`: `TemplateTypes`, `VerdictsHold`, `CatalogsFaithful`,
  `ValidDirectoriesRun`, for any directories, drafts, number of validations and changes.
  `VerdictHolds` speaks of the file; while a validation is on its way the file does not
  say yet what will be written.  `Undisturbed` closes the gap: what a validation has found
  by each step is what the directory as it is now would give it, unless someone has changed
  it meanwhile; that another validation writes a verdict is no such change, that it makes a
  deleted directory again is one.  The other two
  are about one reading of the directory, and follow from what an import keeps and what
  two templates that are imported together do to each other.

`SearchIsSound`, `AdvanceIsSound`, `SchedulerQueueSound` and `SchedulerJournalSound` put
parts together as the runs check them.

Sums over artifacts and `Keep` (what is left of a sequence, in its order) are recursive
functions or folds; what the proofs say of them is by a least counterexample, among
subsets of a finite set or numbers, since the library's induction takes an operator.

The assumptions on constants are those of the modules, which TLC evaluates in every run:
`CalendarAssumption` (a day has working ticks, a week working days),
`SchedulerAssumption`, `AssemblyAssumption`, `RenderAssumption`, `JobAssumption`,
`EvalAssumption`, `ArchetypeAssumption` (finitely many, each as
`archetype_sanity` wants it), `ConfigAssumption` (what a parsed configuration is),
`ResolverAssumption` (a capacity is a number or none, a selector asks for a number of
people), `TemplatesAssumption`, and in
`Explorer` that jobs have artifacts, budgets are numbers and `None` is no job, run or
number.

Only model-checked: liveness (`SlotReturns`, `Finishes`, `Ends`, `CancelSignals`,
`EveryRequestSettles`, `LeavesRunning`, `BuildsUnlessClash`, `ChecksEnd`), which needs
fairness and is beyond the prover, and the properties of authoring, the data products and
reconstruction.  The closures and searches of authoring and reconstruction are recursive operators or walk over graphs, and
an induction over those the prover cannot do.

## 7. Not modelled

- Text and formats: the producers, the exporters, prompts, wire formats of the
  backends, Office files, parquet, layouts and rendering of the explorer.
- Numbers drawn: seeded streams (draws are choices, so that determinism is not a
  property), the values of the sampler, weights as probabilities.
- The lifecycle generators `processes/inventory.py` and `purchase_order.py`: a loop
  each, one path each, and no engine runs them yet (`inventory.py:13-17`).
- The command line, argument parsing, and the validation of configuration files
  beyond what the builder refuses.
- Lint of numbers, cadence rules and Python sources; the test kit's mock runs; agents
  that write queries; attribution, scaling and model sweeps of a reconstruction,
  which tabulate what `Fidelity` counts.
- Two concurrent edits of one job's `config.json` (`manager.ts:296`): one atomic edit
  in `JobRuns`.
