# A TLA+ model of Heikas Forge

Heikas Forge takes a coding task, has a plan written and approved, lets several
candidates implement it in separate git worktrees, selects one of them by
deterministic gates, verifies it again and commits it. Its promise is that all
of this can be killed at any point and resumed from a durable event log. This
project models that engine and what it stands on: the log and its stream, the
agents with their tools and commands, the configuration with its trust, and the
quality gates. It checks them with TLC on small instances and proves part of what
is checked with TLAPS.

## 1. The system

Paths below are relative to `src/crates`.

| Part | State it keeps | Operations | Hard part |
| --- | --- | --- | --- |
| Life cycles and graph (`domain/src/run.rs`, `candidate.rs`, `graph.rs`, `retry.rs`) | tables | transition, successor, classification | a retry decision that the graph refuses |
| Projection and reducer (`domain/src/state.rs`, `event.rs`, `plan.rs`) | status, attempts, plan versions, approval, candidates, ranking, winner, integration, commit | apply one event, or refuse it | every event must be replayable for ever |
| Scheduler (`application/src/engine/scheduler.rs`) | none | next step of the run, of a candidate | must be right for every state a crash can leave |
| Dispatcher (`application/src/engine/dispatcher.rs`) | projection mutex, candidate tasks, semaphore, cancellation signal | dispatch, run loop, attempts, retries, state patches | tasks interleave between a reading and a commit |
| Recovery (`application/src/engine/recovery.rs`) | none | verify, replay, close open attempts | runs again after a crash in the middle of itself |
| Nodes (`application/src/nodes`) | worktrees, evidence files, result branch | prepare, plan, fan out, implement, test, review, repair, join, integrate, final gates, commit | several events and side effects in one step |
| Run service (`application/src/usecases/service.rs`) | map of cancellation senders | dispatch, resume, cancel, update/approve/revise/reject the plan, approve the commit, export, cleanup | decides on a reading made without the lock |
| Event log, file store, locks (`infrastructure/src/store`) | `events.jsonl`, cached tail and prefix, artifact index, plan files | append, verify, load, quarantine | several processes, partial records |
| Process supervisor (`infrastructure/src/process`) | child process group | run with timeout, cancellation and output limits | three ends of a process race |
| Agents (`infrastructure/src/agent`) | conversation, tool budget | turn loop, tool calls | budget at its limit |
| Quality providers (`infrastructure/src/quality`) | none | run tests, check test integrity, aggregate reviews | verdicts from partial evidence |
| Configuration (`infrastructure/src/configuration`) | trust store | layered resolution, trust of a repository | precedence |
| Scoring, path policy (`domain/src/score.rs`, `path_policy.rs`) | none | eligibility, ranking, path decisions | ties and boundaries |
| API and command line (`api`, `cli`), control room (`../apps/web`) | sessions, event stream | call the run service, stream events | replay of a stream while events arrive |
| Repository policy checker (`policy`) | none | lints this repository | none (text) |

How they interact: a command or an API route calls the run service. A request
reads the projection, decides, and appends under the run's lock. A dispatch
holds the same lock from recovery until it returns; inside, one task per
candidate runs with a permit of a semaphore, and every event goes through
`commit_event`, which appends to the log first and applies to the projection
second. A cancellation is both an event and a signal to the dispatch of the same
process. Nodes call agents, gates and git, write evidence files and return
events together with a state patch, which the dispatcher commits one by one.

What makes each part correct:

* reducer: what is recorded is never rewritten; every appended event replays;
* dispatcher and recovery: one attempt of an owner at a time, numbered uniquely;
  a candidate's attempts follow the graph; a dispatch returns;
* repair: never more than the budget, never for nothing;
* selection and integration: the evidence belongs to the content it is used for,
  no candidate is tried twice, the branch gets one commit of verified content;
* plan gate: no work without approval of the current plan;
* cancellation: nothing is left that would resume, nothing starts afterwards;
* event log: what was acknowledged survives, the complete records are an
  append-only history, what a process remembers of the file agrees with it;
* event stream: nothing falls between replay and subscription unnoticed;
* agents, tools and supervisor: an invocation ends, leaves no process behind,
  touches nothing outside the worktree and no protected file, changes nothing in a
  read-only role, and keeps its budgets;
* configuration: trust is for the bytes that were reviewed, a repository can only
  tighten, nothing it says is dropped quietly, `heikas init` keeps what it writes;
* quality gates: a candidate may win if and only if its last attempt has shown it.

The hazards, each at its line with the properties that answer it, are in
`PROJECT.json`.

## 2. The modules

| Module | Extends | Models |
| --- | --- | --- |
| `Lifecycle` | - | the tables of the domain crate |
| `RunProjection` | `Lifecycle` | the projection as a record; `Accepts(p, e)` is when `reduce` returns Ok, `Reduce(p, e)` what it leaves |
| `Scheduler` | `RunProjection` | `next_run_step`, `plan_gate`, `next_candidate_step`, `desired_run_status` |
| `EngineState` | `Scheduler` | variables, `Init`, calls of a task, `CommitEvent` |
| `NodeBodies` | `EngineState` | one action per node; `FinaliseCalls` is `finalise_attempt` with the retry decision and the state patch |
| `RunService` | `EngineState` | one action per request (the reading) and `ServiceAppend` (the locked append) |
| `Engine` | `NodeBodies`, `RunService` | dispatch, recovery, run loop, candidate tasks, calls, crash; `Spec` |
| `EngineProperties` | `Engine` | properties, fairness, `FairSpec` |
| `EngineClaims` | `EngineProperties` | statements of the documents that the code does not live up to |
| `MCEngine` | `EngineClaims` | the module of the runs; the configurations give the constants |
| `EngineProofs` | `EngineProperties` | lemmas about the reducer; the inductive invariant of types, budgets and history, and its theorems |
| `FlowProofs` | `EngineProofs` | pending calls against recorded attempts; one attempt at a time, on a path of the graph |
| `RunProofs` | `FlowProofs` | what a step does to the calls; the plan gate; charges of repairs; cancellation |
| `SelectionProofs` | `RunProofs` | selection, promotion, the final gates, the commit |
| `AppendOnlyLog` | - | what `events.jsonl` promises: a history that grows at its end, numbered and linked |
| `EventLog` | - | the file, its locked sessions, unlocked loads, caches, failed writes and kills |
| `EventStream` | `EventLog` | pages, broadcast channel, the stream route and the browser's hook |
| `LogProperties` | `EventStream` | properties, the refinement of `AppendOnlyLog`, one claim of the documents |
| `LogProofs` | `LogProperties` | the inductive invariant of the log, the theorems, the refinement |
| `ProcessSupervisor` | - | one supervised command: exit, time limit, cancellation, escalation, draining |
| `PathPolicy` | - | parsing of a path, the policy's decision, confinement on a tree with links |
| `AgentSession` | `ProcessSupervisor`, `PathPolicy` | the three drivers and every tool, under the node's timeout |
| `AgentProperties` | `AgentSession` | properties, fairness, `FairSpec` |
| `MCAgent` | `AgentProperties` | the tree, paths and patches of the run |
| `PathProofs` | `PathPolicy` | lemmas about trees with links, and that `confine` confines |
| `AgentProofs` | `AgentProperties`, `PathProofs` | the invariants of an invocation and of its tree, the theorems |
| `ProjectSurvey` | - | commands, the survey of a project, the proposals of each ecosystem |
| `Configuration` | `ProjectSurvey` | settings and their rules, layers, trust, `init`, `trust`, creation of a run |
| `TestReports` | - | what each report parser counts |
| `QualityGates` | `Configuration`, `TestReports` | test records, integrity, review providers, verdicts, eligibility |
| `GatesProperties` | `QualityGates` | the composition of configuration and gates, and the properties |
| `MCGates` | `GatesProperties` | documents, projects, requests, outputs and worktrees of the run |
| `GatesProofs` | `GatesProperties` | the inductive invariants of the configuration, of what covers it and of the gates, and the theorems |

Four specifications share these modules: `Engine!Spec`, the log with its stream,
an agent's invocation, and configuration with gates. They meet where the code has
an interface: the engine takes what an agent, a gate or the log answers as a free
choice, and the other three show what such an answer can be.

State and code of the engine:

* `run` is the projection of the durable log. The log, the stored projection and
  the dispatcher's copy agree as long as every appended event is accepted, since
  all appends happen under the run's lock or the projection mutex. `poisoned`
  says that an event was appended that the reducer refuses.
* `lock` is `locks/dispatcher.lock` and the phase of its holder: `recovering`,
  `dispatch`, or `service` for a request that appends more than one event.
* `todo[o]` is the program counter of the run loop (`o = 0`) or of a candidate's
  task: the calls it has still to make. One element is one step that other
  tasks, a crash or a request can come between. `SetRun` and `SetCand` are the
  reading halves of `ensure_run_status` and `set_candidate_status`; they put a
  `Do(event)` in front of what is left, the committing half.
* `task` is where each candidate's task is; `stopped` is what recovery still has
  to do; `cancelled` is the watch channel; `outcome` is what the last dispatch
  returned.
* `pending` holds requests between their reading and their append.
* `store` has the plan files, diffs and latest evidence, `git` the worktrees and
  the result branch. A content is identified by who edited it and how often;
  only equality matters.

Abstractions: plan documents and failure summaries are small sets; time,
metrics, digests, prompts and wording are left out; `NodeClosed` stands for the
five terminal payloads of an attempt; what agents, gates and git answer is a
nondeterministic choice (scores decide which order `Orders` a ranking takes). A
body reads the projection at its start; while it runs no other task changes what
it reads, so the model reads it at its end. Events of a body are committed one
at a time, and a crash can fall between any two. An agent's edit of a worktree is
a step of its own before the body's end, so a crash can leave an edited worktree
with old evidence. `execute_node` looks at the cancellation signal before it commits
`NodeStarted`; the two are steps of their own (`StartNode`, `DoCommit`), since a request
of the same process can send the signal in between.

The event log:

* `lines` and `rest` are the terminated lines of the file and what follows the
  last newline; a record is written as a line and then a newline, two file
  operations that a kill or a failure can separate. A record has one length and
  its hash is its identity, so a chain is right when `prev` names the record
  before. `Junk` is a line that cannot be decoded.
* `lock` and `session` are `RunLease` and what its holder does between opening
  and returning; `tail` is the cached end of the chain of each process, `prefix`
  its verified prefix with the offset it ends at; `load` is a reader, who holds no
  lock, between its look at the file and its truncation.
* `stored` is the projection file, `acked` the history of returned appends.
* `Procs` are process slots: a killed process comes back without its caches.
  `Servers` live on and keep them, the others start afresh for each command.
* `channel` is the broadcast channel of the server, `client` the browser: its
  cursor, what it has got, whether it was told of a lag (`told`) and whether a
  page was cut at its limit (`full`).

An agent's invocation:

* `proc` is one command: its leader, a descendant in its process group and one
  that left the group, the stage of `run`, and the exit it will report. A timer
  may fire at any time. `signal` is the watch channel with its sender.
* `session` is the turn loop: turn, calls left in the answer, ordinal, result.
* `tree` maps paths to directories, files and links. The glob patterns are
  constants: the sets of paths they match. A raw path carries what `parse` looks
  at: how it starts, control characters, its segments. `IsTree` says what a tree is:
  every entry is in a directory, and a link leads to where no further link is on the
  way, so that one look at it resolves it, as `canonicalize` does.
* What the model answers, what an external agent writes, what a patch touches and
  what git reports are free. `session.blind` says that the enumeration of a
  patch's sources was cut short.

Configuration and gates:

* A document is a partial function from settings to values, and the bytes of a
  file are the document, so a digest is the document too. A setting that protects
  the owner has a level, the higher the more permissive. `Rule` gives each setting
  the rule `AuthorityGate` applies to it.
* `resolution` is a request on its way to a run: read the file, look at the trust
  record, survey, validate. `terminal` is `heikas init` or `heikas trust` in
  between its own reading and writing. `file` may be edited at any time.
* A directory is a sequence of segments and a segment one of words, since the
  collision of slugs comes from dashes and slashes becoming the same.
* `gate` is a candidate between its edits and the decision; `reports` are the
  report files, which outlive an attempt; `evidence` is what is stored; `facts`
  records what really happened, for the properties to compare with.
* A run reads no configuration file once it is created. `GatesProperties` uses
  this: it checks the way to a configuration, and the gates under every
  configuration of `AcceptedViews`, and `RunIsCovered` says that no run is created
  with another one.

External parts (git contents, the kill of a process, the advisory lock, what a
command does) are modelled from how the code uses them and marked in
`PROJECT.json`.

## 3. The runs

The runs of the engine use `MCEngine`; deadlock is checked there, since a run that
is over can still be dispatched, and in the runs of the log. `agent_session` and
`gates` end: an invocation returns, a candidate is decided, a run is created.

| Run | Instance | Shows |
| --- | --- | --- |
| `workflow` | 2 candidates, 2 permits, 1 repair, manual commit | types; final verdicts belong to the integrated candidate; only gated content is committed; no candidate is tried twice |
| `interruption` | 2 candidates, 1 permit, no repair, automatic commit, one crash, cancel | the log replays; one attempt at a time; fresh evidence; one commit; a cancelled run is quiet and nothing starts after the end |
| `repair` | 1 candidate, 2 repairs, all failure classes, one node error, one crash | attempts are a path of the graph; the budget is neither exceeded nor avoided |
| `plan_gate` | 1 candidate, 2 plan texts, 3 requests among update, approve, revise, reject | no work without approval of the current plan; history is never rewritten |
| `progress` | 2 candidates, 2 permits, one transient error, fairness | every dispatch returns |
| `claim_serialised` | 2 candidates, 2 permits, cancel | `LogReplays` is violated |
| `claim_retry` | 1 candidate, transient failures only | `TransientFailureIsRetried` is violated |
| `claim_resume` | 1 candidate, one crash, fairness | `DispatchReturns` is violated |
| `event_log` | a server and a command line, 3 appends, 1 crash, 1 failing write, 1 browser, pages of 2, channel of 1 | acknowledged records survive; caches agree with the file; only a failing write makes a session fail; the stream misses nothing unnoticed; the file implements `AppendOnlyLog` |
| `agent_session` | planner and implementer, 2 turns, 2 calls, 7 raw paths, 4 patches, fairness | nothing outside the worktree and no protected file is touched; read-only roles change nothing; no process is left; budgets hold; an invocation ends |
| `gates` | 2 owner's and 5 repository's documents, 4 projects, 3 requests, 3 edits or commands in between; 4 worktrees, 1 repair, 4 endings of a command | trust is for the reviewed bytes; a repository only tightens; nothing is lost quietly; `init` keeps settings; a run is created with checked settings only; eligible is proven, nothing speaks against it, and proven is eligible |
| `claim_append` | as `event_log`, with requests in the server too | `AppendContinues` is violated |

Bounds: `MaxErrors`, `MaxCrashes` and `MaxRequests` bound what the code does not
bound: node errors, kills, requests. `NumPlans` and `NumFingerprints` bound the
documents. The retry policy and the budgets are constants of the code. Two
candidates are enough for every interaction the code has between candidates: the
tasks share only the run status, the semaphore and cancellation, and promotion
needs one candidate to leave and one to take. One crash shows every state a
crash can leave; recovery is itself interruptible in that run. Two requests, and
three where plan decisions race, cover a stale reading against one and against
two writers.

In the log, three appends are what a stale cache needs: one to fill it, one by
another process, one behind it; the second process starts with what a kill left.
`event_log` is the log under the discipline the code keeps most of the time, and
three constants say where it does not. `Windows = FALSE` keeps an unlocked load
out of the pair of file operations of another process; with `TRUE` a reader finds
the line without its newline and cuts it, and `AcknowledgedSurvive` is violated.
`Parallel = FALSE` stops the other tasks of a process after a failed append; with
`TRUE` they append behind it. `Requesters = {c}` has requests served by short-lived
processes only; a server that serves one behind its cached tail is what
`claim_append` shows. So the properties of `event_log` hold of the log, but not of
every way in which the program uses it.

In `agent_session` the paths cover what `parse` and `confine` tell apart: a plain
file named through a link inside, a protected and a sensitive one, one through a link
that leads out, a link that names nothing, `..` and an absolute path; the patches move a file into a new
directory, a protected file away, a file beside the protected one together with
one behind the link, and make a link. Two calls are one more than the
smallest budget that can be overrun. In `gates` the repository's documents set
every setting to its most permissive and to its strictest value, with and without
commands; three interventions are grant, edit and revoke, or init between two of
them; one repair is one earlier attempt whose files and evidence can be mistaken
for the last one's.

Fairness of an invocation (`AgentProperties`): weak fairness of the next turn, of a
pending tool call and of the node's timer, since tokio polls ready tasks and
`execute_node` wraps the body in a timeout. Nothing is assumed about the command
or the model.

Fairness of the engine (`Fairness` in `EngineProperties`): weak fairness of recovery, of the
run loop, of every task's calls, of a waiting task's permit and of every node
body, because tokio polls every ready task, the semaphore is fair and a body
ends at its timeout at the latest. A waiting request is served or gives up.
Nothing is assumed about the operator: no dispatch, approval or crash has to
happen, so `progress` has no crash and says nothing about a run nobody resumes.

### What the violated runs show

* `claim_serialised`. `docs/architecture/event-protocol.md` says appending and
  applying are serialised so that no candidate task can interleave. The mutex
  covers the commit, not the reading before it. Two tasks that both find the
  cancellation signal both cancel the candidates; the second appends a change
  from a status that no longer holds. The event is durable, the reducer refuses
  it, and no later dispatch can replay the log.
* `claim_retry`. `graph-reducer.md` says a transient failure retries the same
  node. The decision names the node as its own successor and `validate` refuses
  that; the dispatch returns an error with the attempt open. (The next dispatch
  closes it as interrupted and runs the node again, without a limit.)
* `claim_resume`. `graph-reducer.md` says a crashed candidate resumes at the
  right place. After a crash between the passed review's `NodeSucceeded` and the
  change to eligible the candidate has no next step, is not terminal, and the
  run loop goes round for ever.
* `claim_append`. `event-protocol.md` says appending continues from the last
  verified sequence. `EventLogFile::append` takes the tail it has cached; nothing
  invalidates it when another process has appended. A server that appended the
  creation of a run and later a request, with a dispatch of the command line in
  between, gives a sequence number twice, and the log no longer verifies.

Met on the way and not given a run of their own. In the engine: a crash during the fan-out
leaves fewer candidates than configured; after a crash between the exclusion of a
winner and the promotion of the next one the excluded winner is integrated again;
an implementation that stops early is a task failure routed to repair, which is
not a successor of the implement node, and ends the dispatch in an error; a
repair cycle is stopped at the third repetition of a fingerprint; a run that
requires recovery cannot be cancelled; under the commit policy `none` a finished
run records no final status; after a crash between `RankingComputed` and
`WinnerSelected` a run finishes as exhausted although a candidate remains
(`candidate-selection.md`); two edits of a plan that read the same projection
write the same `plan-vN.md`, so the text of a refused one can be what
`approved_plan` reads; a second dispatch of a run replaces the cancellation sender
of the first (`service.rs`). With two permits a candidate's task that looked at the
signal in time can record its attempt after another task has cancelled the run, so
`NothingStartsAfterTheEnd` is checked with one permit.

In the log and the stream: a reader without the lock cuts a line that is being
written (`event_log.rs`); a page ends at its limit and the browser's hook never
advances `after`, so a long history is not delivered in full (`local-api.md`).

In agents and commands: a descendant in a session of its own, or of an invocation
the node's timeout dropped, survives; a failing enumeration of the files a patch
moves is taken for an empty one (`tools.rs`); `git_checked` accepts truncated
output.

In the configuration: an unset `minimum_line_coverage` can be set by a repository
below the default of the strict profile; `ai_review.enabled` can be turned off; a
raised read or write limit and a narrower allow list are dropped without an entry
in `withheld`; the trust store is read, changed and written without a lock;
`heikas init --force` drops settings it does not render; two directories with one
slug discard all proposals.

In the gates: a report left by an earlier attempt counts (`EligibleIsProven` names
this exception); `local_provider` reads a report's path without confinement;
renames in `changed_paths`, or its failure, hide a test from the integrity check;
ctest's summary counts skipped tests; coverage that was not measured does not
exclude; a promoted AI finding gates only in two categories; an advisory agent that
fails with an error fails the node.

## 4. The proofs

The theorems hold for every value of the constants that satisfies the assumptions
named where the constants are declared. What these assumptions ask for is what the
code guarantees before the modelled part starts: counts are naturals, at least one
where the code demands it; documents are well formed (`ConfigurationAssumption`);
the initial tree is a tree and parsed paths are relative ones (`TreeAssumption`).
The one real restriction is in `IsTree`: no path runs through two links.

### The engine (`EngineProofs`, `FlowProofs`, `RunProofs`, `SelectionProofs`)

For every number of candidates, permits, plans, failure summaries, requests, errors
and crashes, and every repair budget:

* `TypeCorrect`: `Spec => []TypeOK`.
* `BudgetIsKept`: `Spec => []RepairsWithinBudget`.
* `HistoryKept`: `Spec => HistoryIsDurable`.
* `InductiveInvariant`: `Spec => []IInv`, which the others rest on.

The argument. `TypeOK` is not inductive: nothing in it keeps a call in `todo`
from committing a `CandidateRepairStarted` beyond the budget, or a request from
carrying one. `IInv` therefore restricts what may be planned: every call is a
`PlannedOp`, whose events are `PlannedEvent`s, in which a repair is charged at
most up to the budget; requests carry planned events too. On the projection it
asks for `RunInv`: well typed, charged within the budget, and no two attempts of
an owner with the same node and number (`UniqueAttempts`). The last one is what
makes `HistoryIsDurable` go through: `close_attempt` finds an attempt by its key,
and only when keys are unique does closing the open one leave a closed one alone.

`EngineProofs` first proves, event by event, that an accepted event keeps the type
(`ReduceType`), keeps keys unique (`ReduceUnique`: `NodeStarted` is refused for a
recorded key) and keeps history (`ReduceKeepsHistory`, with `TerminalStays` for
the end of a run: no table lets a terminal status go). Then it has one
lemma per action: `CommitEventInv` lifts the reducer lemmas to a commit, the
`...NodeInv` lemmas show that each body plans only well-formed calls, `CallsInv`,
`RunLoopInv`, `RecoveryInv`, `ServiceInv` and `DispatchInv` cover the dispatcher
and the requests, and `NextInv` puts them together.

The other three modules go on from there, for the same constants:

* `AttemptsOneAtATime`: `Spec => []OneAttemptAtATime`.
* `HistoryFollowsGraph`: `Spec => []HistoryIsPath`.
* `WorkIsApproved`: `Spec => WorkNeedsApproval`.
* `RepairsCharged`: `Spec => []RepairsAreCharged`.
* `CancelledIsQuiet`: `Spec => []CancelledRunIsQuiet`.
* `GatesBelong`: `Spec => []GatesBelongToApplied`.
* `CommitOnce`: `Spec => []CommittedOnce`.
* `CommitsAreGated`: `Spec => CommitIsGated`.
* `NotTriedTwice`: `Spec => NeverTriedTwice`.
* `WinnerIsProven`: `Spec => []WinnerEvidenceIsFresh`.

`FlowInv` (theorem `FlowInvariant`) relates what a task has still to do to what is
recorded, which neither property does, and neither is inductive without it: an
attempt is opened because of a reading several steps old, and nothing in the recorded
history forbids a second `NodeStarted`. So `SoundCall` says of every pending call what
must hold for it to be made: one that starts an attempt finds none open and follows the
verdict of the last one (`MayStart`); an edit, a body and a verdict belong to the
attempt that is open, or to the one the first call will open (`Current`). `Ending` says
that while a dispatch runs, whatever is open has a call pending that closes it, unless
its task has failed and the dispatch with it; this is why the next dispatch, whose
recovery closes the open attempts, is the only one to find any. `TaskInv` says who
may have calls: nobody outside a dispatch, a candidate only while its task runs, and
then the run loop waits. `Recorded` is the property of the history itself.

Most steps commit nothing and are about the calls alone. `Moves` says so once: a step
is a commit of a task, a body, a commit of recovery or of a request, or it leaves the
projection alone and replaces the first call of a task by plain ones (`Moved`). What a
later invariant has to show is then one lemma for each of the four. `GateInv`: while a
candidate's task exists the current plan is approved, and no call of a candidate's
task commits an event about the plan; requests that would change it need the lock
which the dispatch holds. `ChargeInv`: no call of the run loop charges a repair, and a
candidate's task closes a repair as succeeded only after its charge, that is, the
charge is the first of its calls or the number of completed repairs is already below
what was charged. The number of completed repairs is the cardinality of a set of
attempts, and `RepairsAfter` says how one commit changes it.

`QuietInv` says where a cancellation stands. `finish_cancelled` reads the candidates
once and cancels them one at a time, while the tasks of other candidates go on and may
carry out the same cancellation themselves. `Finishing(s, left)` describes the calls of
such a task: the candidates that are not terminal, `left`, are all still among those it
has to cancel, except for the one whose cancellation is its first call, and the status
of the run comes after all of them. Every other task makes no call that cancels. The
set `left` only shrinks, because nothing registers a candidate while candidate tasks
exist and no terminal candidate becomes active again (`LeftAfter`), so a reading of it
stays good however old it is. The last part of `QuietInv` is about the run loop: once
another task has cancelled the run, the loop is waiting for the tasks, and makes no call
that starts a node or registers a candidate until it returns.

`SelectInv` is about what comes behind the join. The scheduler decides on `Integrate`,
`FinalTest`, `FinalReview` or `Commit` from the projection; the node starts, edits its
worktree, writes its evidence file and commits its events in steps of their own, and a
crash between any two of them repeats the node. None of the four properties says what
makes the next step legitimate. `Selected` relates the projection to the files: while
a candidate is active, or nothing is ranked, nothing is selected or attempted; what is
applied was attempted; a final verdict that passed has the evidence file of the applied
patch behind it; the worktree of an integrated winner holds its patch; and a branch that
is not empty holds the worktree's content and belongs to a winner that passed both
gates. The last part is what makes a second run of the commit node stage nothing.
`Fits` says of every pending call what must hold when it is made: the commit node runs
on a verified winner with every approval, `IntegrationAttempted` names the current
winner, which is not integrated yet, a promotion names a candidate that was never tried.
Such a condition may be spoilt by an earlier call of the same task, so `Agree` lists the
only pairs in which a call that changes the selection precedes one that depends on it,
and `RanksFirst` has the winner selected behind its ranking. `FitsAfter` shows that for
these pairs the commit of the first leaves the second fitting; `StepFits` that what the
scheduler decides fits when it is decided; one lemma per node that its calls do.

`EvidenceInv` is about what a winner was selected on. Diff, test evidence and review of
a candidate are separate files, each replaced by the body of another node, while agents
change the worktree they are about; join reads whatever is there. That the three agree
on one content is therefore a fact about the order of the candidate's nodes, over
crashes, retries and repairs. `WorkInv` states it with the last recorded attempt:
who is at `Test` or `Review`, or is routed to `Test`, has the worktree's content as its
stored patch; who is at `Review`, or is routed there, has tests that passed on it
(`Justified`); and a review that passed is about the worktree and is the last thing that
happened to its candidate (`Evident`). A verdict is a call that is made later than its
files were written, so `Backed` says of every pending verdict that the files bear out
the node it routes to, and that no edit is pending behind it. An edit spoils all of this,
which is why `FlowInv` has to know where edits come from: a candidate's first node is
`Implement` (`MayStart`), a worktree is edited only by a task that has just started its
node (`FreshOp` in `Moved`), and who edits cannot have a passed review (`Unreviewed`).
`ChoiceInv` carries the result to the winner: whoever is ranked, selected or promoted, or
is named by a pending call that does one of these, has a passed review and a patch
(`Choosable`). It outlives the join because candidates work only while nothing has been
selected, which is `SelectInv`.

### The log and its stream (`LogProofs`)

For any processes, servers, browsers, page limit, channel capacity and numbers of
appends, kills and failing writes, under `Discipline`:

* `LogTypes`: `LogTypeOK`. `AcknowledgedStay`: `AcknowledgedSurvive`.
* `CachesArePrefixes`: `CachesAgree`. `SessionsFailByFaults`: `OnlyFaultsFail`.
* `StreamMissesNothing`: `NothingMissedUnnoticed`.
* `LogImplements`: the file, its caches and its sessions implement `AppendOnlyLog`.

`Discipline` is the hypothesis of all of them: no unlocked load within another
process's pair of file operations, no append behind a failed one, no requests
served by a process that keeps its cached tail. It is what the run `event_log`
has for constants; the code does not keep it in every deployment, and section 3
says what happens then (`claim_append` is the third case). The theorems say that
these are the only ways to lose a record or to break the chain.

`LogInv` adds to the types what each actor knows. `ChainInv`: record `i` has number
`i` and names its predecessor. `SessionInv(p)`: between the stages of a locked
section, the position it will append at is the end of the file, and an unfinished
line is the one it wrote. `LoadInv(p)`: who cuts is alone with the file and cuts what
it saw. `StoredInv` and `CacheInv(p)`: the stored projection and a verified prefix are
prefixes of the log. `StreamInv`: what was published is in the log, and a browser that
is live, was not told of a lag and was not cut at a page has everything before its
position. `Records`, the events of a page, is defined by recursion on the file; what it
computes is shown by induction over the well-founded order of the naturals.

### Invocations and their file tree (`PathProofs`, `AgentProofs`)

For any budgets, roles, paths, patches, trees and links:

* `AgentTypes`: `AgentTypeOK`. `BudgetsAreKept`: `BudgetsHold`.
* `NoProcessOutlives`: `NothingLeftRunning`.
* `ReadOnlyIsReadOnly`: `ReadOnlyKeepsWorktree`.
* `NothingEscapes`: `OutsideUntouched`, if `CommandsStayInside`.
* `ProtectedFilesStay`: `ProtectedKept`, if `NoAliases` and `CommandsSpareGuarded`.

`SessionInv` says what each phase of the turn loop knows: budgets are not used up
while it goes on, a process is alive only while somebody supervises it or the node
dropped it, the job of a command fits driver and role, and a read-only role has
changed nothing, or is an external agent whose answer is still to be judged.
`TreeInv` adds that the tree stays a tree whose links are among the first ones, and
that the files a patch is about to touch were confined when it was checked.
`ResolveConfines` (`PathProofs`) is the heart of `NothingEscapes`: what `confine`
accepts names, after all links are followed, a place inside the root. It needs facts
about the deepest existing ancestor of a path, `Ancestor`, shown by induction on the
length of the path.

The three hypotheses are about what the program cannot enforce. Configured commands
and external agents run as the user and write where they like, so what they write is
assumed to be inside (`CommandsStayInside`) and not protected
(`CommandsSpareGuarded`). `NoAliases`: the policy decides on the path a tool names,
before links are followed, so a link inside the worktree that leads to a protected
file, or to a directory above one, gets around it; the theorem needs the repository
to have no such link. `agent_session` has a link inside the worktree that satisfies
the hypothesis.

### Configuration and gates (`GatesProofs`)

For any documents of owner and repository, projects, requests and interventions:

* `OnlyTightens`: `RepositoryOnlyTightens`. `TrustIsOfBytes`: `TrustIsForTheseBytes`.
* `NothingIsLost`: `NothingLostQuietly`. `InitMeansItself`: `InitKeepsSettings`.
* `RunsAreCovered`: `RunIsCovered`.

For any commands, outputs, worktrees, verdicts and number of repairs:

* `NothingAgainst`: `NothingAgainstEligible`.

`ConfigInv` ties the resolution to the bytes it read: the effective configuration is
the layering of defaults, the owner's document and these bytes under the trust found
for them, up to the survey (`ResolutionInv`), whatever happens to the file in the
meantime; what is trusted was reviewed (`TrustInv`); what `init` has written renders
a configuration (`WrittenInv`). The properties then follow from lemmas about one
layer (`AuthorityGate`) and its composition, setting by setting.

`CoverInv` justifies checking the gates apart from the way to a configuration. `init`
may be run on a file `init` wrote, any number of times, while `Accepted` counts one.
`LayeredRender` says what a rendered file means setting by setting, `RenderTwice` that
a file rendered from a rendered one reaches no configuration the first does not, so
every file that can be in the repository is `Covered`, and so is every run.

`GateInv`: until the review of an attempt is stored, the stored one fails, since only a
failed attempt is repaired; so a gate that ends in an error, which stores nothing, cannot
leave the decision to what an earlier attempt stored. What speaks against the attempt
is at every gate in the review that is being made, and then in the stored one.

### Only model-checked

* Liveness: `DispatchReturns` and `InvocationEnds`. Fairness is out of the prover's
  reach.
* Of the engine: `NothingStartsAfterTheEnd`, which holds with one permit only
  (section 3), and `LogReplays`, which holds with one permit and without edits of the
  plan only (`claim_serialised`).
* Of the gates: `EligibleIsProven` and `ProvenIsEligible` compare what a parser counts
  with the lines it counted, which is induction over the lines, and the first depends on
  what the commands print: in `pytest` output a later summary hides an earlier one.
  `GatesTypeOK` needs the length of a filtered catalogue (`SelectSeq`), which is induction too.
* The claims, which TLC refutes; there is nothing to prove about them.

## 5. Not modelled, and the plan

Not modelled:

* file store: the artifact index, attempt directories, redaction on write; export
  and cleanup. The index is read, extended and written by concurrent tasks, which
  is listed as a hazard without a property;
* the API's session table and guards; views; argument parsing and presentation of
  the command line and the control room;
* the score tuple and its tie breaks: the ranking is any order of the eligible;
  `validate_plan_document`; metrics, identities and the clock;
* how a parser splits its text, SARIF findings and their severities, TOML syntax;
* the probing and ranking of models, prompts, arguments of external agents;
* snapshots of a dirty repository and the removal of worktrees in git;
* Windows job objects: the supervisor is the Unix one;
* the repository policy checker, a lint of the repository's own text.

Plan:

1. (done) the engine: `Lifecycle` to `Engine`, with crashes, requests and
   cancellation.
2. (done) `EventLog` with `AppendOnlyLog`, and `EventStream`.
3. (done) `ProcessSupervisor`, `PathPolicy`, `AgentSession`.
4. (done) `ProjectSurvey`, `Configuration`, `TestReports`, `QualityGates`.
5. (partly done) Proofs. Done: the engine, the log with its refinement, invocations,
   configuration, and of the gates that nothing against a candidate is forgotten. Left:
   what the commands of a candidate show (`EligibleIsProven`, `ProvenIsEligible`).
6. `FileStore`: artifact index and attempt directories under concurrent tasks;
   export and cleanup against a running dispatch.
