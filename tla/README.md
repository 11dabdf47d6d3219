# A formal model of Project-Factory (MyPeople)

MyPeople runs coding agents (Codex, Claude) as tmux windows inside one
container and coordinates them: it starts, stops and revives them, hands them
commands, moves them to stronger models or other provider accounts, keeps the
board they report to, and publishes what they made.  Its logic lives in small
Python programs, shell loops and Windows scripts that share files, so almost
every hard question about it is one of interleaving, of a process killed
half-way, or of a copy that was read too early.  This directory models that
logic in TLA+, checks it with TLC on small instances, and proves the most
important results for all instances with TLAPS.

Contents: [inventory](#1-inventory), [plan](#2-plan), the nine models
([queue](#3-controlqueue), [recovery](#4-agentrecovery),
[escalation](#5-routingescalation), [publication](#6-publication),
[board](#7-todoboard), [routing](#8-taskrouting),
[launch](#9-tasklaunch), [comparison](#10-memorycomparison),
[switch](#11-providerswitch)),
[what is proved](#12-proofs), [findings](#13-findings),
[what is not modelled](#14-not-modelled-and-why),
[how to run it](#15-running-the-checks).  `PROJECT.json` has the same facts for
a program: the runs, the source lines behind every definition (`map`), the
hazards with their lines, the mutants and the theorems.

## 1. Inventory

### 1.1 The parts, their state and their operations

| Part | Code | State it keeps | Operations |
| --- | --- | --- | --- |
| Control queue | `bin/queue-server.py`, `bin/queue-client.py` | `TASKS` in memory, `run/control-queue.json`; display caches `CLIENTS`, `AGENTS` | submit, poll, result, retry, load at start; the client's poll/execute/report loop and heartbeat |
| Agent life cycle | `bin/mp` (spawn, kill, revive, switch, reconcile), `bin/boss-supervisor.sh`, `bin/core_agent_controls.py`, `bin/mpcommon.py` | rows of `run/roster.json`, status files, tmux windows | one mp process per operation; the supervisor's turn every 15 s; the HUD's controls with 90 s each |
| Routing escalation | `bin/mp` (fail, escalate), `bin/routing_escalation.py`, `bin/provider_transaction.py` | request and transaction records, `provider-switch.lock`, the worker's row | fail, escalate, the forward transaction, its rollback |
| Provider switch | `bin/provider-session`, `bin/provider_transaction.py`, `bin/provider_handoff.py`, `windows/Switch-MyPeopleProviderProfile.ps1` | transaction directory, bindings, roster, the same lock file, host profile | prepare, stop, revive, verify, commit, abort, rollback, each a process the host script may kill |
| Publication | `bin/project_publisher.py`, `bin/mp` (publish), `windows/Publish-MyPeopleProject.ps1`, `windows/Invoke-MyPeopleSshPublication.ps1` | approval records, remote branches and pull requests | create (supersedes), approve, reject, publish, broker steps, expiry |
| Todo board, fleet monitor | `bin/todo-server.py`, `bin/fleet_monitor.py`, `bin/evidence_validation.py` | `todos.json`, owners, event queue, delivery ledger, one-use tokens | create, delete, update, comment, proof, status, owner, observations and their delivery |
| Board export | `bin/board-export.py`, `bin/board-restore` | snapshot repository, quarantine and baseline markers | export a change, quarantine a shrink, restore |
| Task routing | `bin/task_routing.py`, `bin/backend_resolution.py` | policy, frozen receipts | choose a tier, walk to the next route |
| Session identity | `bin/agent_session.py`, `bin/agent_identity.py`, `bin/runtime_identity.py`, `plugins/tmux-boss-hooks` | session files, capture lock | capture of a new session, deferred recording |
| Memory comparison | `bin/memory_comparison.py` | run state file, event file | gate, arms, pairs, cleanup, abort |
| Memory canary | `bin/memory_canary.py` | mode file with revision, receipts | set mode, attempt, session, assessment |
| Memory recovery | `bin/memory_recovery.py`, `bin/local_memory_emergency.py`, `bin/local-memory-runtime.py`, `memory-gateway/` | none durable; a child process | the fallback chain, the local process that follows the mode |
| Project context | `bin/project_context.py`, `bin/automatic_memory.py` | none (a compiler of cards into TaskSpecs) | compile, validate |
| Project workspaces | `bin/project_workspace.py`, `bin/workspace-supervisor.py` | checkouts, profiles, tmux sessions | one turn over all projects |
| Runtime supervisor | `bin/runtime-supervisor.sh` | table of children | start, watch, restart, stop |
| Docker deployment | `windows/Upgrade-*.ps1`, `Migrate-*.ps1`, `Recover-*.ps1` | containers, volume archives | upgrade, compare, roll back |
| Observability, HUD, other scripts, benchmark | see `PROJECT.json` | none others act on | read-only or straight-line |

### 1.2 How they interact

* **By the roster.**  `mp`, the provider switch, the escalation, the queue
  client (heartbeat) and the HUD all read `run/roster.json`.  `update_roster`
  replaces one row under a file lock, but the caller computed that row from a
  copy it read seconds or minutes before.  The lock protects the file, not the
  decision.
* **By tmux.**  An agent is alive if tmux finds a window of its name.  tmux
  finds a name only while it is unique, and nobody holds anything between
  looking for a window and creating one.
* **By the lock file.**  Provider switch and escalation take
  `provider-switch.lock` with `O_EXCL`.  The supervisor looks at it at the start
  of its turn only.
* **By the queue.**  The HUD and workers submit commands; the host's client
  executes them as `mp` processes, kills them after 120 seconds and reports.
* **By the board.**  Escalation, publication and routing read a card and later
  write it; the board's optimistic `expectedUpdatedAt` is the only guard.

### 1.3 What is hard, and the properties that make each part correct

| Part | Hard behaviour | It is correct if |
| --- | --- | --- |
| Control queue | server crash between memory and journal, failed journal write, lost replies, abandoned requests that still run, client killed with a batch | only people make a right to run a command; acknowledged work and confirmed outcomes survive; what is queued is handed out |
| Agent life cycle | commands interleaving at every read, write and tmux call; 90-second kills; attempts and cooldowns; Boss's second launch path | a deliberate stop holds; nothing is launched twice; attempts are bounded and "blocked" final; recovery resumes the recorded session; a lost agent is brought back or blocked |
| Routing escalation | two executors of one request, kills at every step, the supervisor's stale turn, the rollback's own failures | one escalation at a time; at most one continuation message; records agree; the process left running is the one the records name; a stopped worker reaches an outcome |
| Provider switch | phases that fail or are ended half-way; one agent of several; rollback's whole-file write; a supervisor's turn under way | it works under its lock; what is called verified or rolled back is so for every agent; the lock is given back and no agent left stopped |
| Publication | superseding under another lock than transitions; crash in `publishing`; merge recorded after the fact | one push per approval; one pending request per intent; nothing merged that was not approved, nothing published that was rejected; a record claims only what happened |
| Todo board | threading server with check-then-act outside the lock, replays, full queues | an owner has one card; done needs evidence on every path; a token is used once; an observation is delivered at least once |
| Board export | crash between marker and commit, boundaries of the shrink rule | a catastrophic shrink is never the new baseline; one alert per episode |
| Task routing | two limits on attempts and escalations, frozen ceilings | a route is allowed, under the ceiling and in order; the walk ends |
| Memory comparison | two callers and no lock, state file before event file, abort from every state | arms in the approved order and comparable, cleanup complete, a success earned |
| Launch: canary, project context, recovery | a control switched under a launch, every way a recall can fail, receipts shared by launches | claims are earned, receipts are of one attempt, launches of a card that follow each other keep apart |
| Session identity | several launches watching one directory | a session belongs to one agent or to none |
| Runtime supervisor, workspaces, deployment | a child or step that fails or hangs | the others still get their turn; a failed upgrade is rolled back completely |

The hazards behind this table are listed one by one, at their lines, under
`hazards` in `PROJECT.json`.

## 2. Plan

Modules in order of importance.  All rows are written and checked, and all have
theorems for every safety property their runs check; liveness stays with TLC.

| # | Module | Models | Abstract promise | Theorems |
| --- | --- | --- | --- | --- |
| 0 | `CommandLedger` | what the queue promises | only a person grants a run | used by 1 |
| 1 | `ControlQueue` | server, journal, client loops, network | implements `CommandLedger` | `TypeCorrect`, `LedgerImplemented`, `NoDuplicate`, `RecordsAreTrueAlways` |
| 2 | `AgentRecovery` | mp processes, supervisor, HUD | a stop holds; a lost agent is handled | `TypeCorrect`, `StopHolds`, `NothingReopens`, `RecoveryIsExactAlways` |
| 3 | `RoutingEscalation` | executors, supervisor, lock file, spawn | one continuation, records agree | `TypeCorrect`, `LockedAndRecordedAlways`, `OneContinuationAlways`, `SettledRunsItsRuntimeAlways` |
| 4 | `Publication` | approvals, bridge, broker, remote | one push per approval, decisions hold | `TypeCorrect`, `SingleUseAlways`, `DecisionsHoldAlways`, `RecordsAreTrueAlways` |
| 5 | `TodoBoard` | handlers of the board, fleet monitor | evidence and owner rules on every path, an alarm arrives | `TypeCorrect`, `DoneIsProvenAlways`, `OneCardPerOwnerAlways`, `ObservesItsOwnerAlways` |
| 6 | `TaskRouting` | policy, choice and step of a model | a route fits its task and is allowed | `RoutingTypeCorrect`, `RouteFitsTaskAlways`, `EveryRouteIsAllowedAlways` (in `RoutingEscalationProofs`) |
| 7 | `TaskLaunch` | canary control, TaskSpec, recall, session capture, receipts, revive | claims earned, sessions, TaskSpecs and attempts apart | `TypeCorrect`, `NoSharedSessionAlways`, `ClaimsAreEarnedAlways`, `ReceiptsBelongTogetherAlways`, `RowsAreTheirOwnAlways` |
| 8 | `MemoryComparison` | the paired run and its scoring | arms comparable, success earned | `TypeCorrect`, `ArmsAreComparableAlways`, `CleanupIsCompleteAlways`, `SuccessIsEarnedAlways` |
| 9 | `ProviderSwitch` | host script, phases, mp per agent, supervisor's stale turn | a switch is whole or undone | `TypeCorrect`, `WorksUnderLockAlways`, `SwitchIsWholeAlways` |

How they fit together.  `RoutingEscalation` takes the position in the order of
models for granted; `TaskRouting` says which position is allowed.  `AgentRecovery`
revives one recorded session; `TaskLaunch` is where sessions are recorded, several
launches at a time.  `ProviderSwitch` moves several agents at once and shares the
lock file with `RoutingEscalation`: each has the lock's other user as a reason
why it may be busy.  `TodoBoard` sees agents only through their roster rows.

## 3. ControlQueue

One action per handler, because every handler holds `LOCK` from the look at
`TASKS` to the end of `persist_tasks`.  What is not atomic is separate: the
journal write may fail after `TASKS` was pruned and changed; the server may die
at any point; `SendPoll`, `ServePoll` and the client's wait are three steps, so
a request outlives a client that gave up on it (`stale`) and its reply takes
commands with it.

| Model | Code |
| --- | --- |
| `tasks`, `ended` | `TASKS`; `ended` is the order in which rows became terminal, the sort key of pruning |
| `journal` | `run/control-queue.json` as last replaced |
| `PersistTasks`, `Pruned`, `Selected` | `persist_tasks` and its selection of active and newest terminal rows |
| `Submit`, `ServePoll`/`ServeStalePoll`, `CompleteTask`/`RejectUnknownTask`, `Retry` | the handlers of `/task/submit`, `/task/poll`, `/task/result`, `/task/retry` |
| `Crash`, `LoadTasks` | the process dies; `load_tasks` turns delivered into uncertain |
| `phase`, `batch`, `held` and the client steps | the main loop of `queue-client.py` |
| `granted`, `ran`, `claimed`, `acked`, `settled` | history only |

`CommandLedger` is the promise without the machinery: a person who submits or
retries a command grants one permit; every execution spends one; anything may
destroy permits; nothing else makes one.  In the queue a permit is a *right to
run*: a row that is queued, in memory or in the journal a restart would load, or
a task in its client's batch (`Rights`).

**Run `queue`** (about two minutes).  Two commands for two hosts,
`TerminalLimit = 1` (the second outcome already prunes the first),
`MaxAttempt = 2` (one retry), `MaxFaults = 2` (for instance a failed write
followed by a crash, or a lost reply followed by a restart).  A third command
adds no new kind of conflict: hosts share nothing but the table and its
pruning, and two outcomes with a limit of one already compete.  The run checks

* `ImplementsLedger`: the refinement.  The result body does not name its
  attempt, an abandoned poll may still be served, and a failed write leaves
  memory and journal with different rows, so this takes the whole protocol to
  hold.
* `RecordsAreTrue`: acknowledged work is in the journal, a confirmed outcome
  survives every crash, and a row says done or failed only of a command that ran,
  failed writes and pruning included.
* `QueuedIsHandedOut`: liveness under `Fairness`.

**Fairness.**  `WF(LoadTasks)`: `runtime-supervisor.sh` restarts a dead server.
`WF` of serving polls and results: the server is threading and its handlers end.
`WF` of the client's steps: its loop has no exit.  Nothing is assumed of people
or of faults.  `CHECK_DEADLOCK FALSE`, because commands, attempts and faults
are bounded and everything may be used up.

## 4. AgentRecovery

One agent, the supervisor and operators.  Every process has a program counter
and its own copy of the row, and a step is one access to the roster, to tmux or
to a status file.  A process's `cmd` says which command called `revive` or
`spawn`, so the code those share is modelled once and returns to its caller
(`AfterFailure`, `AfterSuccess`).  `Timeout` is the HUD killing `mp`
after 90 seconds, wherever it is.

| Model | Code |
| --- | --- |
| `agent` | which agent this is, a worker or Boss, fixed at the start: the supervisor treats Boss differently |
| `rec` | the agent's row: retired, recovery_state, recovery_attempts, session_id |
| `windows` (a number) and `Found` | tmux windows of the name; only a unique name is found |
| `SupStart`, `Reconcile*`, `BossBootstrap`, `SupDone` | `boss-supervisor.sh` and `cmd_reconcile` |
| `Revive*`, `Spawn*`, `Kill*`, `Switch*` | `cmd_revive`, `spawn`, `cmd_kill`, `cmd_switch` |
| `WindowDies`, `Heartbeat` | a provider exits; the queue client ends "starting" |

The runs (all with deadlock checked; the supervisor never stops):

| Run | Bounds | Question |
| --- | --- | --- |
| `recovery_operator` | a worker, one operator, two commands, one death, one attempt, three windows | is a stop undone by anything started before it or by the supervisor? (`DeliberateStopHolds`, `StoppedStaysStopped`) |
| `recovery_alone` | a worker or Boss, no operator, `RecoveryMax = 3`, `BootstrapMax = 2`, four deaths, three sessions | attempts, "blocked", session identity over repeated losses (`RecoveryIsExact`, `LostIsHandled`) |
| `recovery_boss` | Boss, one operator command, one death | is Boss's deliberate stop kept? No: `DeliberateStopHolds` is violated |

The bounds reach what is asked: two commands are needed for a kill to race a
revive or switch; three attempts with a bootstrap limit of two separate the two
limits of the code; four deaths exhaust them; three windows show a second
duplicate.

`recovery_boss` ends with a counterexample of twelve steps: `mp kill` of Boss completes
with nothing beside it, the supervisor's next turn skips the stopped row, finds no
window of that name in tmux, spawns Boss, and the row spawn writes has no stop any more.
The documents promise the opposite (section 13), so the run is one with
`expect: violation`, and what the passing runs and the theorems say of stops, they say
of workers.  For Boss `recovery_alone` checks that it comes back when its window is lost
by itself (`LostIsHandled`).  That supervision starts a blocked Boss afresh is the same
line's doing, and no property is about it.

**Precondition.**  `DeliberateStopHolds` is about stops that were recorded while
no other command was under way (`stopAlone`).  It is the strongest form that is
true: a reconcile or spawn that read the row before the kill puts its older copy
back over it (section 13).  It is stated for all that
follows, with new commands and the supervisor racing.

**Fairness.**  `WF` of the supervisor's step: the loop has no exit and every
command it calls has a time limit.  `SF` of `ReconcileLaunch` and
`ReconcileBlock`: a cooldown or a startup deadline is an instant that passes, so
a turn that finds it passed comes; the model leaves time abstract and strong
fairness says just that.  The supervisor leaves its turns out while provider launch is
paused or `provider-switch.lock` exists (`boss-supervisor.sh:10-17`).  Leaving one out is
taking `SupStart` later, so the safety runs have it; `LostIsHandled` assumes that turns
are not held back for ever.  Operators get no fairness.

## 5. RoutingEscalation

One worker, executors of `mp escalate`, the worker's own `mp fail` and the
supervisor.  The state follows the files: the request records, the transaction
records, the lock file, the row, and as `windows` the sequence of models running
in windows of the worker's name.  `RequestTransitions` and
`TransactionTransitions` are the tables of the two modules; a write that the
table refuses raises, and the model goes where the exception goes.  Spawning is
shared by the forward path, the rollback and the supervisor's revive, as in the
code.

| Run | Bounds | Question |
| --- | --- | --- |
| `escalation_supervised` | two executors of one request, one crash, supervisor, one route up | `LockedAndRecorded` (`OneAtATime` and `RequestMatchesTransaction`), `OneContinuation`, `SettledRunsItsRuntime` |
| `escalation_liveness` | one executor, supervisor, one death, no crash | `StoppedIsSettled` |

Two executors of one request are what the queue produces when a client is
restarted with an uncertain command that a person retries, or when someone runs
the command by hand.  Executors are symmetric in the safety runs; the liveness
run uses no symmetry.  `SettledRunsItsRuntime` looks at the moment a transaction
is committed or rolled back: if tmux finds a window then (a unique one), it runs
the candidate, or the prior model.  A supervisor's turn begun before the lock may
have opened a second window by then (section 13), and tmux finds none of two.
Nobody looks at which process a window runs, so the property speaks of histories in
which no window has died by itself (`deaths = 0`): when one of the two dies, the other
is found and taken for the expected one.  With `MaxDeaths = 1` and without that
condition TLC finds the counterexample, which needs the supervisor's stale turn.
`CHECK_DEADLOCK FALSE`: requests, crashes and
deaths are bounded, and every executor may be done.

**Fairness.**  `WF` per executor and of the supervisor: they are processes that
run.  With a crash in the bound the lock stays for ever (section 13);
TLC finds it at once when a crash is allowed; hence the liveness run has none.

## 6. Publication

The approvals of one task.  Its project, repository and branches are fixed, so
the publication intent (`approval_logical_key`) is the mode.  Three kinds of
process share the records: Boss's `mp approve-publish`, host scripts and the
CEO.  `publish`, `finalize_draft_pr` and `_transition` hold the lock of one
record from reading it to writing the copy back, which is one pc (`write`, or
`publishing` to `push_failed`) with `Unlocked` as the guard of entering it;
superseding holds the lock of the directory and unlinking none, so they
interleave.

| Model | Code |
| --- | --- |
| `record`, `used`, `expired` | the approval files, the identities drawn, `expiresAt` |
| `ListApprovals`, `Supersede`, `CreateApproval`, `ResumeCard`, `UnlinkApproval` | `approve_runtime` and `create_approval` |
| `RecordRead`, `RecordWrite`, `Expected`, `Target`, `Valid` | `_transition` and its callers, `finalize_draft_pr` |
| `Decide` | the CEO's decision in the HUD; `mp publish-checks` by hand |
| `BridgeCheck`, `PublishRead` ... `PublishDone`, `DraftPullRequest` | `Publish-MyPeopleProject.ps1`, `publish-with-credential`, `publish` |
| `BrokerCheck` ... `MergePullRequest` | `Invoke-MyPeopleSshPublication.ps1` |
| `tip`, `pr`, `MarkReady` | GitHub, as the scripts use it (external) |
| `landed`, `pushes`, `decided` | history only |

**Run `publication`** (about 100 s).  Two identities, because superseding needs
a predecessor; both modes with a pull request, because they share the branch and
the record's life cycle (`direct_main` takes `publish`'s path of the other mode
to main); one Boss, one host that may run either script again and again, the
CEO, one kill.  A host killed half-way and run again competes with itself; two
hosts at once are covered by the proof of `SingleUse`, which holds for any
number.  `CHECK_DEADLOCK FALSE`: identities are bounded and everything may be
used up.  Kills and failed calls of git and gh may happen at each step.  It checks
`SingleUse` (one push per approval), `DecisionsHold` (nothing merged that the
CEO did not approve, nothing published that was rejected) and `RecordsAreTrue`
(one pending request per intent, and a record claims only what happened).

There is no fairness and no liveness property: every step is a command of a
person, and the code promises no completion.

## 7. TodoBoard

A handler holds `STORE_LOCK` from `load_board` to `save_board`, so it is one
action.  The fleet worker is not: it copies a card under the lock, reads the
roster without it, takes the lock again to store what it saw, and sends and
acknowledges without it.

| Model | Code |
| --- | --- |
| `board`, `live`, `unused` | the cards of `todos.json` |
| `Add`, `Delete`, `SetCard`, `SetStatus`, `Comment`, `Proof`, `Owner` | the handlers that write a card |
| `Verified`, `DoneAllowed`, `Reopened`, `OwnerAllowed`, `OwnerInUse` | the rules on done, reopening and owners |
| `events`, `Queued`, `Heartbeat` | `FLEET_EVENTS` with its limit, `idle_watch` |
| `Take`, `LookUp`, `Requeue`, `Observe`, `Send`, `SendFails`, `Ack` | `process_fleet_event` and the ledger of `fleet_monitor.py` |
| `worker.same` | the comparison of `fleet_task_revision`: every handler stamps the card, so one Boolean says whether it was touched |
| `Spawn`, `Report` | agents, external |
| `loose`, `sent` | history only |

**Run `board`** (about a minute).  Two cards, one a test card; one agent, because
two cards that compete for it are the conflict; a queue of one, so that the
second event is dropped; two edits, two changes of the agent, one fault.  Two
edits alone reach few interesting states from an empty board, so the run has three
starts, each reachable with more edits: an empty board, a card at work, and a
closed card whose former owner works on another.  It checks `DoneIsProven`,
`OneCardPerOwner`, `ObservesItsOwner` (the roster was read before the lock, but
what is stored is about the owner the card has now) and `AlarmIsDelivered`: what
the monitor noticed gets to both addressees or is overtaken by something newer.
`StartAssumption` asks of every start what the run's three have: a typed board whose
done cards are proven and whose open cards have different owners.  `Heartbeat` queues
the live cards in any order (`SetToSeqs`), as many as there is `Room` for.

**Fairness.**  `WF(Fleet)`: the worker thread loops for ever and each of its
calls has a time limit.  `WF(Heartbeat)`: `idle_watch` runs every few minutes.  A
failed send is a fault, and faults are bounded: nothing is promised if every
send fails.  `CHECK_DEADLOCK FALSE`: edits and reports are bounded.

**Precondition.**  `OneCardPerOwner` excepts cards reopened by someone else than
the CEO (`loose`): `close_reopen` asks for a fresh owner only when the CEO
reopens, and the owner's check looks at open cards, so a reopened card may meet
its former owner's new card.

## 8. TaskRouting

Pure functions over a small amount of state: the policy file, the task's
specification, the worker's frozen receipt.  Tiers, classes and risks are
numbers; models are model values.  The names `RoutingSpec`, `RoutingInit` and so on keep
the module apart from `RoutingEscalation`, so that one module can extend both.

| Model | Code |
| --- | --- |
| `ValidPolicy`, `Cap`, `Attempts`, `Escalations` | `load_policy` and a project's own limits over the defaults |
| `TaskClass`, `TaskRisk`, `Desired`, `Ceiling` | `_classify` and the tier it leads to |
| `Candidates`, `Automatic`, `Manual`, `RouteTask` | `_automatic_tier` and `route_task` |
| `Canonical` | what a receipt must satisfy to be written or read |
| `Budgeted`, `Expected`, `NextRoute` | `next_route` |
| `EditPolicy`, `SpawnRouted`, `Escalate`, `Retire` | the operator, a worker's spawn, a step up, the worker's end |

**Run `routing`** (seconds).  Every one of the 1024 task specifications, nine
policies that differ in everything a step depends on (two of them invalid),
exchanged at any moment.  `RouteFitsTask` compares the choice with a reference
definition of demand (`Demand`), written from the documentation's sentence rather
than from the code; `EveryRouteIsAllowed` is about the policy at the moment of
the step while the receipt was frozen under another; `RoutingTypeOK` includes that no
decision is ever refused by its own writer.

`RouteFitsTask` speaks of the task's ceiling up to the first step up: a second
one may pass it (section 13).

## 9. TaskLaunch

`mp spawn --owner-task` from the reading of the control to the roster row, and
what later depends on that row: completion, assessment, death, revive.  Several
launches run at once in processes of their own.

| Model | Code |
| --- | --- |
| `mode`, `SetControl` | the memory control and its replacement by `mp memory` and the board's Disable |
| `profile`, `ValidProfile`, `Credential` | the project's profile file, `validate_profile`, `resolve_memory_credential` |
| `Begin`, `Refused`, `Recall`, `TaskAllowed` | which memory a launch may ask for, or why it ends |
| `ConfirmControl`, `Ask`, `AnswerArrives`, `CompileWithout`, `AutomaticSpec`, `ManualSpec` | the gateway's call and what becomes of its answer |
| `Recover`, `FirstSufficient` | `memory_recovery.recover` over the four levels |
| `AppendStart`, `Complete`, `Assess`, `LatestReceipt` | the receipts of the canary |
| `WriteTaskSpec`, `ReadContext` | the TaskSpec file, its digest, and the attempt read back from the receipts |
| `OpenWindow`, `Discover`, `CaptureFails`, `LockTimesOut`, `KilledEarly`, `Killed` | `capture_lock`, the listing before, the window, the discovery after, the row |
| `SessionAppears`, `UserSession`, `UserCopies` | the provider's session files (external) |
| `AgentDies`, `Evidence`, `Revive` | the check of the recorded session, the exact resume |
| `overlapped` | history only: the launches beside which another launch of their card was under way |

To keep the state space within reach, steps that nothing could tell apart are one
step, and events that change nothing are left out.  Each of these is sound for
the properties stated:

* A session file appears, and a person opens a session, only while somebody
  captures: otherwise it is in the next launch's listing and makes no difference.
* The lock and the window are one step, and so are the release of the lock and
  the row's write: between them the launch touches nothing another launch reads
  but the session files, whose moment of appearing is free anyway.
* An agent's death matters only where a row with a session is left.
* The control is switched only while some launch may still read it.  The unlocked
  read before the replacement decides only whether there is anything to write, so
  a switch is one step, at the replacement.

The gateway's second look at the control (`ConfirmControl`) and the start of its
process (`Ask`) are two steps, and the control may be switched off between them, as in
the code (`project_context.py:325-341`).

**Run `launch`** (about two minutes).  Two launches, two cards (one of them the
baseline arm of a comparison without a question), thirteen profiles: two
that work and eleven that fail one by one in each way
the code distinguishes, all answers the gateway can give and
every outcome of the four levels with every deadline, one switch of the control and
kills at any moment, one session a person opens, one assessment, one agent that dies (`MaxDeaths`).  Two launches
because every property is about a pair; two cards because receipts and TaskSpec
files are shared per card.  `CHECK_DEADLOCK FALSE`: every launch ends.

`NoSharedSession` is about launches that overlap at every step of the capture;
`ClaimsAreEarned` compares the recalled level with a reference definition
(`Reference`); `ReceiptsBelongTogether` as in
section 1.3.  `RowsAreTheirOwn` is about launches of one card that share its TaskSpec
file and the receipts one after the other, the next one perhaps after a kill: the row an
agent gets has the digest of its own launch's TaskSpec and, where the launch opened an
attempt, that one or none, never an older one.  Launches of one card that overlap do get
mixed up (section 13); `overlapped` names them and the property leaves them out.  "None"
is what an older agent's hand-over or an assessment does that comes between the receipt
and its reading.  A disabled profile and a missing credential are in
no run.  There is no liveness: a
launch may be killed anywhere.

## 10. MemoryComparison

The run file of a paired comparison.  A request loads the file and computes the
new state, replaces the file, and appends the event: three steps without a lock.
What a request will write depends on what it loaded only, so a request in flight
is known by the state it is going to write.

| Model | Code |
| --- | --- |
| `file` | `state.json` |
| `StartRun`, `Qualify`, `StartArm`, `SubmitResult`, `Cleanup`, `CompletePair`, `CompleteRun`, `AbortRun` | the operations of `memory_comparison.py` behind the board's requests |
| `Qualified`, `Started`, `Recorded`, `Cleaned`, `PairCompleted`, `RunCompleted`, `Aborted` | what each makes of the state, `_violate` included |
| `WriteState`, `AppendEvent`, `Fail` | `_persist`, and a failure between its two writes |
| `WellFormed`, `Harmful`, `Components`, `Receipt` | the scoring of a worker's envelope |

**Run `comparison`** (seconds).  Two cases with opposite orders of arms, five
resources of which two clash with another in one part only, envelopes that are
right, wrong, harmful and refused, and two callers whose requests overlap.  It
checks `ArmsAreComparable`, `CleanupIsComplete` and `SuccessIsEarned`.  With two
pairs every rule about order has a pair before and after; a third repeats them.
Deadlock is checked.

## 11. ProviderSwitch

The script on the host runs the phases of `provider-session` one after the other,
each under a timeout; the phases run `mp kill`, `mp fresh-handoff` and `mp revive`
for one agent after the other.  A supervisor's turn may have begun before the lock
was taken, and windows die.

| Model | Code |
| --- | --- |
| `host`, `bindings`, `Bind`, `Restore`, `RollBind` | the bindings on Windows and in the container, and who writes which |
| `lock`, `Lock`, `Unlock` | `provider-switch.lock`, `acquire_lock`, `release_lock` |
| `file`, `phase`, `Save`, `WritePhase` | the transaction directory and the script's variables |
| `Stop`, `KillRow`, `KillWindow`, `KillFinal` | `stop_agents` and `mp kill` |
| `Revive`, `Authorize`, `SpawnTarget`, `SpawnWindow`, `SpawnFresh` | `fresh_handoff_agents`, `validate_fresh_handoff`, `mp fresh-handoff`, `spawn` |
| `VerifyRows`, `VerifyWindows` | `verify_roles`, which reads the roster once and asks tmux afterwards |
| `RollRead` ... `RollDone`, `ReviveLoad` ... `ReviveFails` | `rollback` and `mp revive` |
| `TermPrepare`, `TermForward`, `TermRollback`, `TermLast` | `timeout --signal=TERM`, the handler that raises, and what `except` and `finally` still do |
| `SupTurn`, `SupPass`, `SupDecide`, `SupFail` | one turn of `mp reconcile` over the roster it read |

A phase that is ended drops what it was doing wherever it was, mp included, and the
script goes where its `catch` goes: to the rollback once agents were stopped, to
nothing if prepare was not believed.  `ok` stands for every check whose subject is
left out (credentials, receipts, the identity of a process).  `late`, `cut`, `alone`
and `single` record four things that happened, for the properties' sake.

**Run `switch`** (a minute and a half).  Two agents, one of them with a profile of
its own, so that a switch of all has two targets; a switch of one agent, of all,
or back to the global profile; one event from outside anywhere: a phase that is
ended, a window that dies, or a turn of the supervisor.  Two agents because the
first may be done when the second fails.  A second script is in the model and not
in the run: it can do nothing but read the host's bindings and find the lock
taken, or run afterwards; the instance of one agent, two scripts and two requests has
13 million states and satisfies `TypeOK`, `WorksUnderLock` and `SwitchIsWhole`.
`CHECK_DEADLOCK FALSE`: the script ends.

`WorksUnderLock` excepts a rollback because of a commit that had completed and was
reported failed (`late`).  `SwitchIsWhole` compares, at the moment the phase is
written, bindings, rows and processes of every agent; it needs that no turn of the
supervisor was under way when the lock was taken (`alone`), because such a turn
spoils a switch, and that no name had two windows then (`single`), because a turn that
overlapped an earlier switch leaves two and a later switch closes neither (section 13).
The row of an agent that was rolled back names the profile its session belongs to,
which is not the snapshot's where the snapshot took a window that was taken over.  `SwitchEnds`: the lock is given back unless the
last process that would do so was ended first (`cut`), and no agent stays stopped
if nothing was ended from outside, whichever step failed.

**Fairness.**  `WF` of each script with the processes it started, and of the
supervisor's turn: every phase and every command in it has a time limit.

## 12. Proofs

`tlapm` checks every proof to its leaves; no fact is assumed but the named
`ASSUME`s of each module about its constants.

**`ControlQueueProofs`.**  `TypeCorrect`; `LedgerImplemented`, that the queue
implements `CommandLedger` for any commands, hosts, limits and number of faults;
and `NoDuplicate == Spec => []NoAutomaticDuplicate`, which follows: in the ledger
`ran + permits <= granted` is inductive (`LedgerBudget`), and the refinement
carries it over.  The refinement needs an invariant: `ClientState` and
`HeldState` say that a client has a batch only while it works on it and only of
its own host's commands, so that an execution spends a right that is there.
`PersistQueued` and `RightsOnlyShrink` are the lemmas about pruning and reloading:
whatever a handler does to memory and journal, the rights of every other command
at most shrink.  Each action then has one lemma: it is a grant, a run, a loss or a
stutter of the ledger.  `RecordsAreTrueAlways` rests on two further parts: `Earned`,
that all a client holds, reports or got confirmed was handed out and has run, and
`Kept`, what memory and journal must both say of a command whose submission or outcome
was confirmed.  `Kept` speaks of memory too, because a later write carries memory into
the journal: `RecordsAreTrue` alone is not inductive.  `PersistKept` is the one lemma
about `persist_tasks`, for a write that succeeds and one that fails.  That a fresh
submission cannot hit a command with a confirmed outcome uses `NoAutomaticDuplicate`.

**`AgentRecoveryProofs`.**  For workers and Boss: `TypeCorrect`, which contains the bound on
`attempts`: `TypeInv` adds `JobInv`, that a process past the reconcile's check
carries a row below `RecoveryMax`.  `StopHolds` and `NothingReopens`: for
workers (`"Boss" \notin Agents`) and any number of operators and commands, a stop recorded
alone is not undone and opens no window.  The invariant `Settled`: once the stop
is settled, no process is at a step that would write a non-retired row or open a
window, and none can get there without a command that ends `stopAlone`.
`RecoveryIsExactAlways`: for a worker that no operator touches (`Op = {}`, the scope of
`recovery_alone`; an operator's command is a reason to start counting afresh) and any
limits, sessions, windows and deaths.  The invariant `Exact`: between turns `tries` is at
most the row's `attempts`; during a launch every copy the launch may still write back
(`held`, `prev`) carries the counted attempt and the recorded session, so whichever is
written last, neither is lost; and a blocked row is blocked for a reason that no step but
a new window removes.

**`RoutingEscalationProofs`.**  For any executors, requests, routes and crashes,
with or without the supervisor: `LockedAndRecordedAlways` (from `OneAtATimeAlways`
and `RequestMatchesAlways`), `OneContinuationAlways` and `SettledRunsItsRuntimeAlways`.
`TypeInv` adds `Ready` (a process that works has a request).  `StepKinds` reduces the 30 actions to two kinds, a step that leaves
an executor's records alone and a step that moves one executor along the
transition tables, so each later invariant is proved over these two.  `Mutex`
gives the lock; `Copied` says a request's outcome was copied from a transaction
that had ended, and ended transactions stay (`EndedStays`); `Messages` says how
many messages are possible at each phase and step.

`SettledRunsItsRuntimeAlways` needs two more invariants.  `OwnWindow`: from the moment
an executor has opened its window to its outcome, the window tmux finds, if any, runs
the route the executor wants; and while no window is left the supervisor has no turn
under way that could still open one: it was that turn itself which closed the window,
and its next one waits for the lock.  `HoldsBase`: the row an executor holds has the
route its request was made for.  `Runs` and `SupRuns` say what a step of an executor and
of the supervisor may do to the windows, and the proof compares the two.

The end of the module, which extends `TaskRouting` too, is for any models, policies,
task specifications, failures and backends: `RoutingTypeCorrect`, `RouteFitsTaskAlways`, `EveryRouteIsAllowedAlways`.
`DesiredMeetsDemand` compares what the code asks for with the reference `Demand`.  The
invariant adds that, until the first step up, the tier a receipt announces (`next`) is
within the ceiling of the task: the step itself looks at the project's ceiling only,
and it is the check `d.next = Expected` that carries the task's ceiling over.

**`PublicationProofs`.**  `TypeCorrect` and the three properties of the run:
`SingleUseAlways`, `DecisionsHoldAlways` and `RecordsAreTrueAlways`.  `Base` adds to
the types that a process works only on approvals that were handed out.
`NextBase` proves it action by action and reduces the actions to five kinds:
a step of no job, and a step of one job that ends outside the lock of a record,
enters it, marks the record, or pushes.  The invariant `Once` is then shown over
the kinds: `Mutex` (two processes never hold copies of one record), `Spent` (a
record that was pushed is not pending, and nothing makes a used identity pending
again, superseding and unlinking included) and `Due` (who is about to push knows
that nobody did).  The other two properties need three more parts.  `Truth` says what a
record, a copy under the lock and a script on its way may claim, each claim being
about history that only grows (`TruthMoves`); the broker's path (`OnPath`) is walked
only with an approval.  `Verdict` says that what can still be rejected is `Untouched`:
not pushed, not merged, and nobody is about to, also for the copy a process holds; and
that what was rejected is in nobody's hands.  A holder of the lock disturbs only its
own approval (`HolderVerdict`).  `Waiting` says that whoever lists approvals is alone
and has every pending one of its mode on the list, so a new one is filed only when none
is left.

**`TodoBoardProofs`.**  For any cards, agents, edits, reports, faults and size of the
event queue, and any starts that satisfy `StartAssumption`: `TypeCorrect`, which has
the bound of the event queue in it, `DoneIsProvenAlways`, `OneCardPerOwnerAlways` and
the action property `ObservesItsOwnerAlways`.  `OthersKeep` reduces the actions to
those that touch what the rules look at.  `Blank` says that an identity not on the
board has neither an owner nor a verdict, so `Add` brings none.  `Held` names the cards
whose owner counts; each action either makes no new one (`HeldShrinks`) or is an
assignment that looked at all of them.  `CopyIsFresh` is what the monitor relies on
without the lock: while the revisions agree, the owner in its copy is the card's.

**`TaskLaunchProofs`.**  For any number of launches, cards, contracts, profile files
and sessions: `TypeCorrect`, `NoSharedSessionAlways`, `ClaimsAreEarnedAlways`,
`ReceiptsBelongTogetherAlways` and `RowsAreTheirOwnAlways`.  The invariant says of
each launch what its local state must have been through: `Placed` (it has a card),
`Entitled` (the recall it goes for was allowed by the control it read, the profile and
the contract) and `Earned` (claims it compiled fit all of these and come from the first
sufficient level); of the capture, `Captured`: who captures holds the lock and has every
recorded session in its listing, so what it discovers is nobody's.  `RepliesAreFaithful`
and `FirstIsReference` compare the recovery's walk over the four levels with
`Reference`; they need least and greatest elements of sets of naturals
(`LeastExists`, `GreatestExists`), which follow from the library's well-founded order
of the naturals without its induction rule.

`RowsAreTheirOwnAlways` needs two more parts.  `Private`: two launches of one card that
are under way together have overlapped.  `Isolated`: before its receipt a launch has no
attempt, and one that never overlapped finds its own TaskSpec when it reads back and its
own attempt, or none, as the card's current one.  `AppendedReceipt` says what one receipt
more does to the current attempt of each card; `UntouchedStays`, that no step of another
launch, agent or operator disturbs what the row will follow from.

**`MemoryComparisonProofs`.**  For plans of any length, any gold answers, resources,
answers and callers: `TypeCorrect`, `ArmsAreComparableAlways`,
`CleanupIsCompleteAlways`, `SuccessIsEarnedAlways`.  Whatever a request is going to
write is `Good`, however stale: it was computed from a good run and only from it, and
replacing one good run by another makes a good file.  `Good` strengthens the properties
by what the operations read: `ActiveIsOpen` (the one arm not cleaned is the active one),
`CleanedIsRecorded` (unless aborted), `PairsAreFinished` (counted pairs are finished).
There is one lemma per operation; `NextArmIsFirstDue` and `RankOfArm` relate
`_next_arm` to the order of the plan, and `ThresholdIsEarned` is the arithmetic of the
score: 80 points are out of reach without the decision (40) or the evidence (25).

**`ProviderSwitchProofs`.**  For any agents, profiles, switches and supervisor's
turns, and phases ended anywhere: `TypeCorrect` and `WorksUnderLockAlways`.
`JobsAreSound` says at which steps a process works for an agent and what a rollback may
be doing; `LateIsOver`, that a rollback after a completed commit never turns back into a
forward switch.  `LocksWell` lists the four things a step may do to the lock; every
action is one of them (`RunLocksWell`, `TermLocksWell`), and a step of another switch or
of the supervisor cannot take a lock that is held.

`SwitchIsWholeAlways` is about a switch that is `Undisturbed`: it has the lock, took it
when no turn was under way and no name had two windows, and no commit was late.
`Part` follows its agents from step to step: no name has two windows; those that are
stopped and not yet brought up again have none (`Windowless`), which is why spawn always
opens a window and never takes one over; those brought up on the way forward are
`Fresh`, those on the way back have `FormerRow` and `FormerWindow`, unless the window
died.  `Whole` (every undisturbed switch is in its part) is inductive with `Inv` and
`Snapped` (a snapshot is of agents that ran; a switch that has not asked for the lock
does not have it): a switch comes to be undisturbed only by taking the free lock
(`Enters`), the other scripts then have nothing but their reads to do
(`OtherSwitchPart`), no turn of the supervisor begins, and a window that dies leaves
every clause as it is (`Steady`).

**Only model-checked.**  Liveness (`QueuedIsHandedOut`, `LostIsHandled`,
`StoppedIsSettled`, `AlarmIsDelivered`, `SwitchEnds`) is out of
the prover's reach.

## 13. Findings

Each is a behaviour of a model here, or of the lines named, that a document of the
repository does not expect; no property of a passing run forbids them, because the code
does them.

The queue:

* A command whose poll reply was lost, or whose client died or was thrown out of its
  loop by an outcome it could not post, stays `delivered` while the server is up and
  cannot be retried: only `load_tasks` calls it `uncertain` (`queue-server.py:50`; README.md:154-155).

Agents and escalation:

* A deliberately stopped Boss is started by the supervisor's next turn, which
  looks only at tmux (`boss-supervisor.sh:22`; README.md:67-68,
  docs/USER-MANUAL.md:634-635).  Run `recovery_boss` shows it.
* A reconcile or spawn under way when `mp kill` records its stop writes its older
  copy over it (`bin/mp:2280`, `2364`, `1191`, `1201`; README.md:67-69).
* When the exact resume of Boss fails, the supervisor spawns a fresh Boss in the
  same turn (`boss-supervisor.sh:22-26`; README.md:76-77).
* A stopped worker is left alone: a second executor of a request that was rolled
  back stops the worker, finds both writes refused, and ends (`bin/mp:1931`;
  docs/USER-MANUAL.md:311-313 promises the prior model's restoration).
* A supervisor turn begun before the lock file existed overlaps the escalation
  and may open a second window (`boss-supervisor.sh:14`, `bin/mp:904-905`;
  docs/USER-MANUAL.md:288-289).  If one of the two then dies, the other one's
  process is taken for the candidate's: `verify_forward_escalation` asks only
  that a window exists (`bin/mp:1634`).
* A worker blocked by a failed rollback is taken up again by reconcile, which
  looks at the attempts and not at the block's reason (`bin/mp:2305`;
  docs/USER-MANUAL.md:313-315).
* Two revives make two windows: the check for a live window and `tmux
  new-window` hold no lock (`bin/mp:2123`; docs/USER-MANUAL.md:616-618).
* An executor killed between the lock and its release leaves
  `provider-switch.lock` behind, and every later turn of the supervisor is
  skipped (`queue-client.py:85`, `boss-supervisor.sh:14-17`).
* When the board does not answer, a failed rollback leaves the card open
  (`bin/mp:1764`), and the unlocked write at the end of `mp fail` may put
  `queued` over a later state.

The provider switch (docs/USER-MANUAL.md:197-204 calls it transactional: "a failed
phase restores the previous binding and roster"):

* A supervisor's turn begun before the lock takes the agents the switch stopped for
  lost: it revives one beside the switch, the agent then runs a window the rows do
  not describe, or it stays stopped when the turn's copy of the row is written last
  (`boss-supervisor.sh:14`, `bin/mp:2364`).
* The two windows that such a turn leaves stay through the next switch: tmux finds
  neither, so `mp kill` closes neither.  If one dies while the rollback revives the
  agent, after the check for a live window (`bin/mp:2123`) and before spawn's
  (`bin/mp:903`), spawn takes the other over and its process counts as the restored
  session.
* A rollback that is ended before it writes the roster leaves the agents stopped and
  retired, and gives the lock back: nobody revives them (`provider-session:299-300`).
* A commit that completed and was reported failed is rolled back without the lock
  (`provider-session:437-441`, `Switch-MyPeopleProviderProfile.ps1:276-299`).
* A prepare that completed and was reported failed keeps the lock for ever: the
  script has nothing to roll back (`Switch-MyPeopleProviderProfile.ps1:199-200`).
* The rollback writes the whole roster from the copy it read before the stops: an
  agent outside the switch that somebody stopped meanwhile runs again
  (`provider-session:275-295`).
* The script reads the host's bindings before it has the lock: of two scripts that
  overlap, the later writes back what it read before the earlier changed it
  (`Switch-MyPeopleProviderProfile.ps1:166`).

Publication:

* A pending merge-when-green approval given to the bridge is pushed to main:
  `publish` (`project_publisher.py:439-456`) asks for `pending` in every mode, and
  the branch of this mode's record is main.  README.md:174-178 promises the CEO's
  approval, a pull request and green checks.
* A superseding Boss command writes the copy it listed over a record that has
  meanwhile become `publishing` or `published`, and a transition under way
  writes a superseded or unlinked approval back (`project_publisher.py:345-353`).
* A process killed while `publishing` leaves the record so for ever; a merge on
  GitHub that was not recorded is refused by the retry, because the pull request
  is no longer open (`Invoke-MyPeopleSshPublication.ps1:93-94`).
* A draft or direct approval the CEO approves in the HUD can no longer be
  published: `publish` wants `pending` (`project_publisher.py:439-440`).
* The broker creates the pull request as a draft and nothing in the code marks
  it ready; `gh pr merge` refuses it until a person does.
* When the card cannot be resumed, `approve_runtime` unlinks the approval also
  if it was an earlier one that `create_approval` returned
  (`project_publisher.py:705-710`).

The board:

* `assign` and `replace` with the agent a card already has get round `reopen`'s
  demand for a fresh owner (`todo-server.py:827`).
* Nightwatch's one-use token is checked and marked in two steps of a threading
  server outside the lock: two requests may both pass (`todo-server.py:690-693`).
* `board-export.py` may lose an alert when it is killed between marker and
  commit, and recovery of a baseline reads a field `deletedTasks` that nothing
  writes.

Routing and launches:

* A second step up may pass the ceiling the task itself was given: `next_route`
  has the project's ceiling only (`task_routing.py:716-722`; README.md:95-96,
  docs/USER-MANUAL.md:237).
* A provider that opens its session file late, after its own capture failed, is
  captured by the next launch of the same profile, which records a session that
  is another agent's (`agent_session.py:107`; README.md:66).
* Two launches of one card: the later one's TaskSpec replaces the file the earlier
  one reads back, so a launch `--without-memory` may run with claims, the row may
  take an older attempt's identity, and the first agent's revive is refused for a
  receipt that does not match (`mp:681`; README.md:332).
* `set_control` reads, increases and replaces without a lock: two changes may
  carry one revision, or the later write goes back to an earlier mode
  (`memory_canary.py:143`).
* A recall may start after the control was switched off: the gateway is started some
  statements after its second look (`project_context.py:325-341`), and with an https
  profile address there is none.
* A hand-over of an older agent, or an assessment, that comes between a launch's start
  receipt and its reading of the latest one leaves the row without the attempt, and the
  agent's own hand-over then closes nothing (`mp:681`).
* A recovery that ran over its budget names a level although it has no claims;
  the compiler then calls it `memory_invalid_response` (docs/USER-MANUAL.md:942).
* `mp:1168` overwrites the usage before with the usage after, so a provider's usage
  is always "not measured".
* `latest_receipt` (for an assessment) and the board's projection may name
  different attempts.

The comparison:

* Arms can start before all cases are qualified: `initialize` writes the run
  before it writes the qualification (experiments/memory-gate-b/README.md:114-116).
* A completed comparison becomes aborted by a late cleanup, and an abort that was
  computed from an older state puts that state back.

## 14. Not modelled, and why

* Of the provider switch: a switch to or from Claude (`switch-backend`), whose
  sessions are found differently, the text of handoffs, models and credentials.
* Board export and restore: a sequential loop that reads the board and changes
  nothing another part acts on; git decides every step.
* Runtime supervisor, project workspaces: sequential loops over children, git and
  tmux.  What the others rely on, that a dead queue server is started again, is a
  fairness assumption of `ControlQueue`.
* Docker deployment and the straight-line Windows scripts: one operator, and steps
  that docker and the file system decide.
* Observability, HUD, installation check: read-only projections, presentation
  and tests of a running installation.  The HUD's 90-second limit on `mp` is in
  `AgentRecovery`.
* The benchmark behind the memory gate: an offline ranking and scoring of data
  sets; the scoring of live results is in `MemoryComparison`.
* Within the modelled parts: the queue's display caches, the Nightwatch
  bootstrap, Claude's deferred session recording, `fresh_handoff`, the card a
  failed rollback blocks, several tasks in publication, pins and their order on
  the board, one-use tokens, memory adapters, provider usage, a full disk outside
  the queue's journal.
* Data: wording, JSON layout, hashes, receipts' contents, key sequences sent to a
  composer, characters (a number of claims that still fit stands for them).  A
  check on data is a free Boolean (`ok`, `proof`, `digest`) where the outcome
  matters and nothing else depends on it.
* Time: deadlines may be over or not when looked at.

## 15. Running the checks

    tlc -workers 2 -config MCControlQueue.cfg MCControlQueue
    tlapm ControlQueueProofs.tla

Each run of `PROJECT.json` names its module and configuration.  The run with
`expect: violation` (`recovery_boss`) ends with the counterexample described in section
4.  The `mutants` list, for every
property, a change of one definition (a dropped guard, a swapped order, a missing
reset) under which the same run fails: the evidence that the property speaks of
the code.
