# pi-env in TLA+

pi-env extends the Pi coding agent with TypeScript extensions (`extensions/`), a
library for running analyses (`src/analyze`, `src/process`) and scripts
(`scripts/`). Much of it is tools that make one call and render the answer. What
is hard lives in the places that own resources for a long time and share them:
a supervisor of delegated agent runs, a catalog of sessions in a file, the
bindings of sessions to tmux windows and the coordinator that restores them, a
daemon behind a Unix socket with the language servers it owns, analyses in
supervised processes, notes that several programs write, a lock between
worktrees. This directory models those, checks them with TLC and proves some of
the results with TLAPS. Paths below are relative to the repository's root.

## 1. Inventory

`PROJECT.json` lists every component with its files. The ones with state that
steps of several actors meet on:

| Component | State | Operations | Meets | Modules |
|---|---|---|---|---|
| Admission control, `extensions/subagent/control.ts` | queue, leases, writers per workspace, retained and evicting children, eviction failures, `closed` | `acquire`, `release`, abort, deadline, `retainChild`, `pruneChildren`, `shutdown` | children (callbacks into `pruneChildren`, `close()`), jobs, registry of the process | SubagentControl, SubagentLeases |
| Native children, `native-child.ts`, `execute.ts` | state of a child, its operation, pending inputs, native session | first run, `prompt`, `steer`/`followUp`, `cancel`, `close`, teardown | a lease around each operation; hooks and turns of the native session | SubagentChildren |
| Session runtime and jobs, `session-runtime.ts`, `jobs.ts` | generation, transition queue, manager, supervisor, telemetry; job statuses | `startSession`, `shutdownSession`, start, cancel and settle jobs | registry of supervisors, the host's session events | SubagentSession |
| Session catalog, `extensions/session-manager/storage.ts` | the manifest file, temporary files, a lock directory | `update` (lock, read, clean, write, rename, flush, reread, release) | other Pi processes through the file system | SessionCatalog, AtomicCatalog |
| Window bindings, `host.ts`, `binding-lock.ts` | two options on each tmux window, a kernel lock | `bindCurrent`, `releaseCurrent`, `restoreWindow` | other Pi processes through the tmux server | WindowBinding |
| Session lifecycle, `lifecycle.ts`, `index.ts` | the managed session, a generation, a queue of calls | start, adopt, close, rename, refresh; session events | catalog first, then binding | SessionLifecycle |
| Coordinator's start, `start.ts`, `launch.ts` | start lock, claim, socket, metadata, window tag | probe, refuse, clean up, claim, listen, publish, close | other starters, the coordinator that closes | WorkspaceStart |
| Runtime bus, `runtime-bus.ts` | connections, requests in flight, idempotency cache | parse, refuse, invoke, answer, retry | Pi processes as clients | RuntimeBus |
| Restore, `coordinator.ts` | rounds, readiness, waiters | `reconcile`, `publishReady`, `awaitReady` | catalog, bindings, the children it launches | WorkspaceRestore |
| Dev-tools daemon, `extensions/dev-tools/daemon.ts` | socket path, pid file, connections, tasks, finalizer | start, accept, refuse, idle, signal, drain, release | other daemons on the path, clients, language servers | DevToolsDaemon |
| Dev-tools client, `client.ts` | one shared attempt and socket, pending requests | connect, spawn, retry, discard, close | the daemon | DevToolsClient |
| LSP backend, `backend.ts`, `document-manager.ts`, `diagnostics-cache.ts` | generation, pending requests, open documents, diagnostics | start, stop, exit, requests, opening, evicting | the language server's process | LspBackend |
| Requests, `handlers.ts`, `file-cache.ts` | shared file cache, loads under way, workers of a bulk request | hover, locations, references, calls, rename, diagnostics | each other | DevToolsRequests |
| Workspace edits, `workspace-edit.ts` | staged and backup files | stage, compare, move aside, replace, roll back; apply edits to a text | whoever else writes the files | WorkspaceEdit, TextEdits |
| Closeout and cleanup, `closeout.ts`, `cleanup-core.ts` | a lock, a plan, git's worktrees and branches | verify, fetch, merge, remove, delete | users and other git processes | Closeout, Cleanup |
| Processes, `src/process/platform.ts` | a process group, its pipes, what is kept of them | spawn, collect, time out, interrupt, terminate | the command and its descendants | ChildProcess |
| Analysis run, `src/analyze/supervisor.ts`, `protocol.ts` | phase of the protocol, queue of lines, reason of a stop, record | spawn, accept lines, stop, settle | the worker's process | AnalyzeRun, AnalyzeProtocol |
| Analysis engine, `engine.ts`, `scope.ts`, `program.ts` | stages, findings, failures, budget; files and bytes | resolve, load, check, bundle, benchmark, finalize | the worktree, which goes on changing | AnalyzeEngine, AnalyzeScope |
| Journal, `journal.ts` | the current and the rotated files | open, append, rotate, prune | other supervisors on one directory | AnalysisJournal |
| Notes, `extensions/notes` | the notes' files, a queue per path, a cursor | read, create, replace, edit, record, delete, list by pages | other agents, editors, sync programs | NotesStore, NotesItems, NotesCollections |
| Heavyweight lock, `scripts/heavyweight-lock.mjs`, `run-supervised-node.mjs` | lock directory with an owner file, recovery guard | acquire, recover, release, inherit | other worktrees' processes | HeavyweightLock |

How they interact: a parent session (session runtime) owns a supervisor, which
owns leases and children; a child asks the supervisor for a lease for each of its
operations, and the supervisor calls back `close()` on eviction and shutdown. A
Pi process commits its session to the catalog and then binds its window; `pi
--start` elects a coordinator, which reads the catalog and restores the windows
that are missing, in which new Pi processes commit and bind in turn and publish
readiness over the runtime bus. Dev-tools clients reach the daemon over a socket,
and spawn one when nothing answers; the daemon owns the language servers, and its
requests share them and a cache of files. An analysis tool classifies a request
and hands it to a worker process whose lines it validates.

What makes them correct:

- *Admission*: leases stay within the limit and one writer has a workspace; the
  queue never leaves a startable run waiting and is overtaken only for cause;
  shutdown reaches everything and reports every failure; every wait ends.
- *Children*: a lease is out for as long as native work runs under it; nothing
  touches a session that was torn down; closing ends.
- *Session runtime*: what a session owns is disposed of in order; only the latest
  start or shutdown counts; an unfinished job can always be reached.
- *Catalog*: what was reported committed is there, what was reported as not
  committed is not.
- *Bindings and lifecycle*: one window per session, a live owner keeps its window;
  at rest the window is bound to the session that is managed, whose record is open
  and has the name it was given last, as far as the lifecycle can know it.
- *Coordinator*: one serves a workspace, and is found as long as no starter lost its
  lock; what is asked under one key is done once; what is reported restored was
  proven by the very child launched.
- *Daemon and client*: accepted work is drained before anything is taken from
  under it; a stopped daemon leaves nothing; answers reach their callers; waits end.
- *Language servers and requests*: the server has the documents this side takes
  for open; what is asked for after a rename, under the paths it edited, is new;
  each path of a bulk request gets its own outcome.
- *Edits, closeout, cleanup*: an edit is said to be applied or to have failed only
  when it is in every file or in none, and what was there is kept; a closeout deletes
  nobody's work, a cleanup the only copy of it only by force.
- *Analysis*: one outcome, recorded from start to end; nothing of a process group
  is left; a report without a failure has all that was asked for, of files whose
  names git writes as they are; the journal is bounded.
- *Notes*: nothing is overwritten that its writer has not read; a recorded item is
  found again; a reading by pages shows every item that stayed once.
- *Heavyweight lock*: one holder; a dead holder's lock is recovered.

`PROJECT.json` lists, under `hazards`, where each of these could go wrong and the
properties that would show it; hazards without a property, and the cases a
property leaves out, carry the reason.

## 2. The modules

JavaScript runs the code between two `await`s without interruption. In the modules
of one process an action is therefore one call or one promise reaction, with
every synchronous call it makes; in the modules of several processes it is one
system call, file operation, git or tmux command together with the synchronous code
around it, and a process may be killed between any two. `map` in `PROJECT.json`
gives the source lines of each definition.

### Subagents

**SubagentLeases** is the abstract promise of the admission control: requests are
granted or refused, leases out together are compatible, nothing is granted after
closing. It has no queue.

**SubagentControl** models `SubagentRunSupervisor`. The array `pending` is a set
with arrival numbers; the Map `active` a set; `drain()`'s loop is one step that takes
the set of entries the loop would take: each of them can start after those taken
ahead of it, and no other can (`Taken`); `pruneChildren` and `shutdown` are part of every action whose code
calls them. The children are an environment here: they become busy, idle, fail,
are torn down, and their `close()` settles either way.

**SubagentChildren** extends SubagentControl with `schedule()`, `start`, `prompt`,
`steer`, `cancel`, `close` and `teardownNative` of `native-child.ts` and the launch
in `execute.ts`. The promises of the native session resolve or reject at will,
except `waitForIdle()`, which is taken to resolve. The refinement is by extension:
the supervisor's own actions are those of SubagentControl.

**SubagentSession** models the transition queue of `session-runtime.ts`, the job
manager of `jobs.ts` and the registry of supervisors. A supervisor is reduced to
whether it is open and which jobs hold its leases; a generation number names the
manager, the telemetry and the supervisor a transition created. The supervisor's
shutdown, the factory of the telemetry and its disposal may each fail, which the
transition that asked for them passes on.

### Records in files

**SessionCatalog** models `update()`: acquiring the lock directory, reading,
cleaning old temporary files, and the commit with its four ownership checks. Every
storage call may fail. A lock may go stale at any time, whether its holder is dead
or paused, and may then be taken; the library tells the holder at its next
heartbeat. The manifest is its revision and the set of updates it contains.
**AtomicCatalog** is what it promises, without files or locks: an update takes
effect at once, after it was asked for and before its process has an answer, and
never if the answer is a failure. From the moment a holder loses its lock only the
last part of it is promised. `ImplementsAtomicCatalog` is the refinement: the
manifest is what has taken effect, an update's report is its answer.

**NotesStore** models the calls of several agents on one note of a vault: read,
create, replace, edit, record and delete, each a sequence of file operations on
the note's path, serialized by `withFileMutationQueue`, while editors and other
processes write and delete the file. Of a revision it keeps whether it is still
that of the note.

**NotesItems** models where `recordItem` puts an item in a Markdown text that its
owner writes as he likes, and how items are read out of it again: sections,
fences, details, items without text. **NotesCollections** models a reading by
pages: the inventory taken anew by every call, the cursor, the limits of documents
and bytes, while the vault changes between two calls.

### The workspace

**WindowBinding** models `bindCurrent` with `reclaimStaleBinding`,
`releaseCurrent` and `restoreWindow`, one tmux command per action, under the
binding lock. Every command may fail. A process may be killed anywhere; its lock
goes with it. Several processes may have panes in one window, and a window
belongs to a tmux session, because `inspectCurrent` lists one tmux session only.

**SessionLifecycle** models one Pi process that enrols its sessions: the events of
Pi, the calls they make, the queue in which the catalog and the window are
changed, the generation that retires what a later session overtakes, and the copy
of the managed record (`cached`) with which names are compared and from which a
refresh starts. Pi's name of a session need not be the one on record; `start` keeps
the record's, `adopt` takes Pi's. A change of the catalog or of the window is one
step; SessionCatalog and WindowBinding are what happens inside it.

**WorkspaceStart** models the election of a coordinator: the start lock, the probe
of the one that is there, the claim, the socket, the metadata and the tag of the
window, removed and published one after the other by processes that may die or be
paused between any two. The start lock goes stale by age, so it may be taken from a
holder that lives; that one goes on until its timer ends it, and whoever is disturbed
in this way is in `overtaken`. **RuntimeBus** models its socket: frames, refusals,
limits, also that of a response, requests in
flight and the cache by idempotency key. **WorkspaceRestore** models its rounds: the
sessions without a window, a child launched for each, readiness and its age,
waiters and their end by timeout.

### Dev-tools

**DevToolsDaemon** models several daemons on one path as machines of promises:
acquisition, startup, finalizer, and a task per accepted request. Clients connect,
send, hang up.

**DevToolsClient** models a process's one connection: the shared attempt, which
spawns a daemon and polls for its socket, the registry of requests, the second try
after a timeout and the discarding of the socket after two, and `close()`. Daemons
are an environment that listens, answers, is silent or goes away.

**LspBackend** models `backend.ts` with the open documents and the diagnostics
cache: generations that start, stop and die, requests and their timeouts, opening,
re-reading, evicting and restarting on a new project root. The language server is
an environment that answers, or does not.

**DevToolsRequests** models the handlers of concurrent requests: opening a file,
asking, reading the lines of the answer from the shared cache, whose loads callers
join, and the workers of a request of several paths; a rename replaces the files
meanwhile. The cache is by path, a file may be reached by several (`Real`), and a
rename takes the paths it was asked to edit out of it.

**WorkspaceEdit** models the application of a rename to several files, one call of
the file system per action, each of which may fail, with foreign writes at any
time and the death of the daemon. **TextEdits** is the pure part: `applyTextEdits`
against a reference definition that makes all edits at once.

**Closeout** and **Cleanup** model the two commands that delete worktrees and
branches, one git command per action, while people commit, edit, switch branches
and work on a detached HEAD. The lock of a closeout may be taken from it after ten
seconds without a refresh, and it goes on. A git command that fails or times out
while a cleanup is planned is taken for one that printed nothing, as the code does.

### Processes

**HeavyweightLock** models `acquireHeavyweightLock`, the recovery of a stale lease
and the release, one file system call per action, for processes that may be
killed anywhere, and children that run under an inherited token.

**ChildProcess** models a supervised command with one descendant in its group, the
pipes they keep open, what is collected of them, and the ways to end it early.

**AnalyzeRun** models one analysis in a worker: the worker's lines, the queue in
which the supervisor handles them with an `await` each, the phases of the protocol,
deadline, cancel and limits, and the record of the run. **AnalyzeProtocol** is the
pure part: the policy's classification of a request and the bounding of a result,
each against the check the other side makes; the supervisor checks texts and
locations that the worker takes over as they are. **AnalyzeEngine** models the stages
of the worker, with the memory budget, the limits of findings and failures, and
benchmarks; **AnalyzeScope** the resolution of a request to files and their
loading, while they change, with the ways git may write a changed file's name. **AnalysisJournal** models appends with rotation by
several processes in one directory.

### Suites and proofs

The modules `SubagentControl_proof`, `SubagentChildren_proof`,
`SubagentSession_proof` and `WindowBinding_proof` hold the theorems of one module
each, `Records_proof`, `Workspace_proof`, `DevTools_proof` and `Processes_proof`
those of the parts of a suite. The `MC_`
modules hold functions a configuration cannot spell and symmetry sets. Four of
them are suites: `MC_DevTools`, `MC_Processes`, `MC_Workspace` and `MC_Records`
instantiate the parts of one area, which share no variable. `focus` names one
part, chosen in the initial state: it moves, the others rest in one initial state.
The states of a suite are thus the sum of its parts' states, not their product, and
a property of a part is checked over all behaviours of that part. Fairness is that
of every part; nothing that is fair is enabled in the state a part rests in, so
that the resting parts ask nothing of a behaviour.

## 3. What the runs check

| Run | Parts | Shows |
|---|---|---|
| `subagent_admission` | 4 runs, 2 workspaces and read-only requests, 2 leases, queue of 1 | `LeaseExclusion`, `NoStartableWaiter`, `ShutdownReachesEveryRun`, `NoUnjustOvertaking`, `ImplementsLeases` |
| `subagent_shutdown` | 2 runs, 1 lease, 2 children, retention of 1 | `TypeOK`, `IdleWithinRetention`, `ShutdownOwnsEverything`; `WaitsEnd`: every admission and every shutdown ends |
| `subagent_children` | 2 children, 1 lease, first runs, a prompt and an input | `LeaseSpansOperation`, `NothingAfterTeardown` |
| `subagent_closing` | 1 child, its first run, 2 prompts, 2 inputs | `ClosingSettles`: a close and a shutdown settle, with the children's real code |
| `subagent_session` | 4 starts or shutdowns of one session id, 2 jobs, 1 lease | `UnfinishedJobsReachable`, `TransitionsKeepOrder`, `TransitionsEnd` |
| `subagent_reload` | 3 transitions, 1 job | finding: `ActiveSessionAdmits` is violated |
| `records` | SessionCatalog, NotesStore, NotesItems, NotesCollections | `ImplementsAtomicCatalog`, `NothingLostUnread`, `RecordedIsRead` |
| `workspace` | WindowBinding, SessionLifecycle, WorkspaceStart, RuntimeBus, WorkspaceRestore | `OneWindowPerSession`, `BoundKeepsWindow`, `BindingFollowsSession`, `OneCoordinator`, `AskedOnceDoneOnce`, `RestoredIsProven`, `StartsAndRoundsEnd` |
| `window_binding_server` | WindowBinding with two tmux sessions | finding: `ExclusiveOwnership` is violated |
| `devtools` | DevToolsDaemon, LspBackend, DevToolsClient, DevToolsRequests, WorkspaceEdit, TextEdits, Closeout, Cleanup | `DrainsAcceptedWork`, `LeavesNothing`, `ServerKnowsDocuments`, `AnswersReachTheirCallers`, `RequestsDoNotMix`, `EditsAreWhole`, `EditsAreSimultaneous`, `NoWorkDeleted`, `WaitsEnd` |
| `processes` | HeavyweightLock, ChildProcess, AnalyzeRun, AnalyzeProtocol, AnalyzeEngine, AnalyzeScope, AnalysisJournal | `ExclusionUntilExit`, `NothingLeftBehind`, `RunIsWhole`, `ReportIsComplete`, `JournalIsBounded`, `RunsEnd` |
| `heavyweight_recovery` | HeavyweightLock, 4 processes | finding: `MutualExclusion` is violated |

Each property is stated in a comment above its definition, and for each one there
is a mutated form of a definition, standing for a plausible bug, with which the
same run finds it violated.

### Why the bounds are enough

The first lines of each configuration give the instance of each part.

- *Admission*: overtaking needs a holder, an earlier waiter for the same workspace
  and a later run for another; a fourth run fills the queue, so refusals for
  capacity, the full queue and the released slot meet. Retention needs two
  children with a limit of one for an order of eviction to exist.
- *Children*: two children are needed for one to queue behind the other's lease
  and to be evicted by it; a prompt after the first run and an input during it
  reach every branch of `schedule()`. Liveness is checked with one child and more
  operations, since children only meet in the supervisor's queue, whose liveness
  `subagent_shutdown` covers.
- *Session*: four transitions are a start, a shutdown that overtakes a start,
  and a restart with one more that overtakes it.
- *Heavyweight lock*: two contenders and a dead owner; the fourth process is a child in one
  run, and the new holder of the scenario in the other.
- *Bindings*: two panes of one window and one other window give reclaiming within
  a window and duplicates across windows; the third window is for a restore; two
  sessions are the one wanted and the one in its place.
- *Lifecycle*: a session and the one that replaces it while its enrolment is on
  its way; four calls are a start, a replacement, a close and one more that
  overtakes them; one of the sessions may have its file from before. Two names are
  the one on record and another: a rename to the other and back is how a name is missed.
- *Coordinator*: a coordinator that closes or died and two starters that race for
  its place or overtake each other; two share a window, the third has its own. On the bus one of everything is the limit, so
  that the second of anything is refused, evicted or a conflict; the third frame
  asks again for what was evicted. Two rounds of two sessions: a child launched
  by one round publishes in the other.
- *Catalog*: a paused writer, the one that took its lock, and one that reads what
  the first wrote after being told it failed. One update each: a second update of
  a process behaves like another process's.
- *Notes*: two agents and whoever else writes; three hand-written lines hold a
  heading, a fence or bullet and what follows it; three notes span two pages of
  the provider and two of the result, and one change is what a page can miss.
- *Daemon and client*: two daemons race; a request and a shutdown on one connection are the
  case in which draining and ending a connection conflict. Two callers share one
  attempt and one socket; one fault loses an answer, a daemon or the socket.
- *Language server*: the second document evicts the first and asks for another
  project; four generations are a start, its end, a restart and its end.
- *Requests, edits*: two requests share a load; of three paths one is a symbolic
  link to another's file, and of a bulk request's three the last waits for a worker.
  Two files are one moved and one not; two edits of two characters touch, overlap
  and nest in every way.
- *Closeout, cleanup*: two closeouts of one pull request, which may overtake each
  other, and whoever works in the repository; a branch that may go and one that may
  not.
- *Analysis*: a finding is sound, lacks a text or has a location the supervisor
  refuses, and a changed file is plain, untracked, or has a name git quotes or
  follows with a tab. The limits are small enough that each is met exactly and exceeded:
  4 lines with a diagnostic, two findings, two bytes kept of three written, a
  file of the journal that a line fills, a whole that a file and a line fill, and
  two processes that rename and remove under each other.

Deadlock is not checked in these runs because in all of them the system may come
to rest (everything closed, everybody dead, all bounded work done); that waits end
is checked by the liveness properties instead.

### Fairness

Nothing a user, a signal or a crash does is fair: nobody has to call, abort, cancel,
shut down, connect or die. Fair are:

- promise reactions and the next call of a running process, since the event loop
  and the operating system run them (`TransitionStep`, `Startup`, `Finalizer`,
  `Acquire` of the heavyweight lock, `Connecting` and `Register` of the client,
  `Lookup` of the language server's backend, `Lines` and `Supervisor` of a run, the next
  step of a starter and of a round);
- timers the code sets: the daemon's idle timer, the timeouts of a call to the
  language server or to the daemon, of a wait for readiness, and the kill that
  follows an unheeded termination. An answer is never fair: the language server,
  the daemon and the child may stay silent for ever, and waits end all the same;
- what the platform reports: the exit of a killed process, the close of a
  destroyed socket or of pipes that nobody holds;
- the end of native work that was told to stop and the settling of its teardown
  (`Release`, `ChildTornDown`, `ChildCloseSettles`; in SubagentSession only after the
  abort). `docs/subagents.md` says that there is no grace period and no forced
  release, so the ends of a shutdown are checked under the assumption that tools
  and hooks settle, and would not hold without it;
- in the daemon, the end of an accepted request, which the backends bound by their
  own timeouts. The comment of `shutdown()` says there is no
  hard deadline: without this assumption the finalizer may wait for ever.

A command that is never given up may run for ever, and so may a descendant that
keeps its pipes open: `RunsEnd` speaks of runs with a deadline and of commands
that were terminated.

### Findings

1. `subagent_reload`: a supervisor whose shutdown rejected stays in the registry
   (`control.ts:359`); a session started again under the same id becomes active on
   top of it and refuses all delegated work.
2. `heavyweight_recovery`: between reading the owner and probing its pid
   (`heavyweight-lock.mjs:115-116`) the lock can change hands, and the recoverer
   then moves a live lease away. `ExclusionUntilExit` says exactly when this cannot
   happen: while nobody who released has exited.
3. `window_binding_server`: the check for a duplicate binding sees one tmux session,
   the lock and the documentation speak of the server.

A fourth disagreement has no run of its own: a catalog writer that is paused
between its last ownership check and the rename (`storage.ts:304-305`) overwrites
what the process that took its lock has committed. The atomic catalog therefore
promises less once a holder lost its lock, and `AcknowledgedSurvives` speaks of
executions in which none did.

## 4. What is proved

`tlapm` checks the following for every value of the constants that satisfies the
named assumptions, which TLC evaluates on every run:

- limits that the code requires to be positive are (`LimitsAssumption`,
  `BoundsAssumption`, `BusAssumption`, `ProtocolAssumption`), other limits, sizes
  and the bounds of the models are numbers (`ProcessAssumption`, `EngineAssumption`,
  `ScopeAssumption`, `MaxGenAssumption`, `PollsAssumption`), and a file of the
  journal takes any line and all files together take one (`JournalAssumption`);
- the placeholder values are nobody (`ProcsAssumption`, `CatalogAssumption`,
  `BindingAssumption`, `DaemonAssumption`, `StartAssumption`, `CloseoutAssumption`,
  `ReadOnlyAssumption`, `OwnerAssumption`);
- callers and concurrent requests are finitely many (`CallsAssumption`,
  `RequestsAssumption`), the targets of an edit are some and distinct files, as
  the code checks (`TargetsAssumption`), a directory of a scope is no file
  (`ScopeAssumption`), and a command has the two streams of `platform.ts`
  (`ProcessAssumption`).

Every theorem has the same shape: an invariant that the initial states have and
every step keeps, one lemma per action or group of actions, and the property as
its consequence. In the suites a lemma says that a step of the composition is a step
of the part or leaves the part alone, so that what the part keeps holds throughout.
What follows says for each invariant what had to be added to the property.

**SubagentControl_proof.** `TypeCorrect`, `LeasesAreExclusive`,
`QueueIsWorkConserving`, `ShutdownIsComplete`, `QueueIsFair`, `LeasesAreImplemented`.
The inductive invariant `IInv` is the type invariant with `QueueOrdered` (arrival
numbers in the queue are distinct and already counted), `AdmissionsAccounted` (a
promise is unsettled exactly while it is queued and leased exactly while active),
and the three safety invariants, which need each other: that nobody startable
waits is preserved by a release only because the writers are exactly the leased
workspaces. `drain()` is the only step that hands out leases; `DrainSound` states
what it leaves behind, and one lemma per action uses it. Fairness of the queue is
an action property from the same invariant. The refinement shows that initial
states and every step map to those of `SubagentLeases` or stutter.

`RetentionIsBounded` and `ShutdownIsThorough` have an invariant of their own,
`OwnedInv`, which speaks of children. `ChildOwned` accounts for each of them:
whoever is open is retained, whoever closes is evicting, and of those whose
closing failed there is a record, so that a shutdown that awaits the retained
and the evicting ones and reads the record misses nobody. `ShutdownOrder` says
what each stage of the shutdown found. The bound of retention needs that whatever
ends a child's work calls `pruneChildren` in the same step.

**SubagentChildren_proof.** `LeasesSpanOperations`, `TeardownEndsTheChild`.
`RunsOwned` is the heart: a run that was neither refused nor released is the one
its child is busy with, so that nobody else's operation can give its lease back;
`OperationsLeased` says in which stages of an operation the lease is out.
`TeardownIsFinal`: a child whose teardown began is closing or closed, which nothing
undoes, and every start and prompt asks for an open child after its lease.

**SubagentSession_proof.** `JobsStayReachable`, `LatestTransitionWins`. Jobs: what
leaves the map of a manager is finished (`Reachable`), of the finished ones the
newest stay (`Retained`, from `JobsDone`). Transitions: the queue holds the latest
requests in order (`QueueInOrder`), so that the running one is overtaken exactly
when it is not the last, and when none is left the latest one has taken effect,
unless it failed itself; manager and supervisor come and go together (`Resources`);
work that waits or holds a lease belongs to them (`WorkOwned`), which is why the
telemetry, disposed of after the supervisor settled, outlives it.

**WindowBinding_proof.** `InductiveInvariant`, `SessionsHaveOneWindow`,
`OwnersKeepTheirWindow`, for any processes, windows, panes and tmux sessions
(`BindingAssumption`). `LockHeld` says that a process inside an operation holds the
lock; therefore what it read is still there (`SeenIsTrue`), nobody else records an
owner before it verifies (`OwnerRecorded`) or tags a window before the one it
restores (`TargetAbsent`). `NoTenant` is the heart of `BoundKeepsWindow`: a process
that is about to change its window shares it with no bound process, because such
a one would be its recorded owner, alive, and `assertLiveOwner` would have refused.
There is one lemma per conjunct of the invariant, with one step per operation.

**Records_proof.** `InductiveInvariant`, `ReportsAreTrue` from `FailureIsFinal` and
`AcknowledgedStays`, for any processes and any number of updates. The invariant has
two halves. What holds always: an update in the manifest has neither failed nor
can still fail (`ManifestKept`), and a draft holds no other such update but that of
its own process (`DraftsKept`), although others read and rewrite what a process
wrote; the step that matters is the rename, after which no exit of `commit()`
reports a plain failure. What holds until a holder loses its lock: one process
holds it (`OneHolder`), its draft is the manifest with its own update
(`DraftIsCurrent`), and so each revision counts one update (`Counted`). The history
variable `overlapped` is the premise of the second half, and the fourth
disagreement of section 3 is why it is needed.

`UpdatesAreAtomic`: the initial states and every step map to those of
`AtomicCatalog` or stutter. The rename is the one step at which an update takes
effect: on top of the one before while one process holds the lock (`Apply`), and
otherwise in place of whatever is there (`Overwrite`); what the lock library, the
cleaning, the temporary file and the rereading do is invisible. The report at the
release is the answer. For that three more facts are kept (`Told`): who is idle has
an answer to each update it made (`Answered`), an operation that is over has a result
and a draft its update (`Drafted`), and what is reported as indeterminate is in the
manifest as long as no lock was lost (`MaybeApplied`).

`NothingIsLost`, of the notes (`NoteInv`): a revision that is still current, in the
hands of an agent or of a call, was given out with the content, or with content
that came from outside after a check (`CurrentIsSeen`); so is what a call that is past
its last check is about to replace (`CommitsAreSeen`). That is kept by the queue:
who is between its check and the end of its commit is at its head (`HeadOfQueue`,
`QueuedWaits`), and therefore alone when another commit makes what it checked out
of date. `LinkedIsThere` is for the two names a new note has for a moment.

**Workspace_proof.** `CoordinatorIsAlone` (`StartInv`) has two halves. What holds
always, also between starters that overtook each other (`WindowInv`): a coordinator
past its binding has its window (`OwnWindow`), and as one that finds another window
bound fails, it is the only one (`BoundAlone`). What holds until a live holder lost
the start lock (`LockInv`): whoever holds it is alone between the probe and its claim
(`Guarded`); one that saw no live claim under the lock goes on as if there is none
(`ClaimChecked`), so one starter at most is chosen, and by then whoever closes is done
with the files (`SoleChosen`), which is what keeps socket and metadata those of the
one that serves (`Published`). Until the first coordinator is recorded nobody is
beyond recording it (`NotYetKnown`, `FirstRecord`). The history variable `overtaken` is
the premise of the second half: section 5 says what it leaves out.
`KeyedRequestsRunOnce` (`BusInv`): an entry of the cache names a run of its key
and content (`CacheTold`), each answer is that of its run (`FramesAnswered`), and of
two runs of one key the first was forgotten (`OnceRemembered`); the frames that run
are counted by their connection (`FlightsCounted`). `RestoredWasReady` (`RoundsInv`): a
child was launched by one round for the session it is of (`MadeOnce`), whoever
waits waits for that child (`WaitersOfRounds`), readiness was published by it
(`ReadyPublished`).

`WindowFollowsSession` (`LifeInv`) speaks of a moment when nothing is under way; the
invariant has to say what everything that is queued will do until then. At most
one enrolment is under way, it is of the session that runs, and a shutdown waits
for it (`OneStart`, `OneShutdown`); what an earlier session left in the queue comes
before it (`QueueCurrent`), and adoptions come after it (`StartsFirst`,
`AdoptsAfterStart`). So what is not overtaken when its turn comes is of the session
that runs (`AdoptsCurrent`, `ManagedCurrent`, `ClosesCurrent`), and the window is bound to
what is managed, except in the moments `Odd` names, where it is bound to what is
about to be or already released (`TagFollows`). A record is open from enrolment until a close
that is not overtaken has written it (`RecordOpen`), and a closed one stays closed
(`ClosedStays`). Renames are applied in the order in which names were given (`RenamesQueued`,
`RenamesAwait`) and to the session that runs (`RenamesCurrent`); the name given last is
Pi's, and once its rename has been applied, or dropped without being missed, the
record has it and no rename that waits has another (`NameFollows`). A name is missed
when the copy of the record says that it is known and the record, or a rename that
waits, says otherwise; the copy may be old, so the theorem has to leave those out.
There is one lemma per step a call can take.

**DevTools_proof.** `InductiveInvariant`, `AcceptedWorkIsDrained`, `NothingIsLeft`
(`DaemonInv`): a finalizer passes its stages in order and none of them before the
acquisition has settled; the invariant says what each stage has taken away for
good: the paths (`PathsRecorded`), the language servers (`BackendsByStage`), the
connections (`ConnsByStage`) and the running requests (`TasksByStage`).
`AdmissionClosed` makes the drain final: after shutdown began nothing is accepted.
`ServerHasTheDocuments` (`LspInv`): whatever a call carries across an `await`, the
book it goes on with is the one the live server was told of (`InStep`), because a
generation that died or was stopped takes its book with it.
`AnswersAreDelivered` (`ClientInv`): ids are given out once and a registered one is its
caller's (`OwnIds`), across discarded sockets and late answers.
`RequestsStayApart` (`ReqInv`): once a rename has replaced every file they are new
(`AllNew`), and as it takes the loads under way out of the cache, what the cache has of
the edited paths from then on was asked for later and read new, or not yet
(`EntriesAfterRename`); a request's answer is made of the loads it joined, each of the
path it wants (`ReadsLoad`). Loads it had joined before are left out by their
number. A worker of a bulk request writes the outcome of its own path
(`PathsFollowed`). `EditsAreAtomic` (`EditInv`): where each file's text is, in place, in
its backup or replaced, follows from how far the edit is (`Progress`, `FilesKept`), and
what is staged was made from the text that was read (`StagedFromSource`); all or none
is claimed of edits that are said to be applied or to have failed, not of those that
a crash or a failing rollback left. `WorkIsKept`: whatever a failing command makes of
a cleanup's plan, it takes no protected branch for removable (`Classified`), git's own
refusals keep what changed since, and a worktree with commits on a detached HEAD is
not on the list (`StrayUnlisted`). A closeout removes a worktree only clean
(`EditsInTree`) and deletes a branch only where it saw it, which needs no lock; it is
past its check of the pull request and has brought the base up to date before
either, and until a lock is overtaken it holds it (`UnderLock`).

**Processes_proof.** `InductiveInvariant` and `ExclusiveUntilExit` of the heavyweight
lock. The invariant holds only until a holder has released and exited, which is the shape of the
finding: `StealsAbandoned` says that a recoverer past its probe has in front of it
a directory that is nobody's, and it is this conjunct that a release followed by
an acquisition breaks. `OneCritical`, `LockOfCritical`, `OwnerPublished` and
`GuardHeld` tie the directory, its owner file and the guard to the program
counters; `HoldersOutliveChildren` and `InheritedCovered` speak of inherited tokens.

`NothingStaysBehind` (`ProcessInv`): until something failed every byte written is
kept or still in its pipe (`NothingDropped`), which is why a success has all of
it; a termination is told when the group is gone (`Told`).
`RunsAreWhole` (`RunInv`): what was accepted, with the line that is being handled,
is a prefix of the protocol's order and ends where its phase says (`InOrder`); the
record follows the supervisor (`RecordFollows`); once the worker is closed its
pipe stays empty (`WorkerFollowed`). `ReportsAreComplete` joins three parts. Engine
(`EngineInv`): as long as nothing failed, each check selected has run, is
running or is yet to run, and a check on syntax has its sources loaded. Scope
(`ScopeInv`): what was asked for, is eligible and was not overlooked is in the scope
or yet to be expanded, and what of it is of the category is loaded or yet to be, while
files change; a file is overlooked when git writes its name in another way than it is
called. Protocol: `BothSidesAgree` needs no invariant beyond which value was made from
which; the work is in the operators: `BoundedFits` says that some cut fits (the
last one leaves only the line that says how much was dropped), that the smallest
number of drops is taken, and how much room that line has; `BoundedIsTaken` that
the supervisor's checks hold of it, the counts included, exactly unless a record that was
kept has what the worker does not look at (`Overlooked`).

`JournalStaysBounded` (`JournalInv`). The size of a file says nothing of who wrote
it, so `Shared` gives each process its bytes: those it counts itself, each once;
therefore a file is filled once per process at most, and the current one is empty
for whoever has written nothing to it (`Apart`). Alone, a process lists what there is
(`Alone`). Of two, one may act on a listing that lacks a file the other renamed
since (`Missing`). `Lagging` says what the other did meanwhile: it no longer writes to
the file that has the name now, and if the listing lacks bytes and its files are
still there, the whole was made to fit after the rename. So the one that counts too
little exceeds the limit by its own line, and the other one does not at the same
time. With three processes or more this argument fails where the journal does: see
section 5.

**Only model-checked.** All liveness (out of the prover's reach, as is `ENABLED`), and:

- `RecordedIsRead` (NotesItems, NotesCollections) and `EditsAreSimultaneous`
  (TextEdits), which compare what recursions, sorts and folds compute with a
  reference definition: induction over data is out of the prover's reach. They are
  evaluated for every input within the bounds;
- that each mutated definition is caught, and the three findings, which are
  counterexamples.

## 5. Abstractions worth knowing

What a property leaves out is written beside it; these are the cases a reader
might expect it to include.

- Supervisor: a request's signal, its deadline and the supervisor's own abort are
  sets of runs; usage accounting is left out.
- Children: transcripts, models, turn limits and the browser are left out. The
  close of a child that is closed already waits for a cancellation that is on its
  way here, while the code asks for the teardown only (`native-child.ts:401`): it
  settles no earlier in the model than in the code.
- Bindings: pids are not reused; windows are not closed by the user and panes do
  not move; a command of a killed process does not take effect later; labels are
  left out; a tag without an owner is kept, as the code does.
- Catalog: an update is applied or not, what it changes in the manifest is left
  out; the lock library's own race between two takers of a stale directory is
  taken to have one winner.
- Notes: `NothingLostUnread` excludes what the code cannot see: a foreign write
  between the last comparison of revisions and the rename, or between the rename
  and the reading back. A process that dies between linking a new note and
  unlinking its temporary file, or whose unlink fails, leaves a note with two
  links, which later calls refuse until someone removes the other name.
- Items: `RecordedIsRead` is about texts in which the recorder can find its place.
  An item whose text begins like a ticked checkbox is recorded and never listed; a
  code fence the owner left open hides what follows it; line ends of both kinds in
  one note make a second section, which is not read.
- Collections: a page of the dated Inbox repeats an item when another was recorded
  in front of its offset; the cursor of a deleted note is refused, and the reading has to start again; an item
  larger than a page stops a reading of the worklog at its note.
- Lifecycle: `BindingFollowsSession` does not speak of an adoption that is still on
  its way when the session shuts down or is renamed. Nor does it of a name that was
  missed: a rename is compared with the copy of the record that the last operation
  returned (`index.ts:476`, `lifecycle.ts:320`). Renamed from A to B and back to A
  before B's turn has come, the record ends as B; and as `start` keeps the record's
  name (`lifecycle.ts:208-214`) while `adopt` takes Pi's, Pi and the record may begin
  with different ones. Renamings to nothing are never applied.
- Start: the lock is proper-lockfile's, stale after 30 s without a refresh
  (`start.ts:162-167`), also under a holder that is only paused. A starter paused
  between its check that no coordinator runs and its unlinking (`start.ts:189-200`)
  removes the socket and the metadata of the one that was elected meanwhile;
  `OneCoordinator` therefore says only of executions without an overtaken starter that
  the coordinator is found, and of all that it is alone and has its window. A claim that a dead process created and never wrote refuses every later
  starter until it is removed by hand; the windows searched for a coordinator are
  those of one tmux session.
- Bus: a response above 64 KiB is answered as an error, though its work is done, and
  again so for every retry under its key. A run whose entry the cache dropped may be run again; `AskedOnceDoneOnce`
  says so by `forgotten`.
- Restore: a session started by the user never publishes, so that a round which
  finds it in its window waits in vain and reports a timeout.
- Daemon: unlinking an owned path succeeds; a listener that closes removes the
  path it was bound to, as the platform does. The file cache's entries do not
  expire by age, and every hit is taken to be young enough.
- Language server: the text of a document is its version on disk; what is asked
  and answered is left out, as are capabilities, progress and log messages.
- Requests: a request that joined a load before a rename left the cache may answer
  with old lines after the rename was answered, and one read of it may be old and the
  next new. Only the paths the server named leave the cache (`handlers.ts:507`), while
  the files they lead to are written (`workspace-edit.ts:326`): under another path, as a
  symbolic link or the real one, an edited file stays cached as it was.
- Edits: all or none is not promised after a crash, nor when a rollback fails
  (`incomplete`); what a file held when it was compared is, in place or in its backup.
- Closeout: its lock is stale after 10 s without a refresh (`closeout.ts:132`), so a
  process that is paused, or blocked in a synchronous command, may share it with
  another; the checks by git are what keeps the work then. Commits on a detached HEAD
  in the head worktree after it was looked at for the last time (`closeout.ts:538`) go
  with the worktree (`:562`), and ignored files go with it at any time. A worktree
  somebody adds for the branch between the listing and the deletion is git's to refuse.
- Cleanup: by force the only copy of work goes, as
  `cleanup.integration.test.ts:38-41` and `:208-209` want it of a branch that was never
  pushed. The same holds for what was committed to such a branch after the plan, and
  for an unmerged branch that the remote still has under a ref that `show-ref` failed
  to show within its timeout (`cleanup-core.ts:277`, `:330-332`). A status that fails
  counts as clean, and git refuses instead. Without force git deletes an unmerged
  branch that was pushed after the plan, since it asks the upstream
  (`cleanup-core.ts:247`). Commits on a HEAD detached after the listing go with the
  worktree, and so do ignored files. A fetch that fails leaves the remote refs as they
  were, and the plan is made from those.
- Scope: git quotes names with unusual characters and follows one with a space by a
  tab; the header pattern (`scope.ts:24`) and the filter of untracked files (`:184`)
  drop those files without a failure, and give the hunks of a quoted one to the file
  before it. `ReportIsComplete` is about the others. Git is taken to use its default
  prefixes, and the analysis to run at the root of the repository.
- Protocol: the worker cuts lengths and lists and takes over what is in them
  (`worker-main.ts:18-34`); a kept record with an empty text, a NUL or a location the
  supervisor does not accept (`protocol.ts:355-408`) costs the whole result.
- Processes: pids and process groups are not reused; a descendant with a group
  of its own, as the git that a worker runs has, is out of the model's reach, and
  of that of whoever kills the worker.
- Journal: `JournalIsBounded` bounds the whole for one process and, with one line more,
  for two. More processes exceed the limit further, with four by more than a line
  each: what a third renames or removes is in nobody's listing until the next, so
  that all of them may count the same bytes as free. What holds for any number is
  the bound of each file. A file another process removed meanwhile disables the
  journal of that run.
- Heavyweight lock: pids are not reused; the waiting time is a choice to give up
  at any time.

**Not modelled.** The parts `PROJECT.json` marks so, with the reason: the
presentation of subagents and the sums of their usage; search, configuration and
the wiki's index of notes; the work tracker, whose operations are single
synchronous assignments; review, web, browser, introspection and sharing, which
call a program or a provider and render the answer; the status line of tmux; the
schemas and parsers of external tools' output; scripts that run once; lint rules;
prose and data.

## 6. Plan

What would add most, in this order:

1. A single-owner registry, which WindowBinding implements; then SessionLifecycle
   composed of it and of AtomicCatalog for several processes.
2. The status line of tmux with its debounced refresh, the notes' search with
   its limits.
