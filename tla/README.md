# Verification of Enhanced-Terminal-MCP

TLA+ models of the stateful core of this MCP server (`src/src/*.ts`), the TLC
configurations that check them, and proofs of their main safety properties.
Paths below are relative to the repository; `file.ts:123` is a line of
`src/src/file.ts`.

## 1. The system

The server is one Node.js process. Everything runs on its event loop, so the
unit of atomicity is what runs between two awaits, timers or events. What other
processes do is visible through child processes, signals and the file system:
several servers may share one state directory.

A tool call passes through the wrapper (`wrap.ts`: rate limit, cache, audit),
may start a child through the capture (`capture.ts`) and the process supervisor,
collects output through the command output layer (`command-output.ts`), which
may spill it to the page cache (`paging.ts`) in the temp root
(`temp-manager.ts`), and leaves its traces in the session store and the audit
log. At shutdown (`index.ts`) the supervisor drains its children, then session
and audit are flushed.

### Inventory

| Component | State | Operations | Interacts with | Hard behaviour | Correct when |
|---|---|---|---|---|---|
| Process supervisor (`process-supervisor.ts`) | registry of children, per child: reason, timed out, cancelled, terminated, the promise of its termination; shutdown report | spawnManaged, terminate, shutdown; timers, abort, exit/close/error events | child processes, taskkill, capture, server shutdown | exits, closes, timers, aborts and shutdown in any order; refused signals; taskkill as a child of its own | no live child is lost, outcomes are attributed to one cause, shutdown reports the truth and ends |
| Audit log (`audit.ts`) | queue, write chain, two timers, known file size, log path | record, scheduled drain, retry, rotate, compact, flush, recent | file system, state migration, wrapper, shutdown | records during an append; flushes racing timers; renames that fail one by one | what is recorded is written in order or counted as dropped, and something is always under way that writes it |
| Session store (`session.ts`) | the session, dirty flag, revision, two timers, save chain, health | setters, debounced and immediate saves, flush, restore | file system, tools, shutdown | a change during a save; concurrent flushes | clean means persisted, older never overwrites newer, flush is durable |
| File lock (`lock-lease.ts`) | the lock file: owner, token, fence, time; the heartbeat of the holder | withFencedLock: create, take over, heartbeat, assertFence, verified release | state migration, temp manager, other servers | every file operation is a step of its own; crashes between any two | one holder at a time, only abandoned locks are taken over, abandoned locks are recovered |
| Command output (`command-output.ts`, `secret-stream.ts`) | per stream: retained chunks, flags, preview, matcher; spill promise, page cache writer, secret flag, reason of degradation | onChunk of two streams, ensureSpill, the final scan, publish | capture, page cache, secret patterns | two callbacks, the replay and the final steps interleave at every await; the writer fails anywhere | output is in order and complete or flagged, nothing unscanned is written, nothing at all after a secret |
| Command capture (`capture.ts`, `stream.ts`) | chunk queue per stream, pending bytes, settled flag | data, close, error, termination callbacks; pause and resume | supervisor, command output | settles under running callbacks; dropped chunks at the limit | settles once, callbacks of a stream never overlap |
| Page cache (`paging.ts`, `paging/`) | staging directory, index, metadata; entries by id | write, checkpoint, finalize, discard, read a page | temp manager, command output, cache tools, other servers | crash between any two file operations; a reader while the entry is removed; characters cut anywhere | what was announced can be read, shows what was written, and is not removed under a reader |
| Temp manager (`temp-manager.ts`, `temp-core.ts`) | reservations, quota ledger, staging directories and heartbeats, metadata and access times | reserve, release, recover, clean up, finalise, discard, save access times | lock, page cache, other servers | a cached disk size; two processes and one ledger; torn heartbeats and metadata | the total is kept, live staging is not swept, dead staging is |
| State directory (`state-dir.ts`) | old and new state files, migration promise | getStateDir, migration under the lock | lock, session, audit, older servers | crash between copy, rename and removal; servers that append meanwhile | no line lost or doubled, a new session never replaced, a server serves what was migrated |
| Result cache, wrapper (`cache.ts`, `wrap.ts`) | LRU entries with expiry and size | get, set, invalidate by value | all tools | invalidation during a read in flight; a change between two looks | no stale result after an acknowledged change, where the tool promises to drop it |
| Budgets, rate limit, batch (`hardening-contract.ts`, `command-budget.ts`, `ratelimit.ts`, `tools/command.ts`) | reserved and used units, tokens, worker state | reserve, consume, release; batch workers, deadline, cancellation | command tools, safety gate, audit | deadline, cancellation and workers racing; settings looked at before and after awaits | every item reported once and for its cause, overrun bounded, admission within the bucket where a token is asked for |
| Server start and shutdown (`index.ts`, `context.ts`, `tool-registry.ts`) | shutdown promise, registered tools | start, signals, uncaught errors | supervisor, session, audit | tools that finish late | what is flushed is final |
| Safety decisions (`safeguard.ts`, `security.ts`, `command-policy.ts`, `command-risk.ts`, ...) | profile, pending confirmations | decide | command tools | string rules | pure decisions over text |
| Downloads, archives, path policy (`network-policy.ts`, `zip-policy.ts`, `path-policy.ts`, `adaptive.ts`) | staging files and directories, bytes and deadline of a transfer | download with redirects and retries; extract; atomic write | file tools, result cache | failures at every chunk, name clashes in staging, retries that share a budget | only whole files replace others, budgets hold over retries, staging is cleaned up |
| File tools (`tools/files.ts`, `tools/manage.ts`, `tools/search.ts`, `tools/archive.ts`, `native-search.ts`) | none of their own | read, list, search, write, append, copy, move, delete, compress, invalidate | result cache, path policy, safety gate | every await lets another tool change the same file | see the result cache |
| Process identity, pool, telemetry, adaptive timeouts, logger, remaining tools | small or none | | | | see `PROJECT.json` |

`PROJECT.json` lists every component with its status, and every hazard at its
line with the properties that would catch it.

## 2. Plan

What exists, in the order of its importance:

1. `ProcessSupervisor`, with proofs of its safety (`CommandRunProofs`).
2. `AuditLog`, with proofs (`AuditLogProofs`).
3. `SessionStore`, with proofs of its safety (`SessionStoreProofs`).
4. `LockLease`, and over it `StateMigration`, which instantiates it; with proofs
   of both (`LockLeaseProofs`, `StateMigrationProofs`), where the second rests on
   the invariant of the first.
5. `CommandOutput`, with proofs of its safety (`CommandRunProofs` too).
6. `TempQuota`: reservations and the shared ledger of several processes; with
   proofs (`AdmissionProofs`).
7. `PageStore`, which extends `PageIndex` (the page format as operators) and
   implements `PageShelf` (what a reader may rely on); with proofs of both and of
   the implementation (`PageStoreProofs`).
8. `CommandTools`: gate, rate limit, batch, budget; with proofs
   (`AdmissionProofs`).
9. `FileTools`, extended by `Downloads` and `Archives`: the result cache and
   every tool that changes files; with proofs about all three (`ArchivesProofs`).

What is left, most important first:

- further abstract specifications: a child that ends once with one cause
  (implemented by `ProcessSupervisor`), a register with a durable part that
  never goes back (`SessionStore`), an append-only trail with counted losses
  (`AuditLog`), an exclusive lock (`LockLease` where one takes over at a time);
- `Shutdown`, which composes supervisor, session and audit at the end of the
  server (`index.ts:116`), and a `Capture` between supervisor and
  `CommandOutput`;
- a second server process in `AuditLog`, torn appends, and what a restart
  restores of a session.

## 3. Modules

Every module states in its header which code it models, and comments on every
variable name the field it stands for. `PROJECT.json` maps each definition to
lines. `MC...` modules instantiate the modules for TLC. Definitions commented
"Mutant of ..." take no part in the specification: each is a plausible bug, with
which one property must fail. A property that is a conjunction of named parts
(`SavesTold`, `EntriesKept`, `LogProceeds`, ...) is checked as a whole, and each
part has a comment of its own.

### ProcessSupervisor

A managed process is a child of a tool (`Main(c)`) or the taskkill process that
works for it (`Control(c)`). `active` is the registry, `phase` tells where
`terminateEntry` stands, `reason`, `timedOut`, `cancelled` and `terminated` are
the fields of `ManagedProcessState`. Actions: `Spawn`, `Exit`, `Close`,
`Timeout`, `Abort`, `CallerTerminates`, the steps of a termination
(`WindowEndsExited`, `GraceEnds`, `ForceEnds`), those of taskkill (`CloseControl`,
`ControlTimer`) and of `shutdown`. A child in `Protected` refuses signals:
the "error" event of a refused signal is taken for its end, and `Refusing` are the
processes of which that may be. Time
is abstracted: a timer fires, or does not, at any moment at which it is set.

### AuditLog

Entries are numbered in the order of `record`. `queue`, the two timers and
`drain` (where `drainOnce` stands) are the state of the class; `trail` is the log
file and its rotations. `path` tells how the promise of the log path stands. The
history variables `trimmed`, `dropped` and `late` account for the entries that
rotation and compaction delete, that the code counts as dropped, and that were
recorded while an append was in flight. File sizes are counted in entries.

### SessionStore

The state is its revision; `disk` is the revision in the file. `chain` is the
queue of save tasks, each with the revision of its snapshot. `promised` is what
completed flushes have vouched for. A save may fail at its write or at its rename.

### LockLease

Each caller goes through the file operations of `withFencedLock`, one action
each: read, exclusive create, fill, replace by rename, the two halves of a
heartbeat, and the release (read and compare, then remove). The lock file is
absent, empty, or an owner with a fence. Crashes and failed operations are
faults. Whether an owner is taken for dead is what a reader may conclude of it;
a heartbeat is assumed to be in time. `judged` is the owner a caller has read before
it decides on a takeover, `takers` those that have taken a lock over, `abandoned` the
owners that have crashed or failed.

### CommandOutput

A chunk is a number, in the order of its arrival in its stream. `work` says what
each of four handlers awaits: the callbacks of the two streams, the replay of
the spill, and the code after the capture. A chunk is taken when its callback
runs; the matcher is its verdict, a hit or the length of what it releases.
`spill` is the state of `ensureSpill`, `staging` that of the writer. `tier`
ranges over the scan tiers; "strict" behaves as "cache" here.

### TempQuota

Several processes share a temp root. A staging directory is appended to byte by
byte, and `status` tells where its append stands: idle, measuring under the lock,
measured, writing, marking; or what became of it. `size` is on disk, `reserved`
and `written` are its reservation, `cache` is what each process has measured,
`ledger` is `.quota.json`. What runs under the temp lock is one step, but the
measuring of the disk is not: appends of other reservations go on meanwhile, and
each file is read at some time of the scan. `gaps` records the four ways in which
a byte may escape every account; `CapacityKept` says that there is no fifth.

### CommandTools

`stage` says where each call is between admission and answer, `slot` what each
command of the batch is (queued, running, how it ended, or why it was skipped).
An action is the code between two awaits: look at mode, confirmation and risk
(`Decision`), ask the user, take tokens, resolve the shell, a worker's turn
(`Turn`: the deadline, the signal, the error flag and the budget are looked at,
then the next command starts), the end of a command (`Complete`, which reserves
its output in the budget), `Finish`. A single call may also end in its catch branch
(`ShellFails`, `RunFails`: `threw`), which records an audit entry of its own with the
directory that the session has by then, unless the supervisor has refused the child
(`SupervisorRefuses`) or the tool is `watch_command`, whose entry names none. `late` and
`cancelled` become true at any time. The directory of the session moves on
independently (`Move`).

### StateMigration

A caller is the start of a server. Its transaction is one action per file
operation or fingerprint comparison (`LookAtSession`, `CheckTrail`, the renames
and removals), and runs inside the lock of `LockLease`, whose actions interleave
with it: a caller may crash, or an operation fail, anywhere. Meanwhile servers that
have started write to the new directory (`ServerSaves`, `ServerAppends`), and one of the
older version appends to its trail and saves its session again (`OlderAppends`,
`OlderSaves`), without the lock; `taken` is the old session as a start has read it,
`recreated` says that the older server has made a session anew where a start had found
none in either directory. A trail is a sequence of lines. `written` is every line ever
written; `unguarded` those written after the last look of a caller at the fingerprints,
which no code can see any more. `Without` is the loop of `mergeAuditJsonl` that leaves out the lines
already merged, line after line.

### PageIndex, PageShelf and PageStore

`PageIndex` translates decoding, the index of checkpoints and reading a range,
over classes of bytes; the file is read in chunks as the code does, and
`ShowsExactly` compares all pages of all sizes with the text decoded at once.
`PageStore` is the life of a page: staging directory, queued appends, heartbeats
(open and write are separate steps), index, publication by rename under the lock,
the heartbeat that is in flight at that time, the check of the four files; readers
under the lock; cleanup by TTL, capacity and stale heartbeat; removals file by
file; access times saved by a timer without the lock; crashes, restarts and the
recovery at a start. Ages are counted in ticks. `PageShelf` is the abstract
specification: absent, published, damaged, removed, and who reads; `PageStore`
implements it with a page published once it was announced and is in its final
place with all that was indexed.

### FileTools, Downloads and Archives

One directory with three names stands for the file system; under a name lies the
call that put it there and whether it is whole, a part, or gone. A call is a
record whose `pc` says at which await it stands. A reader goes through the cache
(`LookupHit`, `LookupMiss`), looks at the files once or twice, and stores what it
saw (`Store`); a writer resolves, asks for consent, changes, and drops keys
(`Settle`). `Key` is the tool with its arguments as written: the same file under
another spelling is another key, which invalidation by value does not meet. The
cache is a set of entries; expiry and the order of use are left out, so that any
entries may go when another is set (`CacheSet`).
`Downloads` follows redirects and retries with a staging file per attempt. `Ended` is
`withRetry`, which repeats after every error, a refused target and a cancelled request
included, while there are retries left; `refused` tells that the last attempt was one
that its own comment calls not repeatable.
`Archives` reads the manifest, extracts into a staging directory and moves entry
by entry, and puts the three together (`Next`). A staging name carries only a
millisecond; the history field `shared` of a call says that its name was taken
while another used it or while something lay there.

## 4. Runs

| Run | Shows |
|---|---|
| `supervisor_unix` | Three children, two at a time, one of which refuses signals: no live child leaves the registry, the shutdown report covers them, causes are never mixed, the first request wins. |
| `supervisor_windows` | Two children with taskkill, one of which refuses signals: outcomes are truthful, a termination that waits or has failed keeps its entry unless the process refused, terminations end, nothing is forgotten, shutdown reports. |
| `audit_trail` | Four entries, a queue of two, rotation and compaction, two flushes, one fault: entries are accounted for, in order, on their way and finally written; flushes return and a clean report is true. |
| `session_saves` | Three changes, two flushes, one fault: clean means persisted, dirty means scheduled, the file never goes back, flushes are durable and return. |
| `lock_migration` | Three callers with the options of the migration lock, two faults: exclusion, takeover only of abandoned locks, recovery. |
| `command_output` | Two streams of three chunks through a memory of two, all tiers, one fault: output is faithful, scanned before it is written, nothing published after a secret, and the command returns once the capture has settled. |
| `temp_quota` | Two processes, two directories of two bytes each in a root for two, one fault: the root is not overfilled unless bytes escape the accounts in a named way, the ledger never shows too little, released capacity is given back. |
| `command_tools` | A single command and a batch of three on one or two workers, under every setting of the gate: every item is reported once and for a cause that occurred, the overrun of the output budget is bounded by the workers, what takes tokens never exceeds the bucket, the audit of a command that ran to its end names its directory, the batch returns. |
| `state_migration` | Three starts, one fault, servers of both versions that write to their trails and save their sessions meanwhile: no line is lost or doubled, new sessions are kept, a server serves with the session and the lines it has inherited. |
| `page_store` | One page, two processes, two crashes, one read: pages show exactly what was accepted (every text of up to five bytes), announced pages can be read, live staging is kept, orphans are removed, and the abstract `PageShelf` is implemented. |
| `file_tools` | Two or three calls in every mixture that matters, cache of one entry: cached results are true, transfers are whole, staging is cleaned up, the budget of a download is shared by its attempts, those after a refusal or a cancellation included; and every call is answered (deadlock is checked). |
| `audit_loss` | A counterexample, see findings. |

Deadlock is checked in `command_tools` and `file_tools`, which say where they end
(`Done`, `AllAnswered`). In the others the system may come to rest (all children
ended and shut down, all callers returned), and the bounds end it anyway.

### Bounds

The bounds are the constants `Max...` of each module and the sizes of its sets.
They are the smallest at which the races exist: a third child lets one be
spawned, end and be replaced while two are being terminated; a fourth audit
entry is recorded while the third is in flight with the queue full and the file
rotated; a third session change falls between a save and the flush that waits
for it; three callers let two take over the lock of a third; three chunks per
stream reach memory, cross the spill and come after it, and exceed the cap; two
directories that want two bytes each compete for the last byte, within one process
and between two, and the second byte of a directory rewrites the ledger entry of
its first (that the first directory belongs to the first process is symmetry).
Three commands let one be running, one ended and one still to start; the second
start of a migration recovers from one that crashed, and a third looks at the
directories meanwhile. A
page of two chunks of up to three bytes has a character across the chunks, across
the read buffer of two bytes and across the checkpoint of two characters; two
crashes let the one that removes what a crash has left be interrupted in turn. A
cache of one entry evicts at every second result; a download of at most one chunk,
one redirect and one retry meets the budget in its first and in its second
attempt. The code retries twice; a second retry exceeds the
time of a run, and the theorems hold for any number. A command of a batch makes up to
two units of output against a budget of one, so that two workers may overrun it by what
both had in flight. Two children on Windows, one at a time, let one that refuses its
signals be waited for while the place of the other is taken. One fault meets every
operation in some behaviour. In the lock two faults are needed for a crash of the one
that recovers from a crash; in the migration one fault and a second start do, as
servers of both versions write as well. Children that can be signalled are
interchangeable, and a symmetry set, in the run without liveness; so are callers and
lines in the migration.

### Fairness

- Supervisor: timers that are set fire, and continuations that are ready run
  (the event loop). Nothing is assumed of the children: they may never exit or
  close.
- Audit and session: timers fire, file operations return (as success or
  failure), continuations run.
- Lock: each caller proceeds with its file operations, and what runs under the
  lock ends or crashes; the end is strongly fair as heartbeats interrupt it.
- Command output: the operations of the page cache return, and what waits for the
  spill continues when it is over. The capture is not assumed to settle: where the
  child has exited and a grandchild holds its pipes, no "close" comes, and no
  termination fails either (see `AlwaysReturns` in the findings). `RunReturns` says that
  a run which does not return waits for its child, with no callback of its own left.
- Temp quota: a measurement ends, the request is decided, and a synchronisation
  whose timer is set gets the lock, or times out, which is a fault.
- Command tools: the shell resolves or fails, workers go on, and a command ends.
  The supervisor's timeout of 30 s backs that for a child whose pipes close; of one whose
  pipes a grandchild holds it is assumed. Nothing is assumed of the user:
  a question may stay unanswered, so `BatchReturns` starts after admission.
- Page store: what was begun under the lock ends, file operations return, time
  passes, a process is started again, and the cleanup timer fires in some process
  again and again. Readers and writers need not go on.
- Migration and file tools: none; their properties are safety properties.

## 5. Proofs

Every theorem holds for all constants that satisfy the named assumption of its
module. Where a property alone is not inductive, the module defines `Inv`, which
implies it; TLC checked each `Inv` with the constants of the run before it was
proved. The proofs of a step are one lemma per action or group of actions, over
lemmas that say what a helper of the model does; `NextInv` puts them together.

### ProcessSupervisor

`CommandRunProofs` proves every safety property of the supervisor for
all constants that satisfy `ConstantsAssumption` (a positive limit, and some
children that refuse signals), on Windows and elsewhere:

| Theorem | States |
|---|---|
| `TypeCorrect` | `[]TypeOK` |
| `RegistryCovers` | `[]RegistryCoversLive` |
| `ReportIsTruthful` | `[]ReportTruthful` |
| `CleanReportWithoutRefusal` | where no child refuses signals, a clean report means that none is left |
| `Attribution` | `[]AttributionExclusive` |
| `Outcomes` | `[]OutcomeTruthful` |
| `Draining` | `[]DrainingTerminatesAll` |
| `FirstRequest` | `FirstRequestWins`, an action property |

A child that refuses signals is exempt in a named way only (`KnownAsRefusing`): alive and
out of the registry it is still in the windows of its termination, or counted as a failed
termination.

`Inv` is the conjunction of those invariants and of `ClosedForCause`: an entry is
closed only by an exit or by a refused signal. Without it `RegistryCoversLive` is
not inductive: a termination that ends removes entries that are closed, and
nothing else says that they are not alive. What `terminate` does
(`TerminateAll`) and what the end of a termination removes is stated in lemmas
that the actions share; each action has a lemma of its own, and `NextInv` puts
them together. Where a child refuses SIGTERM, its entry leaves the registry with
the "error" event of the signal while it is alive (`process-supervisor.ts:393`),
and the report of shutdown may be clean without it: `CleanReportWithoutRefusal` shows
that nothing else makes a clean report untrue.

### SessionStore

`SessionStoreProofs` proves, for every number of changes, failures, flushes and
callers:

| Theorem | States |
|---|---|
| `TypeCorrect` | `[]TypeOK` |
| `SavesAreTold` | `[]SavesTold`: clean means persisted, dirty means scheduled or failed, a flush keeps its word |
| `DiskGoesForward` | `DiskNeverGoesBack`, an action property |

Its `Inv` adds three parts. `Ordered`: the snapshots of the chain are in the order
of their revisions and none is older than the disk; without it a rename might go
back. `InFlight`: after its rename, the head of the chain is what is on disk; that
is why the end of a save may reset the dirty flag. `Awaited`: a flush which no
failure has spoiled waits for a snapshot that is new enough, unless the disk is
already; without it nothing relates the promise of a flush that returns to the
disk. `ChainGrows` and `ChainShrinks` say what appending and removing a snapshot
does to the order, once for all actions.

### LockLease

`LockLeaseProofs`, for every number of callers, crashes and failed operations:

| Theorem | States |
|---|---|
| `TypeCorrect` | `[]TypeOK` |
| `LockExcludes` | `[]Exclusion`: whoever runs its transaction finds its own token and fence in the file |
| `AtMostOneHolds` | `[]OneHolder`: no two run at the same time |
| `NoTakeoverOfTheLiving` | `[]TakeoverOnlyOfAbandoned`: whoever takes a lock over, however many do, had found stale one that its owner had left behind |

All but the types are about options that leave empty files alone; the second and
third hold while at most one caller has taken a lock over (see the findings).
`Owned` says what an owner finds in the file from the creation to the removal, the
steps around the transaction included, as the removal of a lock is where exclusion
would break. `Unclaimed` says that before the first takeover whoever is about to
replace a lock has seen an owner that is gone, and `TakersHadIt` that a taker
replaces once: together they make the first takeover meet no owner at work. `Authored`
says that whoever wrote the file last is at work on it or has left it behind, and then
counts as gone, however many takers there are: that is what makes a stale judgement true
of every taker.

### StateMigration

`StateMigrationProofs` rests on the invariant of the lock (`LP!Inv`, through
`LP == INSTANCE LockLeaseProofs`): the steps of the lock that a migration takes keep
it by the lemmas of `LockLeaseProofs`, and `OneInside` derives from it that one
start alone is inside. For every number of starts, faults and lines:

| Theorem | States |
|---|---|
| `NewSessionStays` | `[]NewSessionKept`: while one lock has been taken over, and unless the older server has saved anew a session that a start had not found |
| `ServedAfterMigration` | `[]ServesOnMigratedState`: an inherited session and every inherited line are in the new directory of a server that serves, however many locks were taken over |
| `StartsTakeTurns` | `[]OneMigrates` |
| `TrailsAreKept` | `[]TrailKept`: no line is lost while one lock has been taken over, none is doubled and all are in order however many were |

For the sessions, `Progress` says what each step has found or made of them. For the
trails, `Kept` has two parts. `Trails`: the two trails and what each start has read
of them are in order and double nothing, so that what a second start inside merges
is too. `Guarded`: of a start that is inside alone, every line still to be saved was
read by it once it has compared the trails, and is in the new trail once that was
renamed; the others were written behind its last look. Without it nothing tells that
the removal of the old trail loses no line. `WithoutIs` says of the merge that it is in
order, doubles nothing and leaves out only what was to be left out.

### AuditLog

`AuditLogProofs`, for every queue, file size, number of rotations, entries, flushes
and faults:

| Theorem | States |
|---|---|
| `TypeCorrect` | `[]TypeOK` |
| `EntriesAreKept` | `[]EntriesKept`: queued, in the trail, or lost for a named cause; what is queued is on its way |
| `TrailIsInOrder` | `[]TrailInOrder` |
| `CleanFlushMeansWritten` | `[]CleanFlushIsWritten`: after a clean flush an entry recorded before it is on disk, deleted by the limits of the trail or the queue, or swept away by an append in flight |

`InOrder` relates the queue, the batch in flight and all files; `Drained` says that
the queue during an append holds only the batch and what came late, which is why
clearing it afterwards loses exactly the entries that `late` names; `Moving` says
that an entry which no drain will write has a timer; `NewestKept` that compaction
never deletes the newest entry, since a drain that tidies up has just appended.
`CleanFlushIsGone` is the inductive half of the promise of a flush: what it was asked to
write is no longer queued; `Accounted` then tells where it is.

### PageStore and PageShelf

`PageStoreProofs`, for every number of pages, processes, chunks, crashes and readers:

| Theorem | States |
|---|---|
| `TypeCorrect` | `[]TypeOK` |
| `AnnouncedAreReadable` | `[]AnnouncedReadable` |
| `PagesAreWhole` | `[]PagesWhole`: an announced page holds every chunk that was accepted |
| `ChunksAreSeamless` | of `PageIndex`: a text read in chunks of any length has the units of the whole |
| `PagesShow` | of `PageIndex`: pages found by checkpoints show the text, for every size of pages, chunks and strides |
| `Trims` | of `PageIndex`: a UTF-8 text that was cut is trimmed to its whole characters |
| `PagesShowExactly` | `[]PagesExact`: an announced page shows what was accepted, character by character |
| `LiveStagingsAreKept` | `LiveStagingKept`, an action property |
| `Implementation` | `ImplementsShelf`: `PageStore` implements `PageShelf` |
| `ReadsPublished`, `LostForever` | of `PageShelf` alone: what is read is on the shelf and undamaged; a lost page never comes back |
| `ReadersAreServed`, `LostPagesStayLost` | the same of `PageStore`, by the implementation |

`OneUser` says what the temp lock excludes: the writer that publishes, the readers
and the removals. `PageInv(d)` is what that makes of one page: nothing of it is
there before its writer begins (`Begun`), only its own process removes the staging
directory of a living one (`Handled`), its heartbeat is fresh or its writer holds
the lock (`Beats`), its data file holds what was indexed or is gone (`Held`), and
its metadata is whole unless an access time was saved (`MetaWhole`). As each step is
seen from any page, `PageInv` is proved of one page at a time. The implementation has
one step per action: publications, removals, damages and reads of the shelf, and
everything else a stutter.

That pages show the output rests on the operators of `PageIndex`. A decoding is told
by the ends of its units, one rising sequence of positions (`Track`), and is complete
if it stops only where the code does (`Halts`, `Decodes`). From a place there is one
at most (`DecodesOnce`) and, by induction from the end, one at least (`UnitsDecode`),
so `Units` is it. What is decoded of a part of a file is there in the whole
(`PartDecodes`), and a decoding goes on where another halted for want of bytes
(`DecodesJoin`): so chunks leave no seam. A record of the index is the end of so many
units (`Records`, `IndexIs`), hence a range of bytes between two records shows their
units, but for the last two at most if the first of these is broken (`RangeUnits`),
and a page shows its part of the text (`PageIs`). What an announced page holds is all
that was accepted (`Held`), which makes the file and the text the same (`WholeIsExact`).

### CommandOutput

`CommandRunProofs` too, for every number of chunks, all limits and any number of
failures, with every interleaving of the two streams, the spill and the end:

| Theorem | States |
|---|---|
| `OutputTypeCorrect` | `[]OutputTypeOK` |
| `ScannedOrGoneHolds` | `[]ScannedOrGone` |
| `OutputIsFaithful` | `[]OutputFaithful`: of each stream none of whose chunks was handled during the spill |
| `SilentAfterSecret` | `NothingWrittenAfterSecret`, an action property that no run checks |

What is on the disk is clean only if what is on its way there is: `Released` says it
of what memory holds, of what is to be replayed and of what waits for the spill.
`Opening` says what spill, writer and stage of the command tell of each other: who
waits as long as the spill is in progress, that no writer is open before it was
created, and that a secret found during the creation was found by another stream or
after an early end. `Outcome` sums up what a scan may do (`Quiet`, `Alarmed`,
`Written`, `Joined`), so that the three steps that scan share two lemmas. What memory
holds is the concatenation of its chunks, by a recursion in the library of sequences:
`FlattenJoins` replaces it by its intermediate results.

`OutputFaithful` speaks of what is returned, so its invariant says of each stream
where its units are before that (`Follows`), as long as no secret was found, the
capture did not settle early and the stream did not cross the spill. `Queue`: what the
callback waits with and what the matcher holds is in order, the one before the other.
`Stored`: so is what is on the disk, still to be replayed, in memory and in the preview,
and all of it comes before what is queued. `Complete`: nothing else is missing of what
has arrived, unless it is flagged. `Awaiting` adds who waits when, and that a finished
spill leaves nothing in memory and a writer that is open. The steps of a handler are two
as seen from there: it places a part of what it hands on (`Placed`), or it waits with
all of it (`Parked`); `HandedOn` and `OtherFollows` carry `Follows` over both, `Untouched`
over all the rest. That a preview which is not flagged has no gap is counting: a rising
buffer of at least n units of 1..n has them all (`FullBuffer`). TLC checked the invariant
on all states of `command_output` before it was proved.

### CommandTools

`AdmissionProofs`, for every number of calls, commands and workers, and every
budget:

| Theorem | States |
|---|---|
| `TypeCorrect` | `[]TypeOK`, and with it that the account never counts more than the budget |
| `ReportIsFaithful` | `[]ReportFaithful` |
| `OverrunIsBounded` | `[]OverrunBounded` |
| `RateIsHeld` | `[]RateHolds`: of `execute_command` and batches; a batch that pays once counts once |
| `AuditsNameTheDirectory` | `[]AuditNamesTheDirectory`: of calls that did not end in their catch branch |

`Rated` says that the tokens left and those paid for come from the bucket. `Slots`
relates the commands to the workers that have them, `Causes` tells why a worker
returns, and `Overrun` that what was produced beyond the account is at most one
command of each worker which has met a refusal and takes no other: a bound on the
sum alone is not inductive. `Indexed` bounds the next index by the workers that have
returned. `Total`, a sum over all commands, is related to its summands by
`SetInduction`.

### TempQuota

`AdmissionProofs` too, for every number of processes and staging directories, every
capacity, and any mixture of crashes, timeouts and failures:

| Theorem | States |
|---|---|
| `QuotaTypeCorrect` | `[]QuotaTypeOK` |
| `LedgerNeverShort` | `[]LedgerConservative` |
| `CapacityHolds` | `[]CapacityKept` |

The capacity alone is not inductive: a request is admitted by what its process has
measured or cached, and by the ledger. `Covered` says that each process sees every
byte at least once: its own as soon as they are marked, in the size that it goes by;
those of the others as soon as they are promised, in that size or in the ledger.
`Appends` relates the counters of a reservation to where its append stands, and
`Measuring` says who measures and what a scan may replace. `TotalBytes` counts
bytes one by one, so that `SumInTotal` compares sums by an injection: what all have
promised is no more than the size, the ledger of the others and the own outstanding
bytes together, although some may be counted twice.

### FileTools, Downloads and Archives

`ArchivesProofs`, for every number of calls, names, retries, redirects, bytes and
entries of the cache, with all tools running at once:

| Theorem | States |
|---|---|
| `BudgetIsShared` | `[]BudgetShared`: of all attempts of a download |
| `StagingIsCleaned` | `[]NoStagingLeft` |
| `TransfersAreWhole` | `[]TransfersWhole` |
| `CacheAgrees` | `[]CachedTruth` |

For the transfers, `Apart` says that two which use one staging name know it,
`Claimed` that what lies in staging is in use, `OwnFile` and `OwnDir` what lies in a
staging that was not shared: the members that were extracted and not yet placed.
`Counted` relates what was written to what is charged over the attempts. For the
cache, `CacheInv` says of a reader what `CachedTruth` says of an entry, from its
first look on (`Reading`): what it saw agrees with the files or may disagree;
otherwise a result that is old already might be stored after the change was
acknowledged. `Touching` says that what a writer has written and not acknowledged is
where its keys will be looked for. `AgreesStill` is the core: a step of one call
leaves an agreement as it is unless it acknowledges a change; `OtherReads` and
`DroppedKept` say that then the readers are excused and the entries dropped.

### What the proofs changed in the models

- `TransfersWhole` was false with three extractions in one millisecond: the staging
  name of one that had been removed and taken again was not known to be shared.
  `Sharing` now marks every call that takes a name while something lies there.
- The eviction of the cache kept a beginning of the order of use, although expired
  entries go wherever they are; now any may go.
- `TempQuota` and `CommandOutput` have names of their own for their specifications, as
  their proofs share a module with those of `CommandTools` and of `ProcessSupervisor`.
- The type invariant of `CommandOutput` bounded its counters by the constants of the
  run.
- `TempQuota` counts bytes as the elements of a set; that
  there are finitely many staging directories is an assumption
  (`ConstantsAssumption`).
- Overlapping cases of CASE expressions became IF chains, as which case is taken is
  not determined.
- The assumptions name what the runs had always given: old and new lines are
  distinct, no trail is `None` (`MigrationAssumption`), the names of the file tools
  are among the names and no call is called "init" (`FileToolsAssumption`), bounds
  and budgets are numbers (`DownloadsAssumption`, `ArchivesAssumption`,
  `CommandToolsAssumption`).

### What stays with TLC

- Liveness (`ChildrenSettle`, `ShutdownReports`, `LogProceeds`, `StoreProceeds`,
  `LockIsRecovered`, `RunReturns`, `BatchReturns`, `CapacityReturned` and those of
  pages): the prover does not reason about fairness, nor about ENABLED. That every
  call of the file tools is answered is the check for deadlock.
- Induction over data cannot use the theorems of the library that take an operator.
  `SetInduction` states it of a set of numbers, which the provers can instantiate; it
  carries the sum of `CommandTools`, the merge of `StateMigration` and the decoding of
  `PageIndex`.

Every invariant and every action property that a passing run checks is also a theorem.
What the models leave out, such as UTF-8 sequences of four bytes in `PageIndex`, is in
neither.

## 6. Findings

A run: `audit_loss`: `queue.length = 0` after the append also clears what was
recorded meanwhile (`audit.ts:245`). `Accounted` exempts these entries.

Shown by a definition that no run lists, because it fails: add it to the
configuration named to see the counterexample.

- `LiveHolderKept` (`LockMigration.cfg` with `TakeoverOnCorrupt = TRUE`): a lock
  file that its creator has opened and not yet written is taken for corrupt, and
  taken over from a live creator (`lock-lease.ts:174`), although the change log
  says that a live holder is never force-taken over. `Exclusion` and
  `TakeoverOnlyOfAbandoned` are about the other options. Without the option it fails too,
  with two takers: both have judged the same dead owner, and the second replaces the lock
  of the first.
- `NeverDeletesOthers` (`LockMigration.cfg`): the token is verified and the path
  removed in separate steps (`lock-lease.ts:253`); a takeover between them has its
  lock deleted, unlike what the header promises. Only a caller whose owner was
  taken over meanwhile meets it, so `Exclusion` speaks of one takeover. With two
  takers of a dead lock both run their transactions: `TrailKept` and
  `NewSessionKept` exempt that too.
- `OutputComplete` (`CommandOutput.cfg`): while a stream waits for the spill, a
  chunk of the other is kept in memory and wiped, or written before older chunks of
  its own stream (`command-output.ts:392`). In tier "write" it may also be scanned
  twice and change places with what the matcher holds. `OutputFaithful` exempts the
  streams it happens to, and `StagingSettled` the staging directory that is left
  when a secret is found while the writer is being created.
- `NeverOverfull` (`TempQuota.cfg`): a byte that is appended and marked while another
  reservation measures the disk is neither measured nor outstanding
  (`temp-manager.ts:391`). `CapacityKept` exempts it, and with it a size cached
  before another process took its bytes out of the ledger, an entry that lapsed
  after ten minutes, and a ledger that was not written.
- `SkipReasonTruthful` (`CommandTools.cfg`): after a command that ends past the
  deadline, its reservation of output fails and the rest is reported as
  "budget_output"; "budget_input" is reported of commands for which the deadline,
  not the input, was exhausted (`command-budget.ts:17` says that skipping is
  truthful). `ReportFaithful` asks less: that some cause has occurred.

- `CleanMeansNoChild` (`SupervisorUnix.cfg`): a child that refuses SIGTERM has left the
  registry (`process-supervisor.ts:393`), and shutdown reports clean while it is alive.
- `AlwaysReturns` (`CommandOutput.cfg`): a child has exited and a grandchild holds its
  pipes. No "close" comes; a termination ends well, as `waitForExit` sees the exit
  (`process-supervisor.ts:164`, `:173`), so `onTerminationFailed` is not called either
  and the capture never settles (`capture.ts:117`, `:212`): the run, and the call of the
  client, never return.
- `SessionNeverReplaced` (`StateMigration.cfg`): a start finds the target absent
  (`state-dir.ts:300`) and waits for its reads. A server that had started from two
  directories without a session saves its own, and the start renames the one that an older
  server has saved since over it (`state-dir.ts:276`), although "the target is
  authoritative" (`state-dir.ts:304`).
- `EveryCommandPaid` (`CommandTools.cfg`): `watch_command` takes no token, and a batch
  that is not `per_command` pays one for all its commands, unlike the bucket for all
  command tools of `docs/safety.md:44` and `docs/tools.md:49`.
- `FailuresNameTheDirectory` (`CommandTools.cfg`): the catch branch asks for the directory
  of the session again (`tools/command.ts:492`), and its entry names another than the one
  in which the command ran. So does the entry of a batch (`tools/command.ts:637`), which
  is not modelled.
- `RefusedNotRetried` (`FileTools.cfg`): failures that are not to be repeated are thrown
  within the function that `withRetry` repeats, and it repeats after every error
  (`adaptive.ts:41`): a refused target, credentials in the URL or a cancelled request are
  tried up to three times, unlike what `tools/archive.ts:35` says.

Met while modelling; the properties admit them where they say so:

- Migration: an empty lock file left by a crash is waited for until the timeout
  and never taken over, unlike what the comment at `state-dir.ts:228` says of old
  empty files (`LockIsRecovered` exempts it). The copy of the trail does not look
  again whether the target is still absent before it renames (`state-dir.ts:342`),
  and between the last fingerprint and the rename or removal lines are lost
  (`unguarded`).
- Page cache: the access time is saved without the lock, by truncating
  `meta.json` (`temp-manager.ts:335`); a crash in between makes the page unreadable
  for good (`resaved`). A page read by a process that has not listed it does not
  live longer (`paging.ts:739` says it does). A page directory whose removal was
  interrupted after `meta.json` is never removed. A heartbeat met half written
  in an old directory has the staging of a living owner removed (`raided`). A
  heartbeat in flight at publication leaves a fifth file, and the publication fails
  after its rename. A broken unit before a checkpoint or at the end of the file is
  counted but not shown, and on Windows trimming GBK may remove half of a whole
  pair (`paging.ts:438`); `TrimmedExactly` is about UTF-8.
- Temp quota: a synchronisation of the ledger that fails is tried again at the next
  release or append only (`CapacityReturned` exempts it).
- Command tools: a batch that is refused in mode `per_command` keeps the
  tokens it took; the deadline does not end commands that run.
- File tools: a failed look after a write, failed appends and copies, and
  `make_directory`, downloads, extraction and compression drop nothing from the
  cache; a deletion, copy or move leaves the listings of the directory; keys with
  backslashes or another spelling never match (`cache.ts:148`). `Promised` is what is
  left of it. `write_file` may overwrite without consent a file that came into being
  after it looked.
- Downloads and archives: a finished body is placed although the call was cancelled
  or is late; staging names carry only the millisecond, so that two downloads or
  two extractions may remove or mix up each other's staging (`shared`); a failure
  while entries are placed leaves the old ones removed, and a whole directory is
  replaced, not merged (`zip-policy.ts:429` says otherwise); a crash leaves staging
  for ever.

## 7. Not modelled

Text, patterns, encodings other than in `PageIndex`, paths and formats; byte sizes
(counted in entries, chunks or units); identity of processes by pid and start time;
torn appends to the audit log and a second process in it; the chunk queues and the
pending limit of the capture; restoring a session; the search through Everything on
Windows; DNS, remote servers and the zip format (their outcomes are choices); the
composition at shutdown. Components without a module are in `PROJECT.json` with the
reason. Those planned are in section 2; the rest is pure text processing, or single
calls of the file system and of external programs without state of their own.
