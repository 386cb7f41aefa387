# Luxury Installer: verification project

TLA+ models of the parts of Luxury Installer where order, interruption and
concurrency decide whether it is correct, the TLC runs that check them on small
instances, and TLAPS proofs of the facts that matter for every instance. The
reference is the source; each definition that models code names its lines under
`map` in `PROJECT.json`.

Abbreviations of paths: `local/` is `crates/luxury-platform/src/local/`,
`engine/` is `crates/luxury-engine/src/`, `shell/` is
`apps/luxury-installer/src-tauri/src/`.

## Inventory

| Component | State it keeps | Operations | Hard behaviour | What makes it correct |
| --- | --- | --- | --- | --- |
| Transaction journal (`local/transaction.rs`) | `journal.jsonl`: records, appended and synced | append, mark rolling back, read and validate | torn last line, append that fails after its bytes are on disk | what the writer leaves is what the reader accepts |
| Local adapter (`local/mod.rs`) | installed tree, backups, staged files, receipt files, state and destination directory | begin, remove, apply, stage receipt, commit, rollback, recover, cleanup | death between any two steps, errors half way, user edits, repetition of recovery | a transaction is committed or undone, nothing is lost, ownership is never forgotten |
| Engine (`engine/install.rs`, `uninstall.rs`) | one call: progress, whether the transaction has started or committed | prepare, install, uninstall | cancellation at checkpoints, rollback on error and panic | an error before the commit point is answered with rollback, after it never |
| Assessment and publisher policy (`engine/install.rs`, `luxury-spec/publisher.rs`) | receipt: version, identity, authorised publisher | fresh install, upgrade, repair, downgrade, publisher transition | sequences of packages and rotations | no downgrade or publisher change without approval |
| Locks (`local/transaction.rs`) | a lock file per package and per destination | acquire, release | two processes, two packages on one directory | never two transactions on one tree, no deadlock |
| Capacity (`local/capacity.rs`) | none | worst-case journal size, free space | overflow | a checked plan fits |
| Launch (`engine/launch.rs`, `local/launch.rs`) | none | start the entry point | stale receipt, a change between check and start | starts only an owned, unmodified file of the installed version |
| JSONL server (`apps/luxury-cli/src/stdio.rs`) | one active mutation, one active operation, bounded channel | request, cancel, shutdown | cancel against completion, coalesced progress, end of input | one answer per request, order of events, shutdown waits |
| Backend client (`shell/backend/`) | table of pending requests, child process, queue budgets | request, operation, cancel, close | late answers, time-outs, failing child | every request is answered or failed once |
| Setup shell (`shell/setup.rs`, `app.rs`, `lib.rs`) | selection, active operation, startup gate, closing flags | bootstrap, choose, install, uninstall, launch, link, cancel, close | close while starting, shutdown deadline, a completion thread that cannot start | every operation is followed to its end, none outlives the window |
| Studio shell (`shell/studio.rs`) | active project | dialogs, project operations | an answer for another project, a file changed on disk meanwhile | the screen is the project, unsaved input stays |
| Privileged helper and brokers (`apps/luxury-cli/src/privilege*`, `shell/privilege*`) | one session between two processes: handshake, pinned package, frames in flight | start, cancel, frames, deadlines, reaping | death of either side, a prompt nobody answers, a cancellation that meets the answer | the report is true, only the reviewed package is installed, every session ends |
| Renderer (`apps/luxury-installer/src/renderer/src`) | view, review, draft, running operation | events and commands | events before or after the answer they belong to | follows the shell |
| Package format (`luxury-bundle`) | none | write, verify | an archive that is not the one written | what opens is what was signed |
| Project authoring and compiler (`luxury-compiler`) | a project directory | init, update, import, resolve, build | failure after some entries were published, edits by others | all or nothing, nobody's work is lost |
| Manifest, file-system layer, platform trust, command line, release tooling | none that outlives a call | validate, system calls, print | - | see the end |

Calls go shell -> backend client -> JSONL server -> engine -> local adapter; the
adapter alone touches the disk. What survives a crash is the disk: the journal,
the directories and the receipt files. Everything that must be right after an
interruption therefore meets in the local adapter. An installation for all users
takes another way: shell -> broker -> elevated helper -> engine. Studio works on a
project directory through the same JSONL server and ends with a package file, whose
contents the engine judges when somebody installs it.

## Modules

| Module | Contents |
| --- | --- |
| `Journal` | the records of the write-ahead journal and, as predicates, everything the reader checks |
| `Transaction` | one package: the engine's install and uninstall procedures and the adapter's steps, rollback, recovery and cleanup, with crashes, failing steps and user edits |
| `AtomicInstall` | the promise of a transaction: tree and receipt change together, once, or not at all |
| `TransactionAtomic` | the refinement mapping by which `Transaction` implements it |
| `TransactionProofs` | theorems about `Transaction`: types, ownership, the journal, what is left on disk, the installed tree, refusals, the refinement of `AtomicInstall` |
| `Assessment` | who may publish the next version, which versions may follow, the receipt a release leaves |
| `PackageFormat` | what the writer puts into an archive and everything the reader checks; signatures and key rotations |
| `Engine` | calls of several processes on several packages: assessment, recovery, both locks, the plan checked again, file by file changes, launch, processes that die |
| `Distribution` | publishers and what they signed, over `Engine` |
| `EngineProofs` | theorems about `Engine` and `Distribution`: receipts, launches, the files of installed packages, their publishers |
| `ServerProofs` | theorems about `StdioServer` |
| `StdioServer` | the backend process: input thread, serving loop, workers and tickers over one bounded channel |
| `BackendClient` | the desktop shell's client of that process: concurrent calls, failure, replacement, the stdout reader and close, over an arbitrary child |
| `BackendProofs` | theorems about `BackendClient` |
| `Protocol` | what may cross the JSONL pipes: parameters, results, events and error codes, and the limits of the format, the server, the client and the shell |
| `Exchange` | a session of Setup or Studio with the CLI, for what the lines say: consents, plans, outcomes and errors on their way |
| `ExchangeProofs` | theorems about `Exchange` |
| `SetupShell` | the Rust side of the Setup window: command threads, startup gate, completion threads, close |
| `SetupApp` | the renderer of Setup over `SetupShell`: commands, answers and events in any order |
| `SetupProofs` | theorems about `SetupApp` and the shell under it |
| `PrivilegedSession` | what the three platforms share of a session between Setup and the elevated helper |
| `SessionWindows`, `SessionLinux`, `SessionMacos` | start, handshake, reaping and end of transport of each platform |
| `SystemSession` | the session on any of them, with a user, deaths and deadlines |
| `SessionProofs` | theorems about `SystemSession` |
| `Authoring` | a project directory and what the compiler does with it: init, validate, update, import, resolve, build |
| `Studio` | the Studio shell and its renderer over `Authoring` |
| `StudioProofs` | theorems about `Studio` and the project under it |
| `...MC` | for TLC: packages, digests, archives, operations, as few as show every case |

Composition: `Transaction` EXTENDS `Journal`; `Engine` EXTENDS `PackageFormat`,
which EXTENDS `Assessment`; `Exchange` EXTENDS `Protocol`; `SetupApp` EXTENDS `SetupShell`; `Studio` EXTENDS
`Authoring`; `SystemSession` EXTENDS `PrivilegedSession` and takes the platforms
by INSTANCE; `TransactionAtomic` takes `AtomicInstall` by INSTANCE under a
refinement mapping.

### State of `Transaction` and the code

| Variable | In the code |
| --- | --- |
| `dest` | the files under the install root; a content is a digest and the executable bit |
| `backup`, `staged` | `<destination_dir>/removed/<file>` and `<destination_dir>/incoming/<file>` |
| `rcpt` | `receipt`, `receipt.pending`, `receipt.previous`, `receipt.deleted`, `receipt.incoming`; `Torn` is a file whose bytes are not all written |
| `dirs` | which of the install root, `state_dir` and `destination_dir` exist |
| `jfile`, `records` | `journal.jsonl`, its renaming to `journal.done`, and its complete records |
| `known` | how many of the records the process has in `ActiveTransaction::records`; smaller than `Len(records)` exactly when an append reported an error after its bytes reached the disk |
| `pc`, `mode`, `todo`, `cur` | where the call is: the step that comes next, whether it runs, recovers or finishes, the files still to be handled and the one in hand |
| `op`, `target` | the operation, and the file set of the plan (empty for uninstall) |
| `before`, `edited`, `result` | history for the properties: tree, receipt and root at begin, files the user changed since, and the outcome |

An action is one change of the disk: append a record, rename a file, create or
remove a directory. Between any two of them `Crash` may end the process, which
keeps the disk and forgets everything else. `StepFails` is an I/O error or a
cancellation before the commit point: the engine answers with rollback.
`StepBlocked` is the same for an error the code itself raises because of what it
finds. Rollback, recovery and cleanup that return an error are `Refuse`; the
caller gets the error and a later call tries again (`Retry`).

| Phases | Code |
| --- | --- |
| `journal`, `header`, `destination` | `begin_transaction_with_package_lock`, then `check_destination_files` again under the lock |
| `remove`, `removeMove`, `removeBack` | `remove_obsolete_file`, `remove_if_unchanged` |
| `apply`, `makeRoot`, `stage`, `staged`, `replaceMove`, `replaceBack`, `replaced`, `publish`, `verify` | `apply_file` |
| `bindReceipt`, `createReceipt`, `writeReceipt`, `publishReceipt` | `stage_receipt` |
| `commit`, `cutover`, `publishLive` | `commit` of either adapter |
| `mark`, `validate`, `undo`, `restore`, `undoStaged`, `undoRoot`, `restoreReceipt`, `dropStagedReceipts` | `mark_rolling_back`, `rollback_install`, `rollback_upgrade`, `rollback_uninstall` |
| `clean`, `sweep`, `dropReceipts`, `dropDeleted`, `dropJournal`, `dropState`, `dropRoot` | `cleanup_transaction`, `remove_owned_empty_directories` |
| `Recover...` from `idle` | `recover_pending`: `load_recovery_for_scope`, then one procedure per operation |

Definitions marked `faulty` are not part of the specification, nor are the few that
only weaken the one they precede (`MayStartUnlocked`, `LaunchAllowedOnce`,
`StillThere`, `VersionlessTranscript` and the like). Each is a plausible bug in the
definition that follows it, and replacing that definition by it must break the
property it is listed with under `mutants`.

### State of `BackendClient` and the code

| Variable | In the code |
| --- | --- |
| `closing`, `slot`, `slotLock` | `ClientInner::closing`, `process` and the lock of `process`, held by a call while it replaces or spawns |
| `proc` | `BackendProcess`: `stdin` open or taken, the lock of `stdin` (held during a write), `pending`, `closing`; `fail` and `by` are `failed` and how far the thread that set it is inside `fail` |
| `child` | the child: running, exited but not waited for, reaped; its stdin pipe, the requests it works on, its stdout pipe |
| `call`, `at`, `mail` | per call: its kind, where its thread is, whether it is in its own request or in the cancel request it sends after a timeout; the process of each request; the channel of each request |
| `reader` | the stdout thread of each process and the line it has parsed and not yet delivered |
| `closer` | the thread in `close` |
| `sent`, `seen` | history: control events of an operation, emitted and received |

A lock that is held for one step is not a variable; the two that are held over
several steps are. The child is not modelled from its source here: it reads,
answers each request once, reports events, prints anything, exits, or never does
any of it. A timeout may expire whenever its thread waits.

### State of `StdioServer` and the code

| Variable | In the code |
| --- | --- |
| `sent`, `stdin`, `input` | the requests read so far, the client's end of stdin, and how far `read_input` is |
| `channel` | the `sync_channel`: requests, the end or failure of input, events, results; every message names its request |
| `mutation`, `operation`, `shutting`, `outputFailed` | the local variables of `serve` |
| `serving`, `cancelling` | the loop, and a cancel between the look at `finished` and the answer |
| `worker[r]` | the thread of a request: where it is, its `cancel` flag, the events emitted, `PendingMutationProgress` (`pending`; `hand` and `tick` are what the worker or the ticker has taken and not yet sent, during which it holds the lock), the ticker, alive or ended |
| `out` | the lines on stdout |

### State of `Engine` and the code

| Variable | In the code |
| --- | --- |
| `tree`, `receipts` | the install directories and the live receipt of each package |
| `pending` | the transaction directory of a package: the receipt it would publish, the files its journal names, those moved to the backup tree, and whether the commit point is passed |
| `packageLock`, `directoryLock` | the advisory locks `acquire_package_lock` and `acquire_destination_lock` take |
| `pc`, `call`, `seen`, `todo`, `cur` | per process: where its call is, the call, the receipt it loaded without a lock, the files still to handle and the one in hand |
| `taken`, `faults` | history: places a user or a dead transaction touched; bound |

Labels follow the calls: `recover`, `recovering` (`recover_pending`), `load`
(`prepare_install`, `load_receipt`), `preflight` (`check_install_plan` without a
lock), `begin` (the package's lock and the checks again), `directory` (the
directory's lock, the journal's header, the destination again), `apply`,
`publish`, `finish`; for a launch `look`, `load`, `start`, `spawn`.

### State of `SetupShell`, `SetupApp` and the code

| Variable | In the code |
| --- | --- |
| `context`, `loader`, `selection`, `installCompleted` | `AppState::setup` and the command that builds it, `SetupContext::selection`, `finish flag` |
| `gate`, `dialog`, `active` | `starting`, `dialog_open`, `active` |
| `closeStarted`, `closeReady`, `closer`, `doomed` | the flags of `lib.rs` and the thread that shuts down |
| `op`, `cmd`, `events` | operations with their completion threads, command threads, events on their way |
| `view`, `retryable`, `review`, `accepted`, `opId`, `opPending`, `cancelPending` | the state of `use-installer.ts` |
| `tree` | what is installed: nothing, an old publisher's package, this package |

### State of `SystemSession` and the code

| Variable | In the code |
| --- | --- |
| `job`, `package`, `cancel` | the request, what the package file holds now, `SystemOperation.cancel` |
| `broker`, `report` | the thread in Setup and how it ended the operation |
| `process`, `helper`, `ends` | the helper process as its parent sees it, its own state, which ends of the transport are open |
| `down`, `up` | frames in flight |
| `tree` | the system installation: before, changing, after |

### State of `Studio`, `Authoring` and the code

| Variable | In the code |
| --- | --- |
| `payload`, `folder`, `config`, `output` | the project on disk: payload files, an imported directory, `luxury.toml`, the bundle |
| `job` | the worker's operation: what it read, what it has set aside (`aside`) and published so far; what the user has touched meanwhile, and what between a look and its rename (`late`) |
| `active`, `cmd` | `StudioState::active` and the command under way |
| `view`, `draft` | `StudioView` and the form of `ProjectView` |

### State of `Exchange` and the code

| Variable | In the code |
| --- | --- |
| `disk`, `installed`, `others` | the package or the project at the path, what the destination holds compared with it, changes other processes made |
| `shell` | `SetupContext` or `StudioState`: the bound package or project, the selection with its plan, the request that is open and its cancel; what the user agreed to, what is shown and what was told of the last operation |
| `client` | whether the process is in use, the next identifier, `pending` with the kind of each request |
| `requests`, `lines` | the two pipes |
| `server`, `job` | the process of the CLI and its worker: the decoded request, the package it opened, phase and progress |
| `tree` | what the last install or uninstall did to the destination: before, after, torn, or unknown after a panic |

### What `Transaction` abstracts

- A torn last line of the journal is ignored by the reader, so it is the same as
  a record that was not appended. `prepare_rollback_marker` truncates it.
- Files of one pass are handled in any order; the code uses manifest order
  forwards and reverse order backwards.
- Subdirectories are left out; the install root stands for the directories a
  transaction creates and removes when empty.
- Copying a file into the staging area is one step, and so is hashing and
  unlinking a file, or hashing and moving a backup home. A user edit may come
  between all other steps, including between the hash journaled for a file
  and its rename, which the code checks for.
- Receipts are compared by the files they own. Two receipts with the same files
  are one receipt, as in a repair.
- An I/O error in begin after the header, in rollback, recovery or cleanup ends
  the call without a change and is covered by `Crash`.
- The executable bit is significant, as it is on Unix.
- Legacy journals (v2, v3), the hard-link pairs they leave, and the binding of a
  header to package, install base and scope are left out: the model follows one
  package in one place, written by this version.
- The locks are held for the whole call, so one package has one call at a time;
  what other packages do meanwhile is in `Engine`.

### What `BackendClient` abstracts

- A line is its kind and its request. Whatever fails validation (protocol,
  identifier, tag, length, partial last line) is the line `bad`; an error without
  a request is `fatal`, after which the reader goes on.
- A result and a backend error are both an answer; errors made by the client are
  all `failed`.
- Request identifiers are fresh, as `NEXT_REQUEST_ID` makes them.
- The queue counters are the events in the channel: a receive and the release of
  its budget are one step.
- Failure to start the reader threads, and the checks of the executable, are a
  failed spawn.

### What `StdioServer` abstracts

- A line is its kind, its request and the number of the event. Requests that are
  answered without a worker (`defaults`, malformed, unsupported, duplicate id,
  busy, bad parameters, no thread) are one action, and so are those with which a
  worker starts.
- What a worker computes is in `Exchange`; here it may end whenever it likes, cancelled or
  not, with a result, an error or a panic, all of which are one answer.
- The flush before `MutationEvents` is dropped and the one in its `drop` are one:
  nothing is emitted between them. The ticker looks at `stop` when it waits.
- The ticker's interval may end at any time; its thread may fail to start.
- A write to stdout succeeds or fails; that a client stops reading without closing
  the pipe, so that the write blocks, is left out. A stdout that is broken stays
  so, and which lines of a failed write went out is left out.

### What `Engine` and `PackageFormat` abstract

- A commit, a rollback and a recovery are one step each: `Transaction` shows that
  they are all or nothing. Journaling a file and moving the old one aside are one
  step; announcing the new file and publishing it are two, and other processes act
  in between.
- `Crash` also stands for a call cancelled before it holds a lock. A cleanup of a
  committed transaction may fail silently, as it does in the code.
- A rollback or recovery that finds a conflict restores any part of what does not
  conflict, except in an upgrade, which validates first.
- Semantic versions are numbers, path aliases are left out.
- Signatures and digests are ideal: a signature says which key signed which record,
  a content is its own digest. Of tar and gzip there remain the order of entries,
  their names, whether they are regular files, and whether anything follows. Sizes
  and the bundle limits are left out.

### What `Protocol` and `Exchange` abstract

- A text is its number of characters and of UTF-8 bytes; which characters it has is
  left out, except that a message of the system has control characters. An
  identifier, a version or a path of a form parses or does not.
- Threads, queues, timeouts and replacement of the process are in `BackendClient`,
  `StdioServer` and `SetupShell`: here the shell asks for one thing at a time and may
  cancel it, and a client that failed ends the session.
- Reading a package, a compiler's operation and a launch are one step each, install
  and uninstall one step for each phase, with progress before and at the end. A
  failed or panicking compiler leaves the project as it was, except for init. What
  the validators check of paths when a worker starts is checked with decoding.
- Only user scope: system operations do not take this pipe. The fingerprint that is
  compiled into a Setup of one package is left out; it allows less.
- How a receipt may be damaged is a choice of the engine's errors for it.

### What the Setup modules and `SystemSession` abstract

- An operation of user scope runs and ends as `BackendClient` and `Engine` allow:
  any outcome, cancelled or not. Events carry what the renderer reads of them.
- `reveal_installed` changes nothing and is left out. Consents to a license and to
  an unsigned package are given with the start.
- In `SystemSession` the checks of identity, signature and ownership of the other
  process are one nondeterministic failure; the probe is there on Windows, where the
  handshake has it. `guard_command`, and the registration of the macOS service, are
  left out. The engine of the helper is its checkpoints, its events and its outcome.

### What `Studio` and `Authoring` abstract

- One directory with its files and some files next to it are what can be imported.
  A scan of the payload is one step. The target is not Windows, so programs are
  known by their mode; the explicit list of `updateProject` is left out.
- Limits, links and names that are refused are `StepFails`.
- The renderer's `busy` reference admits one command at a time; the dialog guard and
  the guard of the backend are redundant with it and are not modelled.
- Closing Studio during a command is `Reopen`.

## Runs

| Run | Instance | What it shows |
| --- | --- | --- |
| `transaction` | two paths; version 1 owns both, version 2 changes one and drops the other, version 3 only makes one executable; the user may write a third content or delete; 2 crashes or failures, 2 edits | the properties below, over every interleaving of install, upgrade, repair, downgrade and uninstall |
| `transaction_atomic` | versions 1 and 2 only, so that a replacement has a digest of its own; 2 crashes or failures, 1 edit | `Transaction` implements `AtomicInstall`; a pending transaction is resolved or refused |
| `engine` | two packages of two files in one directory, two processes, two contents, two keys; every archive of at most four entries out of a pool of written and altered ones; a legacy, a signed or no installation at first; one death in a transaction or one file removed by the user | files stay with their package, receipts follow the policy, an installed signed package is a published one, a launch starts what is installed |
| `shared_directory` | the same, with two packages that have one file in common | finding 2 |
| `client_live` | one call of any kind; two processes; two events; one crash or invalid line; close | no second child, no forgotten call, no double completion, control events are not lost, timeouts end their calls, the end of the child ends every wait, close ends |
| `exchange` | a package or a project for each limit, at it and beyond; a destination for each plan; each way a trusted key is bad; one change by others | both ends of the pipe agree on every line, consents reach the engine, what is told is what happened |
| `server` | two requests of all kinds under two identifiers, two events each, a channel for one message; stdin ends or fails, stdout breaks at any time | one answer, at the end; cancels are scoped; one worker; order and flushing of events; every request is answered; the server exits and leaves nothing |
| `setup` | two operations of user scope, nothing or an old publisher's package installed, one close | views tell the truth, a success is not reported as a failure, the review is the selection |
| `setup_live` | one operation of system scope over an old publisher's package, one completion thread that cannot start, one close | no operation runs unobserved, progress views and closes end |
| `close_race` | one operation of system scope, one close | finding 1 |
| `session` | each platform, each action; the reviewed package and another one that may take its place; three events, room for two frames in flight; cancellation, death of either process, deadlines at any point | reports are true, only the reviewed package changes the system, every session ends on both sides |
| `studio` | a project with the sample, a directory of imported files and a file beside it, two settings; one edit by the user with other tools, one failure, kill or restart | imports are all or nothing, the user's work is kept but in three named windows, the bundle and the screen agree with the project |

Two paths suffice for every relation between two files of one pass (one done,
one not), and the packages give each path every role: kept, replaced, dropped,
added, changed in mode only. Two faults allow an error and a crash in the
rollback it starts, or a crash and a second one in the recovery; that is the
deepest nesting the code distinguishes, since a third interruption of recovery
finds what the second may have left. Two edits let the user change a file and
change it back, or change both. Every action of `Next` fires. `transaction` and
`transaction_atomic` do not check for deadlock: when a foreign file is in
the way of every package, each further call is a refusal.

Safety properties of `transaction`:

- `JournalSound`: nothing is moved, staged, published or created that a record on
  disk does not announce; whatever failed appends and rollbacks leave is a journal
  the reader accepts; and the records fit into what the capacity check reserved.
- `OriginalSurvives`: until the outcome is decided, the original of every file
  is in place or in the backup tree.
- `OwnershipKept`: until the commit point the old receipt is live or set aside.
- `OutcomeTree`: the tree, receipt and root after either outcome, through any number
  of recoveries.
- `NothingLeftBehind`: with nothing pending no backup, staged file, journal or
  spare receipt remains.
- `RefusalExplained`: the only reasons for which rollback or recovery refuse.
- `BackupsNeverLost`, `CommitIsFinal`: what a step may never do.

`ImplementsAtomicInstall` reads the abstract tree off the disk alone: while the
outcome is open it is what a rollback would bring back (the backup if there is
one, nothing for a file that only the transaction put there), and the owner is
the live receipt or, between two renames, `receipt.previous`. Seen this way
every step is invisible except the begin, one commit, one giving up, and the
user's changes. Version 3 is not in its instance, because a replacement that has
the digest of the original breaks the promise (see below).

The bound of `JournalSound` on records is tight: a transaction of the two files can
write exactly as many as `capacity.rs` reserves, and one more when the user deletes
a file in between; `MAX_JOURNAL_RECORDS` (1,000,010) leaves room for that beyond
`MAX_RECEIPT_FILES` (100,000).

Liveness is `PendingResolved` under weak fairness of `Progress`: a call is a
sequential procedure over finitely many files and runs to its end unless the
process dies, and a caller that finds a transaction pending calls again, because
the engine recovers at the start of every install and uninstall. Crashes and
edits are not fair and are bounded. `Begin` is not fair.

In `engine`, two processes give every pair of calls, on one package or on two that
share a directory. The history of `app` goes from a legacy or unsigned installation
to a signed one and on to a second key; a rotation made for another version and
altered manifests, signatures and objects are among the archives. With one file
in two versions and one in one, each pass has a file to keep, to replace, to drop
and to add. One fault is what it takes for a transaction to be left behind while
others go on. After a user removed a file of one package, another package may
bring its own there, and a repair of the first overwrites it; that is why
`OwnersKeepTheirFiles` leaves out the places in `taken`.

- `OwnersKeepTheirFiles`: an installed package has the files of its receipt and
  shares none, whatever others did in the directory.
- `HistoryIsAuthorized`: one receipt follows another only as the policy for publishers
  and versions allows, under the approvals of the caller that commits.
- `LaunchesInstalled`: what is started is the entrypoint of the live receipt.
- `OnlyPublished`: from any file to an installed package nothing enters that the
  publisher's key did not sign, nor a successor that did not agree.

The assumption `WrittenPackagesOpen`, evaluated in the same run, is the other half:
what a publisher writes can be opened. `SignaturesAreMade` is what ideal signatures
are: in an archive, what a publisher's key signed is a text its holder signed, a manifest
or a succession, though perhaps for another archive, package or version.
`InstalledWasPublished` says `OnlyPublished` of what is installed at first.

One call of the client meets the reader, the closer and, of kind `long`, itself: it
has two requests, the second sent to whatever process is current by then. Calls
that meet each other are covered by `NoChildOutlives` and `RequestsAreAnswered`,
which hold for any number of them. Two processes let a call find the one it has to
replace. Budgets of one make the limits of 256 and 64 bite; the table has room for
two requests. Fairness in
`client_live` is weak fairness of each thread of the client (`CallStep`, `Fail`,
`ReaderStep`, `CloserStep`): threads are scheduled and timers expire. Locks are contended only
finitely often because calls are bounded. The child has no fairness, so it may
hang at any time. The run does not check for deadlock: when all calls
have returned and the client is closed the system has stopped; its liveness shows
that it does not stop earlier. `PipeSize` is three, room for every request; what
happens otherwise is in the list after the findings.

Two requests under two identifiers give the server a running operation and a second
one, a reuse of its identifier, or a cancel of it or of another; a channel for one
message makes every sender wait. Two events suffice for progress that is
replaced, flushed or overtaken. The run checks for deadlock; the final state
has a step of its own (`Exited`). Fairness is weak fairness of
the serving loop, of every worker and ticker and of the input thread once stdin
has ended: each is a thread that blocks only on the channel or a lock held for one
send. The client is not fair. That engines end is assumed.

- `OutputInOrder`: nothing of a request follows its answer, even when its identifier
  is used again at once; events appear as emitted, and before every phase, action
  and answer all that was emitted earlier has been written except progress that
  newer progress replaced (`docs/architecture.md:133`).
- `CancelIsScoped`: only a shutdown or an accepted cancel that names it stops a
  request; what a cancel accepts is still owed its answer.
- `WorkersAreJoined`: operations exclude each other, threads included, and none
  outlives the server.
- `RequestsAnswered`, `ServerExits`: liveness.

Two operations let Setup install after a failed or cancelled attempt, migrate a
publisher and uninstall again; more only repeats what the selection then is. The
second scope differs in how it prepares and cancels and is in `setup_live`. A close
may come at any time, its shutdown may time out at any step, and the window can
then be used and closed again. Fairness in `setup_live` is weak fairness of the
threads of starts, cancels, completions and the close, of event delivery, and of an
operation's end, which the backend's own deadlines force; the user is not fair. The
runs do not check for deadlock: with the window gone nothing happens.

- `ViewTellsTruth`: the finished, complete and uninstalled views agree with the tree,
  and the links of the complete view can be opened.
- `SuccessIsReported`: an install that succeeded passes the comparison with the
  selection it started from, however that selection came about.
- `ReviewIsCurrent`: what the user sees is what the shell will act on, and a consent
  belongs to it.
- `OperationIsFollowed`: what runs is active, about to be, or was told to stop.
- `ProgressEnds`, `CloseSettles`: liveness.

In `session` the transport holds two frames, so that a helper that reports faster
than Setup reads meets a full one, and three events are enough to fill it. Fairness
is weak fairness of the threads of the broker and of the helper, of deadlines, and
of nothing else: nobody has to answer pkexec, to cancel or to die. The exception
`WaitsForBlocked` in its liveness is a real one, see below. The run does not check
for deadlock: a session is over when it is reported.

- `ReportIsTrue`: a success means that the helper has ended and the installation is
  there; a cancellation or a failure means that nothing has changed.
- `OnlyTheReviewed`: the system changes only by the package whose review Setup
  keeps, whatever is at its path when the helper opens it.
- `SessionEnds`: liveness of both sides.

In `studio` one fault and one edit by the user may come at every step of an
operation and between two of them. It checks for deadlock.

- `ImportIsAllOrNothing`: an import that returns leaves all it was to bring or the
  project it found, except for what the user touched meanwhile.
- `BundleIsWhole`: a bundle is complete and has the files its manifest names.
- `UsersWorkIsKept`: no operation removes or overwrites a file the user made, but at a
  path this import has published or is writing, and in three windows the property names
  (`late` in `job`): an edit of `luxury.toml` between its comparison and the rename
  (`authoring.rs:666`), and one of `hello.txt` between the comparison and the rename that
  sets it aside (`:599`) or between the look and the rename that puts it back (`:628`).
  Without any one of the three exceptions the run finds a violation.
- `ScreenAgrees`: the screen is the active project.

In `exchange` each start has the requests its question needs: a session that gets to
a plan for the limits, one that installs, loses a file or a destination to others,
plans again and uninstalls for the rest. Packages differ from a plain one in one
field at a time, because every limit is checked for itself; unsigned and signed,
with and without a license and a rotation, they meet an empty destination and one
with an older, the same, a newer or another build of the version. One change by
others is what it takes to make a plan stale. Texts of errors are as long as the
system makes them. The run does not check for deadlock: a session ends.

- `EndsAgree`: the three parts of it say that the client of a CLI that could start
  never takes a line for the output of something else (`HealthyStaysUp`); that the CLI
  understands every request of the shell (`RequestsAreUnderstood`); and that the shell
  takes every result, but for the disagreements listed after the findings
  (`AnswersAreAccepted`).
- `OnlyWhatWasAgreed`: an install that changes something installs the package that was
  reviewed, with every consent that this package and this destination call for, and
  never a lower version.
- `FailureIsTold`: success, a change that was undone and a rollback that failed reach
  the user as what they are.

## Findings

1. `ClosePassesNoOperation`, run `close_race` (`shell/setup.rs:386`). The shutdown
   reads `active` and then `starting`; a start publishes `active` and then drops
   `starting`. When both writes fall between the two reads the operation is seen by
   neither, and the window closes over it, against `docs/architecture.md:36`.
2. `RemovalIsReceiptOwned`, run `shared_directory` (`local/mod.rs:1524`). A process
   dies after it journaled a file and before it published it. Another package
   installs a file of the same content there. The recovery of the first removes it,
   against `docs/ai-build.md:357`: it knows the file by its digest alone.

Other differences from documentation or comments that were met while modelling and
have no run of their own. The properties leave these cases out by name; everything
else they state holds.

- Local adapter. An upgrade that changes only the executable mode of a file gives
  old and new file one digest. A rollback interrupted after it restored the file
  and run again deletes it (`mod.rs:1763`, `remove_regular_matching` compares the
  digest alone), where `engine/install.rs:311` promises an idempotent rollback. A
  first installation that dies while `receipt.pending` is created and not yet
  written cannot be recovered: cleanup parses the file before it removes it
  (`mod.rs:2124`). Recovery of an installation removes files until it meets one that
  changed, where `docs/architecture.md:168` has it validate first (`mod.rs:1509`).
- Backend client. A write to a child that stopped reading holds the lock of stdin,
  which `close` takes before it computes its deadline and `fail` before it kills
  (`shell/backend/client.rs:610`). A request registered when `close` takes stdin
  fails its write, which kills the child before the deadline of the shutdown
  (`client.rs:501`).
- Broker. On Windows a cancellation that meets the helper's answer fails to be
  written, and a committed result is then reported as indeterminate
  (`shell/privilege/windows.rs:681`; `docs/privileged-helper.md:60`); the same can
  happen where the socket is closed by then. The Linux broker looks after each
  frame whether the helper has exited and then drops frames still queued; it may
  not kill a helper of root, and `wait` has no deadline (`linux.rs:342`). A pipe in
  `PIPE_NOWAIT` mode fails the operation of a helper whose reader is slow. The
  macOS broker does not look at the exit code.
- Authoring. A kill between setting the starter aside and the first published entry
  leaves an empty payload (`docs/ai-build.md:113`); one between two entries makes
  the repeated import a conflict; a killed `init` leaves half a `luxury.toml` which
  a repeated `init` refuses. The rollback of an import stops at the first entry that
  fails. A check and the rename it guards are two steps: what is saved to `luxury.toml`
  in between is overwritten (`authoring.rs:666`); a `hello.txt` saved after it was found
  to be the sample (`:599`) is moved into the staging directory (`:603`) and deleted with
  it when the import succeeds, or when it cannot be put back, though
  `docs/ai-build.md:113` has the starter removed only while it is exact; one created
  after the look of a restore (`:628`) is replaced by its rename (`:630`) where a rename
  replaces, though `README.md:38` says that imports never overwrite an entry. The
  model has all three as steps of their own, and `UsersWorkIsKept` excepts them by name.
- Limits. The format counts the characters of a description, the shell its bytes, and
  the format allows an install directory of 512 bytes, the shell one of 255: Studio
  and Setup refuse projects and packages the CLI builds (`shell/app.rs:254`,
  `luxury-spec/src/manifest.rs:172`). The installed version in a plan is not limited
  where the version of a package is (`stdio.rs:2079`); the shell then refuses the
  plan. A package for another platform is inspected by the CLI and refused by Setup.
- Codes. `integrity_failed`, `collision`, `io_error`, `install_failed`, `inspect_failed`,
  `defaults_failed`, `invalid_params` and `trusted_publisher_key_invalid` have no text of
  their own and are shown as an internal error (`shell/app.rs:431`). When the plan
  after an uninstallation does not come, Setup is left without a selection.
- Studio. Fields can be edited while a command runs, and what is typed then is lost;
  the dialogs for create and open drop the draft even when cancelled; a save
  overwrites edits made to `luxury.toml` with other tools since; and a save that
  fails after it replaced the file leaves the old project on the screen.

## Proofs

`TransactionProofs` holds for every finite set of files, any packages and user
content, and any number of faults and edits. It assumes `JournalAssumption` and
`TransactionAssumption` only.

- `TypeCorrect`: `Spec => []TypeOK`. `TypeOK` is not inductive: appending a
  record about `cur` needs `cur` to be a file, and a rollback needs the content
  it restores. `TypeInv` adds `PhaseOK`: in every phase that handles a file
  there is one in hand, it belongs to the plan, and it has the record or the
  staged copy the phase relies on.
- `OwnershipSafe`: `Spec => []OwnershipKept`. The inductive invariant `Bound`
  ties three things together: the header of the journal holds the receipt that
  was live at begin (`JournalBound`), and where the receipt files are in each
  phase, in particular that between the two renames of a cutover the old receipt
  is `receipt.previous` and that an undecided transaction is never cleaned up as
  committed (`ReceiptBound`).

Both have one lemma per group of actions (forward steps, rollback, cleanup,
recovery, failures) and one step per action.

The second part of the module builds on them and assumes nothing more.

- `StorageIsEmptied`: `Spec => []NothingLeftBehind`. `CommitStands`:
  `Spec => CommitIsFinal`. That nothing is left behind when a call is over depends
  on what every earlier step left for the cleanup to find, and what the process
  knows of it. `Books` says it: which receipt files, directories and records exist
  in which phase (`PlanBound`, `StorageBound`, `OpenReceipts`, `SpareReceipts`,
  `CommittedReceipts`) and which records the process has (`KnownBound`).
- `Covered`: a file is staged, set aside or published only after the record that
  covers it, on disk and in the process. `Readable`: the records are in an order and
  of kinds the reader accepts, and none is written twice; `JournalIsSound` needs it.

The third part follows a file through a transaction. Its inductive invariant
`Accountable` adds to `Books` and `Covered`:

- `Meant`: a record about a file says what the plan and the receipt say about it;
- `Passes`: what each pass over the files has handled and has left to do;
- `Outcomes`: a file the user left alone is untouched, set aside, replaced, or lost
  as in the finding about modes, and the records and the pass agree with that;
- `Rooted`: the same for the install root.

From it follow `OriginalsKept` (`[]OriginalSurvives`), `AllOrNothing`
(`[]OutcomeTree`), `BackupsReturn` (`BackupsNeverLost`), `JournalIsSound`
(`[]JournalSound`: the reader's checks and, by counting the records a plan can
cause, the reserved space) and `RefusalsHaveReasons` (`[]RefusalExplained`: one
lemma per check that can refuse, each of which would be a rollback that gives up
without need). None of the properties is inductive: they speak of the end, and
between begin and end the only account of where a file is are the journal and the
phase.

`InstallsAtomically`: `Spec /\ []ContentChanges => ImplementsAtomicInstall`. Each
step is mapped to a stutter, the commit at the cutover of the receipt, the giving up
at the end of a rollback, or a begin. `ContentChanges` says that the package at hand
changes no file by its executable mode alone: for such a file a rollback that is
interrupted and repeated loses the original (see the findings), the transaction is
then not atomic, and the code offers no other hypothesis under which it would be.
`ClosedAssumption` is about the mapping, not the program: the value that stands for
"no transaction" is not a receipt.

`EngineProofs` holds for any processes, packages, directories, archives, keys and
approvals and any number of faults; it assumes `AssessmentAssumption` and
`EngineAssumption` only, and its third part the assumptions of `Distribution`.

- `HistorySafe`: `Spec => HistoryIsAuthorized`. A commit acts on a judgement that was
  made without a lock. The inductive invariant `IInv` says why it still stands:
  `LocksOK` (from which step on a call holds which lock) and `JudgedOK` (while it
  does, the live receipt is the one it judged, and the transaction on disk is the
  one it began). `AcceptedFollows` is the policy itself, for any two releases.
- `LaunchSafe`: `Spec => []LaunchesInstalled`, from the same invariant.

What one process established, others might take away. `Frame` says what a step of
a process may touch: its own state and what it has locked; each action has a lemma
that it keeps the invariant of its own process and is a frame. `SteadyKeeps` says,
once for all actions, that a frame of one process and the user's removals keep the
invariant of every other.

The second part of the module builds on it, for any number of files the user removes
and of calls that die in a transaction.

- `OwnersSafe`: `Spec => []OwnersKeepTheirFiles`. The property says nothing of the
  middle of a transaction, so it is far from inductive. `FilesInv` adds two parts to
  `IInv`. `PlacesOK` looks at one file of one directory: it has at most one owner and
  is as the owner's receipt has it, or one transaction that a process works on has it
  in hand, and then its backup is exactly what the owner had there and whatever lies
  there was published by that transaction: this is what makes a rollback safe.
  `TaskOK` is the progress of a call: the files it has handled have their new content,
  those it has not are untouched, and no other package owns one of them. The last
  part is established when the transaction starts, from the empty destination and the
  directory's lock (`FreePlaces`), and kept because a package comes to own files
  only at a commit, under the lock of its directory (`OwnersOnlyCommit`).

The proof has one lemma per action. `OnePlace` is shared by the steps that change one
file, `UndoPlaces` by rollback and recovery, `TaskStays` says what the others' steps
leave alone. `EngineAssumption` has a part for this proof only: packages that are
installed at first in one directory have no file in common.

The third part follows a package from its publisher to the receipt.

- `PublishedOnly`: `Spec => []OnlyPublished`, for any publications and successions and
  any archives made of them. `OffersPublished` is about the reader: what opens for a
  caller as a signed package has the manifest its publisher signed (`ManifestSigned`),
  the files this manifest names (`BodiesAsNamed`, from the checks of the objects), and a
  next key that agreed to this package, version and predecessor (`SuccessionAgreed`;
  manifests and successions are never mistaken for each other, `TextsDiffer`). A call
  keeps the offer it began with until its commit (`Offered`, in the invariant
  `PublishedInv`), and by `JudgedOK` the transaction it commits is its own.
  `WrittenPackagesOpen` is not used. `SignaturesAreMade` speaks of texts that were signed
  and of none of the reader's checks: without the version in a transcript the run finds
  the property violated.

`ServerProofs` holds for any capacity of the channel, any number of requests (with
identifiers used again), and any events; it assumes `ServerAssumption` only. A worker,
its ticker and the serving loop meet in the channel, and the properties are about
what the client reads. The inductive invariant `Serves` has, besides types:

- `WorkersOK`: of the pending progress, the flush and the ticker at most one holds an
  event, and it is the latest progress before the control event that waits for it;
- `Asked`: a request is in the channel, in the loop or in a worker, and only there;
- `Slots`: the one active request has a worker until its result has been handled,
  the result comes after all its events, and nothing else is in the channel for it;
- `Flow`: what is written and what is queued are in the order of emission and are not
  held by the worker as well.

`WorkersJoin` (`[]WorkersAreJoined`) follows. `CancelsStayScoped` (`[]CancelIsScoped`)
adds `Accepts`: a raised flag has its accepted line or a shutdown, a line its active
or answered request. `OutputKeepsOrder` (`[]OutputInOrder`) adds `Flushed` (progress
without a successor is written, queued or held when a control event or the end waits)
and `Ordered` (events on stdout before answers, each after what was due). `Does`
groups the steps by what they do to the channel and to stdout, so that each
invariant is proved for a few groups and not for every action.

`BackendProofs` holds for any number of calls, processes, events and faults and for
any bounds of the queues; it assumes `ClientAssumption` only. The child is arbitrary,
so everything rests on who may do what to a process and to its table:

- `Unborn`: a process that was not spawned has no child, table, line or failure;
  `OneProcess`: only the last one spawned can have a child that is not reaped, and
  it is the slot's, or the thread that took it out of the slot reaps it before it
  releases the slot or ends. `NoChildOutlives` (`[]ChildrenAreReaped`) follows.
- `Tokens`: the completion of a request is in the table of its process, in the hands
  of that process's reader, or in the queue of the caller, and only there.
- `StdinHeld`: a thread writes under the lock of stdin, and who fails a process
  closes stdin under that lock before it empties the table.
- `Remembered`: a request that is waited for is `Kept` (completed, in hand, or in a
  table that is still going to be emptied) or `Late`: registered after the table was
  emptied, by a caller that is about to find stdin closed and to fail by itself.
  `RequestsAreAnswered` (`[]AnsweredOnce`) follows from it and `Tokens`.

`QueuesStayBounded` (`[]QueuesBounded`) needs the types only.

`EventsArrive` (`[]ControlEventsArrive`) counts the control events of an operation from
the child to its caller, along the invariant `Tallied`:

- `HasAt`, `SaysAt`: a child has a request in one place, its stdin or its work, and
  prints lines only about requests that were written to it, the result as the last.
- `Latest`: the answer is the last thing in the channel of a caller. When the reader has
  it in hand, or has given it, no process has anything more to say about the request.
- `Tally`: the control events sent are those received, in the channel, in the hands of
  the reader, or printed and not yet read. They differ only after a reader stopped
  without having given the answer, and then the call does not end with one.

With `Latest` nothing is left to come when the caller takes the answer, and `Tally` says
that all that was sent has been received.

`SessionProofs` holds for any packages, any bounds of the transport, the three
platforms and every death and deadline; it assumes `SessionAssumption` only. Two
processes that can each die at any step share a pipe in each direction, and what one
knows of the other it has from a frame, from a status or from nothing.

- `HelperOK` is what the helper knows of its own work: in which place nothing is
  changed yet, that a change was permitted by the pinned package and its consents
  (`Permitted`), and that the outcome it holds is the one the tree has (`Matches`).
- `Told`: what a helper that is over has said stays so. `FramesOK` carries it through
  the pipe, for every frame in it, and `BrokerOK` from the last frame to the report.
  A request in the other direction names the package that was reviewed.
- `StartOK`: a process is started once, and a declined one has changed nothing.

`TruthIsReported` (`[]ReportIsTrue`) needs all of them; `ReviewedOnly`
(`[]OnlyTheReviewed`) follows from `Permitted`. `Kept`, `DownStep` and `UpStep` say what
any step may do to the tree, to the job and to the pipes, so that an action of a
platform is proved by showing which of the shared steps it is and what it adds.

`SetupProofs` holds for both scopes and any number of operations, requests to close and
threads that cannot be created. It assumes `ShellAssumption`, and `NoneAssumption`: that
there is no selection or no review is not a selection or a review (`None` of an `Option`
and `null` in the renderer). Six command threads, a completion thread per operation, the
closing thread and the renderer share one context, and the properties are about what the
user sees of it. The inductive invariant `IInv` has, besides types:

- `Arranged`: which views allow which commands to be on their way, so that two commands of
  the user never change the review at once;
- `Flow`: where the operation on display is. `Resting`: there is none; what still runs was
  cancelled. `Asking`: its command has not begun it. `Begun`: it was, and its command
  publishes it or disowns it. `Followed`: a completion thread has it, it is active until
  that thread clears it, and only its progress is in the queue of events. `Told`: the queue
  ends with its outcome, which is true. The renderer knows its name or the answer that
  brings the name is on its way (`Named`);
- `RunsAlone`: what runs, runs alone, on the selection it was started with, and no review
  is on display;
- `Reviewing`: with a review on display, or a command about to bring one, nothing runs and
  what is selected is what is installed (`Judged`).

`TruthIsShown` (`[]ViewTellsTruth`) follows from `Flow`, `ActsOnWhatItShows`
(`[]ReviewIsCurrent`) from `Reviewing`, `SuccessStands` (`[]SuccessIsReported`) from
`RunsAlone`, `NoneIsLost` (`[]OperationIsFollowed`) from `Flow`. A few lemmas say what a
class of steps does: `CommandMoves`, `StartMoves` and `LateMoves` to a command on its way,
`ThreadGoes` to a completion thread, `NothingMoves` for the closing thread, `CallMoves` and
`RestingStays` for the renderer; each action is shown to be a step of its class.

`StudioProofs` holds for any files, settings and selections to import, and any number
of edits, failures, kills and restarts. It assumes `AuthoringAssumption`;
`ConfigAssumption`: that luxury.toml is absent or half written is not a configuration;
and `StudioAssumption`: the directory without a project is another one, the entry point
dialog offers files of the payload, and an import picks entries beside the payload, a
directory as a whole and not a file in it.

- `ImportOK` is the account of an import. `Accounted`: every entry the user leaves alone
  is as it was before but for what is published, being written, or moved aside, where
  nothing of the user's was (`WasFree`). `Listing`: nothing is published twice, so that
  removing the last entry of the list undoes exactly one. `NoHalf`, `Configured`,
  `Complete`: only the file being written is half written, whatever the user does, the
  configuration is the one that was read or the one that was verified, and what was
  verified is all there. `AllOrNothing` (`[]ImportIsAllOrNothing`) follows.
- `BuildOK`: the snapshot has each file as it was hashed, or not yet, and the payload
  that was hashed is valid. `WholeBundle` (`[]BundleIsWhole`) follows.
- `CommandOK` ties the command of the window to the job of the worker, `WindowOK` what
  is shown, or was when the command began, to the active project and the output.
  `WindowAgrees` (`[]ScreenAgrees`) is `WindowOK` between commands.
- `ComparedOK`: between a comparison and the rename it decides, `luxury.toml` and the
  starter are what they were found to be, or the edit is `late`. It is what makes each
  step of the worker `Spares`, from which `WorkIsKept` (`UsersWorkIsKept`) follows, with
  the same three windows; and why a starter the user left alone is the sample when it is
  set aside (`Accounted`), so that putting it back restores the project.

Steps of the worker are proved from what they do to single fields of its job
(`Proceeds` names those that change), once per step; `Works` and `Edited` sum up what a
step of the worker and of the user keeps, and the window is proved from these sums.

`ExchangeProofs` holds for any packages, projects, forms and texts, and any number of
requests and of changes by others. It assumes `SessionAssumption`, about what a session can
find (Setup a bundle that opens, Studio a valid project or none; a bundle is replaced by a
bundle), about the errors of the ports and about typed texts. One request crosses two
pipes and four places; what the user agreed to is on one end of it and what is changed is
on the other. The inductive invariant `IInv` follows it:

- `Flow`: one request and one cancellation at a time; `Ordering`: the line that ends a
  request is its last, and none is written while the request is queued or runs;
- `Asks`, `JobFits`, `AtFits`: on each way the parameters are those of what is shown and
  agreed to, also after they were written, read and decoded;
- `Answers`: each line is one the client and the shell take for an answer to what was
  asked (`ErrorFits`, `ResultFits`), the lengths included: `ShortText`, `LicenseText`,
  `PackageIsAccepted`, `ProjectIsAccepted` say that what the format allows stays below the
  limits of the server and of the shell;
- `Reviewed`: until others change something, what is on display is what is on the disk, or
  the outcome that changed it is on its way; `Doing`: what the engine compared before it
  changes anything.

`EndsAlwaysAgree` (`[]EndsAgree`) follows from `Answers`, `OnlyTheAgreed`
(`[]OnlyWhatWasAgreed`) from `JobFits`, `Reviewed` and `Doing`, `FailuresAreTold`
(`[]FailureIsTold`) from `Answers` and `PublicCode`: each code the engine ends with has a
public one, and the shell keeps it.

`TypeOK` of `Transaction` and `QueuesBounded` of `BackendClient` are proved and no run
repeats them.

All safety properties of the passing runs are proved. Only checked by TLC is liveness
(`PendingResolved`, `RequestsAnswered`, `ServerExits`, `CallsReturn`, `CloseReturns`,
`ProgressEnds`, `CloseSettles`, `SessionEnds`), which under fairness is out of the prover's
reach. The inductive invariants hold in the instances of the runs as well: `IInv`,
`FilesInv` and `PublishedInv` in that of `engine` (1.3 million states), `Serves` in one of
the server (0.4 million), `IInv` of the session in that of `session` (0.3 million), of
Studio in that of `studio` (3.1 million) and of the exchange in that of `exchange` (0.8
million), `Tallied` in an instance of the client with an operation and a short call (1.1
million), and `IInv` of Setup in that of `setup` with all that may be installed at first
(2.0 million) and, with one operation and a thread that cannot be created, for both scopes
(1.2 million).

## Not modelled, and the plan

Modules worth adding, in this order:

1. `BackendClient` and `StdioServer` composed: one answer per request end to end, under
   the contents of `Exchange`.
2. The capacity arithmetic in bytes, as operators over bounded inputs; signing keys
   in the compiler.

What stays outside, and why:

- Release tooling (`xtask`, about ten thousand lines): builds and probes artifacts on
  a developer's machine and is not part of the running system.
- The Windows and Unix file-system layer, the system roots and platform trust: calls
  to the operating system. The models take their contract (a rename that replaces
  nothing, a durable sync, a lock that ends with its handle, a verdict on a
  signature); that the calls keep it cannot be read from this code.
- Serialisation, the characters of strings and paths, the command line: data without
  state. Frames to the helper are modelled by their kind and their request.
