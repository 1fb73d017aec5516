# A TLA+ model of clsync

clsync downloads and uploads files for a C# service. The program is a main
thread that feeds commands to a `SyncManager`; the manager runs the transfers
in two pools of worker threads, watches the service with a monitor thread, and
reports every result through a callback into an IPC socket. This directory
holds a TLA+ model of that machinery and of the parts it is built from, TLC
configurations that check it on small instances, and TLAPS proofs of its main
safety properties for every number of tasks, workers, retries and commands.

## Inventory

| part | operations | who else touches its state | modules |
|---|---|---|---|
| `SyncManager` (net/sync_manager.*) | `start`, `stop`, `enqueue`, `wait_for_idle`, `set_result_callback`; in the workers `take_task`, `process_task`, `complete_task`, `requeue_task` | all threads, under `mutex_` and two condition variables | SyncManager, TaskLedger |
| health monitor (same files) | `monitor_loop`, `set_service_state` | wakes workers and waiters, fails queued tasks, runs callbacks | SyncManager |
| `clsync` main (net/sync.cpp) | `main`, the result callback | the callback runs in worker and monitor threads | ClsyncMain |
| command parser (net/sync_manager.cpp) | `parse_tokens`, `enqueue_ipc_command` | main | IpcCommand, Intake |
| configuration (net/sync.cpp) | `set_unsigned_from_environment`, `load_configuration` | main; `start` tests it again | Config, Intake |
| path resolution (net/sync_manager.cpp) | `resolve_local_path`, `is_large_task` | clients, workers, and whoever changes links | LocalPath, Intake |
| `Network` (net/network.*) | `http_get`, `http_post`, `http_put`, `http_delete`, `http_upload_file`, `http_download_file` | one object per thread; all share the file system | Network, Transfer, Download |
| SHA-256 (net/sha256.*) | `sha256_file` | `Network` | Sha256, Sha256Transform |
| reborn socket (include/reborn) | `sendRequest`, `processRequests`, opening, `close`, destructor | main and callbacks | Reborn, Mailbox |
| rfs file and NTFS layer (include/rfs) | open, close, read, write, seek, size, file info | test driver only | RfsFile |
| kuse kernel (include/kuse), logging | - | not built; pure output | - |

What makes this code hard to test: results are reported without a lock; a
retry releases the mutex between two decisions; two pools share one condition
variable; `stop` may arrive in the middle of anything; a `.part` file is found
by name while another thread may use the same name; the process may die between
the removal of the old file and the renaming of the new one. `PROJECT.json`
lists these hazards line by line with the properties that cover them.

## Modules

A definition with a suffix (`Dropped_on_stop`, `PartRemoved_not`, ...) is wrong
on purpose and used by nothing. Each is a plausible bug; put in place of the
definition after it, it makes one property fail. `PROJECT.json` lists the pairs.

**SyncManager.** One variable per member of the class, plus the program
counters of the threads. Whatever the code does under `mutex_` is one atomic
action; actions are cut where the mutex is released: around a transfer, around
a callback, between `push_back` and `notify_all` in `enqueue`, between
`set_service_state` and `requeue_task` in `process_task`, and between the
parts of `stop`. A `queue_cv_.notify_all()` sends every sleeping worker back to
the top of `take_task`'s loop (`Woken`), an `idle_cv_.notify_all()` wakes the
caller of `wait_for_idle` (`WokenWaiter`); sleepers also wake spuriously. Time
is abstract: a requeued task is in `delayed` until `retry_delay_elapsed`. Only
the number of failed health checks is capped, at `MaxRetries + 1`, which the code
does not tell from larger numbers.

**Transfer** is the seam between SyncManager and Network: the classes of HTTP
status and error text that `is_retryable` tells apart, and `FailedTransfers`, the
outcomes a failed transfer can leave. SyncManager takes every one of them;
Network is checked to leave no other (`OutcomeIsKnown`), and none that would be
retried when the call was refused before its request: the status is then that of
an earlier request, and only the text stops the retry.

**TaskLedger.** What the manager promises about one task, without threads,
queues or locks: accepted once, tried at most `max_retries + 1` times, ended
once, reported at most once and only after its end. `SyncManager` implements
it with `results_[id].state`, `results_[id].attempts` and the number of final
reports (`LedgerKept`).

**ClsyncMain** extends SyncManager by the main thread, `ipc_mutex` and the
socket's buffer. The manager's actions are those of SyncManager; a report is
now a callback that needs `ipc_mutex`. A command is accepted, `STOP`, or
rejected. Main holds `ipc_mutex` over several steps only around its last
`stop()`.

**Mailbox** is the promise of the socket: requests are forwarded in the order
sent, none twice, none lost from the middle. Both **Reborn** (the socket class
with several drainers) and ClsyncMain (the program around it) implement it,
with what was forwarded and what is buffered as what was sent.

**Reborn** also models the descriptor: the constructor opens it, `close` and
the destructor close it, and the rest of the process opens and closes files
that may get the same number.

**IpcCommand** is one call of `enqueue_ipc_command`: the tokenizer one character
per step, then the reading of the tokens and the tests of `enqueue`. There are two
references. One is a sender (**CommandText**) that writes arguments bare or in
either kind of quotes, one behind the other (`Render`, `Joined`). The other is the
grammar of SYNC_PROTOCOL.md (`Grammar`, `Meant`), where a size is the sum of what
its digits are worth (`Value`); `stoull` reads it digit by digit from the front
(`Number`). Characters stand for words where only the whole word matters; quotes,
backslashes, spaces, the ten digits and signs are themselves.

**Config** reads the seven numbers one by one, each from any kind of text, with
the maxima of the C++ types as constants, and ends with the tests `start` makes.

**LocalPath** resolves a path in `enqueue` and again in `process_task`, over a
file system with links. In `process_task` the creation of directories, the check
and each later use of the name by Network (`open_file`) are steps of their own, and a
link may change between any two of them (`relink`). `lexically_normal` and
`weakly_canonical` are modelled by what they do to names and links; what a name
leads to when it is used is `Reached`.

**Intake** extends these three and puts them one behind the other, as main does: the
configuration is
loaded and the manager started, a command is parsed, and the path of its task
is resolved. The parser does not look at the configuration's numbers, nor the
path resolution at the rest of a command; so commands are explored from the
empty environment only, and paths from four commands (`Probes`), a download and
an upload of an acceptable path and of a refused one.

**Network** is one object and the calls on it: the options of the shared curl
handle, forms, attempts, `last_http_status_` and the response.

**Download** is `http_download_file` in several threads over one file system:
names point to inodes, an open stream writes to its inode whatever the name
means by then, and every library call on a name is one step. The body arrives
in chunks, right or wrong; the last flush in `close` may be lost unnoticed;
attempts fail and are repeated; the process may die at any step and be restarted.

**Sha256** reads a file through a buffer, fills blocks and pads; its compression
is a parameter. **Sha256Transform** is the compression, bit by bit (a word is
the set of its bits). MCSha256 joins them: the file's blocks are collected, then
compressed, which is the same because nothing but the compression reads
`state_`. **Sha256Padding** holds the padding as the standard defines it,
**Sha256Messages** known digests.

**RfsFile** is a file object and any sequence of calls on it. `std::fstream` is
its mode, its one position and its state bits, as libstdc++ implements them. A
flush of earlier writes may fail in `close`, and in `read`, `seek` and `size`
(`flush_fails`).

The `MC*` modules give the constants their values. The proofs are in
**SyncManagerProofs** (sequences, the inductive invariant, where the tasks are,
tries, start and stop), **SyncManagerClients** (waking, waiting, reports, the
ledger) and **ClsyncMainProofs** (the program), each extending the one before;
**DownloadProofs**, **Sha256Proofs** and **RebornProofs**; **LibraryProofs**
(Network, RfsFile, LocalPath) and **IntakeProofs** (Config, the way of a command from
its text to its task, and that Intake uses LocalPath as LocalPath's own specification
says).

## Runs

| run | instance | shows |
|---|---|---|
| manager_safety | 2 small tasks, 2 + 1 workers, 1 retry, symmetric | each task in one place, exact `active_tasks_`, nothing left by `stop`, no lost wakeup on either condition variable, no retry left in Error |
| manager_live | 1 task, 2 + 1 workers, fair | TaskLedger is implemented through all restarts (so tries are bounded and an end is reported at most once), `wait_for_idle` answers true only when all is settled, `stop` returns, tasks settle once the service stays healthy, every end is reported |
| manager_outage | 1 task, 1 + 1 workers, fair | **violated**: tasks do not survive an outage that reached Error |
| main_verdict | 1 small and 1 large task, 1 + 1 workers, up to 2 commands, fair | exit code 0 is true, the verdict is the last message, nothing is left in the socket on return, Mailbox is implemented, the program ends or is in the one deadlock below |
| main_returns | 1 task, up to 3 commands, fair | **violated**: the program need not end |
| download_own | 2 threads, 2 files, 2 calls of 2 attempts each, 2 chunks | a final file is the old one or a checked one, also after crashes; nobody writes to it any more; no `.part` is left by a call that returned; the old file is lost only between its removal and a failed rename |
| download_shared | 2 threads, 1 file | **violated**: an unchecked body gets the final name |
| network | 3 calls of 3 attempts | every request carries its own options, forms are freed, a failed transfer leaves an outcome that SyncManager expects, and a refused call is not retried for an old status |
| intake | 5 kinds of text and 7 numbers in each of 7 variables; every text of up to 5 characters, 2 quoted arguments, commands of the grammar and near misses; all paths of up to 3 names, 2 places that may be links | of what Config accepts `start` refuses only a timeout above the largest `long`, and what is started is what was given; the tokens are the sender's arguments, only an unclosed quote gives an empty one, a command is queued exactly when it follows the grammar; a file that is used is below `local_root` unless a link changed after the check or the last name of an upload is one; no directory is created outside while links stay |
| reborn | 3 requests, 2 drainers, 2 descriptors, fair drainers | Mailbox is implemented, `processRequests` ends and answers truly, no descriptor leaks or is closed for somebody else |
| rfs_file | 2 names with and without a stream, 2 bytes, seeks from all three origins | the position is what the return values tell; a true with error 0 from `open` means the file that was named |
| sha256 | 32 lengths around 0, 64 and 128 bytes, reads of 50; 6 of them with a known digest | the blocks compressed are the padded message; a digest is of the whole file; the compression gives the known digests |

The bounds. Two tasks and two workers of one pool are the least that let one
worker requeue a task while another takes it, let a delayed item stand before
a ready one, and let a worker be idle while another is busy; the second pool is
needed because both sleep on one condition variable. One retry gives a
task that is tried, delayed and tried again, and health checks that go through
Disconnected to Error. Restarts are not bounded: `start` and `stop` alternate
for ever. A body of two chunks and at most three received ones gives empty,
truncated, right, wrong and overlong bodies; two calls give a retry of the task,
or a crash and a second life, and two attempts a retry inside a call. Three
calls on a Network object let one call stand between two of another kind.
Paths of three names reach a file through two nested places that may be links; with
`..` and `.` among the names they go into a directory and back out. Links lead to
`local_root` itself, to a directory in it, and to a directory and a file outside. In
Config the types are scaled down: `int` and `long` to 3 bits and `long long` to 4,
the case in which a timeout does not fit; the numbers are the boundaries of each. The
theorems cover a wider `long` as well. Reads of 50 bytes make every
offset in a block the end of a read or close to one; the lengths cover both
sides of the two paddings (55/56 and 63/64 bytes), in the first and a later block.
Tasks and workers of one kind are interchangeable, so manager_safety uses
symmetry; the runs with temporal properties do not.

Fairness. Every thread that can run is eventually scheduled (weak fairness per
worker, for the monitor, for a running `stop` and for a pending `notify_all`).
A transfer and a health check end because `configure_request` always sets
`CURLOPT_TIMEOUT_MS`; retry delays and the five minutes of main's
`wait_for_idle` pass. Nothing makes the service answer well, and no client
has to call anything: a property that needs a healthy service says so
(`TasksSettle`). In Reborn a thread inside `processRequests` is scheduled;
`DrainReturns` further relies on finitely many requests (`MaxSent`), since
a drainer that is fed for ever may indeed stay in its loop. Deadlock is checked for
SyncManager; elsewhere the program may end or the number of calls is bounded.

## What the violated runs show

* **main_returns.** Main calls `manager.stop()` with `ipc_mutex` held
  (net/sync.cpp:163-165). `stop` joins the workers, and a worker's callback
  locks `ipc_mutex` (net/sync.cpp:133). `complete_task` announces idleness
  before it runs the callback, so a worker may still be on its way there. The
  same happens after a timed-out wait and with the monitor's callbacks.
  `ReturnsOrBlocked` shows that this is the only way for main not to return.
* **manager_outage.** net/SYNC_PROTOCOL.md:3 says that tasks wait in the queue
  until the service recovers. After `max_retries + 1` failed checks queued tasks
  fail and all workers end; the monitor goes on, and tasks accepted afterwards
  are never run even when it reports Connected again.
* **download_shared.** net/SYNC_PROTOCOL.md:17 says a download is renamed only
  after its checks. Two tasks may have the same local path; they share one
  `.part` file, and one of them can rename what the other has just rewritten.

## Smaller disagreements

The properties above leave room for these on purpose; each is stated where the
property is.

* A size with a minus sign is accepted: `std::stoull` wraps, so -1 is the largest
  size instead of "Invalid expected size." (net/sync_manager.cpp:268-274). Blanks
  and a plus sign before the number, in a quoted argument, are accepted too.
  `Starts` (where the number of a text may begin) and `Size` allow the same, and
  `SizeIsRead` proves that this is all that is allowed.
* `enqueue_ipc_command` treats an empty size or checksum like `-`
  (net/sync_manager.cpp:265, 278), but the tokenizer drops empty arguments, so
  such a command is refused as malformed. `Arguments` leaves them out.
* A retry delay of 0 is explicitly allowed (net/sync.cpp:69) and then taken for
  not given (70); `EnvironmentIsUsed` excepts it.
* Where a `long` is as wide as an `int` (the Windows target), a timeout above
  2^31 - 1 passes `load_configuration`, turns negative and is refused by `start`.
  `RefusedOnlyForTimeout` says that nothing else is; because `start` refuses it, no
  manager ever runs on the changed number (`EnvironmentIsUsed`).
* net/SYNC_PROTOCOL.md:17 says that a link out of `local-root` is refused.
  `resolve_local_path` checks the directory above the file and not the last name
  (net/sync_manager.cpp:200), and the name is opened later: an upload whose last
  name is a link, and any path on which a link changes after the check, are not
  refused. `TransferInside` excepts both (`LastIsLink`, `steady`).
* While a task is queued a link may change so that `process_task` creates
  directories elsewhere (195) before its check refuses the task (201);
  `MadeInside` speaks of links that stay.
* `File::open` on an open object returns true and leaves the old file behind the
  stream; only the error code tells (`OpenedIsNamed`). A write that fails
  half-way returns the full size (include/rfs/fs_file.cpp:83-88), after which
  `PositionKnown` claims nothing. `seek` calls `seekg` and `seekp` on one
  position, so from the current position the offset is applied twice (98-99);
  `PositionKnown` reckons with twice the offset (`Reckoned`), and claims nothing
  after such a seek has failed, when one of the two may have moved it.
* The test of control files (tests/ntfs/test_filesystem.py:31) expects
  `ordinary.mounted:stream` to be rejected; `is_target_mounted_file` rejects
  `.mounted` and `.mounted:...` only, and the test passes because the file it
  opens does not exist.

## Proofs

Some of these properties are stated and proved without a run of their own: the
type invariants, `AttemptsBounded` and `OneFinalReport` (TLC sees them as parts of
`LedgerKept`) and `LengthExact` (a part of `PaddedRight`).

| theorem | property | module |
|---|---|---|
| TypeCorrect, PlacesCorrect, ActiveCorrect, AttemptsCorrect, StopCorrect | `TypeOK`, `TaskInOnePlace`, `ActiveIsExact`, `AttemptsBounded`, `StopLeavesNothing` | SyncManagerProofs |
| AnswerCorrect, ErrorCorrect, IdleWakeupCorrect, WakeupCorrect | `IdleAnswerSound` (an action property), `ErrorLeavesNoRetry`, `NoLostIdleWakeup`, `NoLostWakeup` | SyncManagerClients |
| ReportCorrect, LedgerCorrect | `OneFinalReport`, `LedgerKept` (a refinement) | SyncManagerClients |
| ManagerKept | ClsyncMain implies SyncManager's `Spec` and `[]IInv` | ClsyncMainProofs |
| ProgramCorrect | `LedgerKept`, `IdleAnswerSound` and the manager's invariants that the runs check, of ClsyncMain | ClsyncMainProofs |
| MainTypeCorrect, VerdictCorrect, DeliveryCorrect, ExitCorrect, IpcCorrect | `MainTypeOK`, `VerdictIsLast`, `DeliveredBeforeReturn`, `ExitZeroIsTrue`, `IpcKept` (a refinement) | ClsyncMainProofs |
| PublishedCorrect, ClosedCorrect, NoPartCorrect, OldFileCorrect | `PublishedIsValid`, `PublishedIsClosed`, `NoPartLeft`, `OldFileSafe` | DownloadProofs |
| BlockIndexCorrect, LengthCorrect, WholeFileCorrect, PaddingCorrect | `TypeOK`, `LengthExact`, `DigestOfWholeFile`, `PaddedRight` | Sha256Proofs |
| VerdictCorrect, OthersCorrect, FdCorrect, MailboxCorrect | `DrainVerdict`, `OthersKeepTheirs`, `NoFdLeaked`, `MailboxKept` (a refinement) | RebornProofs |
| RequestCorrect, FormsCorrect, OutcomeCorrect | `RequestIsItsOwn`, `FormsFreed`, `OutcomeIsKnown` (an action property) | LibraryProofs (Network) |
| PositionCorrect, OpenCorrect | `PositionKnown`, `OpenedIsNamed` | LibraryProofs (RfsFile) |
| TransferCorrect, MadeCorrect | `TransferInside`, `MadeInside` | LibraryProofs (LocalPath) |
| RefusalCorrect, EnvironmentCorrect | `RefusedOnlyForTimeout`, `EnvironmentIsUsed` | IntakeProofs |
| TokensCorrect, ArgumentsCorrect, CommandCorrect | `OnlyLastEmpty`, `TokensAreArguments`, `CommandIsUnderstood` | IntakeProofs |
| SizeIsRead | `stoull(t)` is `Size(t)` exactly when `Starts(t)` is not empty, and fails otherwise, for every text | IntakeProofs |
| PathsAreLocal | Intake implies LocalPath's `PathSpec`, so what holds of one holds of the other | IntakeProofs |

**Assumptions.** SyncManager: disjoint finite non-empty pools and any `MaxRetries`
(`ConfigAssumption`, the conditions `start` checks). ClsyncMain: at least one
command. Download: `Separate`, that is, no two workers have the same local path and no
path is the `.part` name of another; download_shared shows that the first is
needed. Config: any widths with a `long` that is wider than an `int` or just as wide,
and defaults that `start` accepts (`ConfigWidths`). `TokensCorrect`: the texts are sequences of characters. `ArgumentsCorrect` and `CommandCorrect`: `Senders`,
that is, a text that is meant as arguments is what `Render` makes of some sequence of
arguments in one of its three styles; the arguments, their characters and their
number are arbitrary, texts that nobody meant may be anything, and `SizeMax` is any
number. Sha256: any lengths, contents, buffer size and
compression; `PaddingCorrect` takes the compression that collects its blocks, as
the run does, and files below 2^61 bytes, whose length in bits fits into 64 bits.
RfsFile: any lengths. LocalPath: `FileSystem`, that is, names are
strings and `local_root` is canonical (`start` makes it so, net/sync_manager.cpp:189);
`MadeCorrect` also needs `LinksAreReal`, that the directories a link is in exist or
are below the root. Network and Reborn: any numbers of calls, retries, requests,
drainers and descriptors. TLC evaluates the assumptions that the modules
declare; the ones stated in a theorem hold in the instance of its run.

**SyncManager.** The invariants are not inductive one by one, so their conjunction
with two more formulas is: `IInv == TypeOK /\ TaskInOnePlace /\ ActiveIsExact
/\ Tries /\ Lifecycle`. `Tries` says that a worker on its way to `requeue_task`
has a task with a try left (the test was made in an earlier step) and that
every waiting task has one. `Lifecycle` ties `started_` and `stopping_` to the
threads: without it a worker could put a task back into a queue after `stop`
cleared it. `StepEffect` reduces the many actions to six effects on the tasks:
none, giving up all queued ones, enqueue, take, completion, requeue; for each
a lemma shows that tasks stay in one place and how the set of busy workers
changes. The cardinality of that set gives `ActiveIsExact`. The lemmas on
sequences state what erasing and appending do to a duplicate-free queue.
`ErrorLeavesNoRetry` and `NoLostIdleWakeup` are inductive relative to `TypeOK`,
`NoLostWakeup` relative to `TypeOK` and `QueuedOnce`.

**Reports.** `OneFinalReport` counts reports made and reports owed. Its inductive
form `Reports` names them instead of counting: a reported task is settled; a
worker that owes a report holds a settled task that nobody has reported, no
other worker owes and the monitor has not noted; likewise for what the monitor
has noted. With `IInv` it also gives the refinement of TaskLedger, one action
of the ledger for each effect on a task.

**ClsyncMain.** `ManagerStep` shows that main calls the manager only as
SyncManager allows, so all theorems about the manager hold in the program.
`MainInv` adds `Calls` (no thread runs before `start` or after a return) and
`Conversation` (no verdict has been sent before "finalStop", `ipc_mutex` is held
from there on, SYNC ERROR is the last word forwarded while main stops because
of it). A step is quiet, adds one message while no verdict is out, or drains the
buffer; each keeps `VerdictIsLast`, and each is a step of Mailbox.

**The exit code.** `ExitZeroIsTrue` relates the number of COMPLETED messages to
results that were read earlier, without the lock. `ExitInv` says that a true
verdict stays true (no command is left, and a completed task stays completed) and
that for every completed task the message is owed by exactly one worker or has
been sent exactly once. A worker that owes one is not joined, so on return
none is left.

**Download.** `IInv` gives every worker its own inodes (`NamesApart`) and says
stage by stage what its `.part` name means and what has been checked of it
(`Stage`), so that what is renamed is what was checked (`Final`).

**Sha256.** The bits counted and the bytes in the block add up to the offset in
the file. For the padding, `Gathered` says that what was compressed and what
stands in the block are the bytes read so far, wherever reads and blocks end;
`finish` is then followed through its two cases, room for the length in this
block or only in the next.

**Reborn.** A drainer's status and the count of what it has forwarded move
together (`RequestInv`); a step forwards the head of the buffer or nothing, which
is a step of Mailbox. `FdInv` says that an object alive has either no
descriptor or one that the kernel has as its socket, and that the others' descriptors
and the socket's are apart.

**Network.** `Handle` says that a request is performed with the options of its own
call, whatever the calls before left in the shared handle, and that the only form
alive is the one in use; `Outcome` that a failed
transfer is one of `FailedTransfers`, and not one to retry when no request was made.
**RfsFile.** With `Lengths` (every size and position is a number) `PositionKnown` is
inductive; a seek that is relative to the current position is followed through both
of its moves (`SeekTwice`).

**Induction.** `Done` and `Walk`, which model `lexically_normal` and
`weakly_canonical`, are recursive functions over the names of a path; `Joined`, `Kept`,
`Number` and `Value` are such functions over texts. No theorem of
the library gives induction for them here, so it is derived in the form the provers
can use: a non-empty set of numbers has a smallest element (`SmallestExists`), so
a set with 0 that is closed under successor has all numbers (`UpTo`), so a
step can be applied along a sequence (`Iterate`). LibraryProofs and IntakeProofs
each begin their part with these lemmas.

**LocalPath.** From these come: no name
of a normal path is `.`, a walk through the canonical root ends there
(`RootWalk`), a walk that
is at a place neither below the root nor above it nor above a link can never come
back (`LostStays`), and so each directory that is missing on the way of a confined
path is inside (`MissingInside`). `Tested`
says that the check of `process_task` still holds of the links as they are, as long
as none has changed since; what is used then is in the directory that was checked,
for an upload when its last name is no link (`PlainLastName`). The test of `enqueue`
holds until a link changes
(`StillConfined`).

**Config.** Members not yet read still have their defaults, and one that was read has
its number; the timeout may instead be a number above the largest `long` that has
become negative (`Wrapped`), and then `start` refuses it (`Sound`). **Tokens.** While the
text is read every token was pushed at a separator and is not empty
(`TokenInv`); only what follows the loop can push an empty one.

**Arguments.** The property speaks of the end of the loop, so the invariant has to
say where the loop is in the rendering (`Reading`): between two arguments, with all
before kept, or within one, in quotes or plain, with so many of its characters read
(`Between`, `Quoted`, `Plain`). What lies ahead in the text is then the rest of the
rendering. The lemmas `QuotedAhead`, `PlainAhead` and `BetweenAhead` say which
character that begins with and what lies ahead behind it; they are about texts
only. One turn of the loop takes one place of the rendering to the next
(`ReadingStep`), and at the end of the text the arguments are all read (`ReadingEnd`).

**Commands.** With the arguments as tokens, `CommandStep` goes through the cases of
`enqueue_ipc_command` and compares each with `Grammar` and `Meant`. The sizes need
`SizeIsRead`. It rests on `SameNumber`: the number that the front of a text gives,
times what the next digit from the back is worth, plus the sum of the digits behind,
is the same all the way. The places where a number can start are one at most, the
one that the skipping of blanks and a sign finds.

Only model-checked: `StopReturns`, `TasksSettle`, `EndIsReported`,
`ReturnsOrBlocked` and `DrainReturns`, because the prover handles neither fairness
nor ENABLED; and `DigestIsSha256`, because it compares the compression of single
messages with known digests: there is nothing general in it to prove.

## Abstractions

* `start` is called by the thread that calls `stop`; two client threads that
  start and stop at once are not modelled. One thread calls `wait_for_idle`.
* `stop_set_state` merges `set_service_state(Stopping)` with the two
  `notify_all` right after it; the return of a health check is merged with the
  `set_service_state` it leads to, and main's `start` with `SYNC READY`.
* `process_task`'s first critical section only copies; the counter it copies
  cannot change while the worker has the task, so the model reads it later.
* In Download, removing an existing file succeeds, and equal SHA-256 digests
  mean equal contents. Of what `close` flushes at most one chunk is lost.
* In LocalPath a place that does not exist is kept as it is by `weakly_canonical`,
  and links are not chains of links. A download's `.part` name is treated like its
  last name, because whatever has that name is removed right before it is created
  (net/network.cpp:140-141). One task is followed at a time.
* In Network a request ends with any error or any class of status that
  `CURLOPT_FAILONERROR` leaves; bodies are told apart only as far as
  `is_retryable` reads them.
* The counters of attempts and failures do not wrap: 2^32 failed requests
  would be needed.
* Integer types in IpcCommand and Config are scaled down; the proofs hold for all
  widths.
* `result`, `results` and `service_state` only read.

## Not modelled

* The kuse kernel (include/kuse) is not part of the CMake build and does not
  compile, so it has no behaviour to be faithful to. Logging is pure output.
* The Windows branches of the rfs NTFS layer and of the socket.
* The user agent, the socket's path and its `unlink` in the destructor (nothing
  is ever bound to it), and `client_fd`, which is never assigned.
* The hexadecimal formatting of a digest.
* No order between a RETRY report and the final report of the next try is
  stated: they come from different threads without a lock, and nothing in the
  repository promises one. Nor is there a limit to state for the number of threads
  or the length of the socket's buffer.
